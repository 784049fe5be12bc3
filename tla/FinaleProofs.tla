---------------------------- MODULE FinaleProofs ----------------------------
(***************************************************************************)
(* What the end of a run keeps, for every number of windows, deliveries,   *)
(* rounds, faults and restarts: a frozen run stands, what is archived is   *)
(* what was reviewed, an archive is for good, a carried game is never lost *)
(* or taken back, and growth is settled once.                              *)
(*                                                                         *)
(* A step of play finds a run that is neither frozen nor over (PlayStep);  *)
(* what it does to the rest of the aggregate concerns only the last part,  *)
(* on growth.                                                              *)
(***************************************************************************)
EXTENDS RunFinale, FiniteSetTheorems, TLAPS

Fields    == {"phase", "round", "queued", "log", "grown", "pending", "receipts", "entropy",
              "before", "job", "archive", "out"}
JobFields == {"id", "revision", "text", "source", "digest"}
Keys      == {"checks", "seeds", "jobs", "edits", "pictures", "rewinds", "mishaps"}
Phases    == {"action", "judgment", "paused", "ended"}

Whole(g)      == g = [f \in Fields |-> g[f]]
WholeJob(job) == job = [f \in JobFields |-> job[f]]
One(S)        == \A x, y \in S : x = y

Marks == {S \in SUBSET Nat : One(S)}
Entry == [round : 1..MaxRound, told : Nat, pic : BOOLEAN, pending : Marks]

Typed(g) ==
    /\ Whole(g)
    /\ g.phase \in Phases /\ g.round \in 1..MaxRound /\ g.queued \in BOOLEAN
    /\ g.log \in Seq(Entry)
    /\ g.pending \in Marks
    /\ One(g.before) /\ \A b \in g.before : b.pending \in Marks
    /\ One(g.job)
    /\ g.out \in [Deliveries -> {"none", "pending", "delivered"}]

\* The two ends of a run, and what its phase says of them.
Stages(g) ==
    /\ g.phase = "ended" <=> g.archive # {}
    /\ g.job # {} => g.phase \in {"action", "paused"} /\ ~g.queued /\ g.archive = {}

JobOK(g, job) ==
    /\ WholeJob(job)
    /\ job.id \in 1..spent.jobs /\ job.revision \in Nat /\ job.text \in 0..spent.edits
    /\ job.source = Public(job.digest.log)
    /\ Unpictured(job.digest) = Unpictured(Digest(g))

ArchiveOK(g) ==
    \A a \in g.archive :
        /\ \E c \in confirmed : c.id = a.id /\ c.text = a.text
        /\ a.source = Public(g.log)
        /\ a.grown = g.grown

AggregateOK(g) == Typed(g) /\ Stages(g) /\ (\A job \in g.job : JobOK(g, job)) /\ ArchiveOK(g)

\* The aggregate in memory and the one on the disk may differ in what play
\* does, never in what the GM's operations do.
Twins ==
    /\ One(live) /\ One(disk)
    /\ \A g \in live, h \in disk : h.job = g.job /\ h.archive = g.archive /\ h.out = g.out

\* What a window shows is the job as it is, or an older revision of it.
Shown == [id : Nat, revision : Nat, text : Nat]

ScreenOK(s) ==
    /\ s.id \in 1..spent.jobs /\ s.text \in 0..spent.edits
    /\ \A g \in live \cup disk : \A job \in g.job :
          s.id = job.id => /\ s.revision <= job.revision
                           /\ s.revision = job.revision => s.text = job.text

FinaleInv ==
    /\ spent \in [Keys -> Nat] /\ telling \in BOOLEAN
    /\ screen \in [Windows -> SUBSET Shown]
    /\ \A g \in live \cup disk : AggregateOK(g)
    /\ Twins
    /\ telling => live # {} /\ \A g \in live : g.job = {} /\ g.archive = {}
    /\ \A w \in Windows : \A s \in screen[w] : ScreenOK(s)

----------------------------------------------------------------------------
(***************************************************************************)
(* Sets of at most one, logs.                                              *)
(***************************************************************************)

LEMMA OneCardinality ==
    ASSUME NEW S, One(S)
    PROVE  Cardinality(S) <= 1
<1>1. CASE S = {}
  BY <1>1, FS_EmptySet
<1>2. CASE S # {}
  <2>1. PICK x \in S : TRUE
    BY <1>2
  <2>2. S = {x}
    BY <2>1 DEF One
  <2>3. Cardinality({x}) = 1
    BY FS_Singleton
  <2> QED
    BY <2>2, <2>3
<1> QED
  BY <1>1, <1>2

LEMMA MarksOf ==
    /\ {} \in Marks
    /\ \A n \in Nat : {n} \in Marks
BY DEF Marks, One

LEMMA ToldType ==
    ASSUME FinaleInv, NEW g, Typed(g)
    PROVE  Told(g) \in Entry
<1>1. UNION {b.pending : b \in g.before} \in Marks
  BY DEF Typed, Marks, One
<1>2. spent.rewinds \in Nat
  BY DEF FinaleInv, Keys
<1> QED
  BY <1>1, <1>2 DEF Told, Typed, Entry

LEMMA AppendType ==
    ASSUME NEW log \in Seq(Entry), NEW e \in Entry
    PROVE  Append(log, e) \in Seq(Entry)
OBVIOUS

LEMMA PrefixLog ==
    ASSUME NEW log \in Seq(Entry), NEW n \in 0..Len(log)
    PROVE  SubSeq(log, 1, n) \in Seq(Entry)
OBVIOUS

LEMMA RetoldType ==
    ASSUME FinaleInv, NEW log \in Seq(Entry), NEW i \in DOMAIN log
    PROVE  Retold(log, i) \in Seq(Entry)
<1> DEFINE n == Cardinality({j \in DOMAIN log : log[j].round <= log[i].round})
           s == SubSeq(log, 1, n)
<1>1. n \in 0..Len(log)
  <2>1. {j \in DOMAIN log : log[j].round <= log[i].round} \in SUBSET (1..Len(log))
    OBVIOUS
  <2>2. IsFiniteSet(1..Len(log)) /\ Cardinality(1..Len(log)) = Len(log)
    BY FS_Interval
  <2> QED
    BY <2>1, <2>2, FS_Subset, FS_CardinalityType
<1>2. s \in [1..n -> Entry] /\ n \in Nat
  <2> HIDE DEF n
  <2>1. n \in Nat /\ n <= Len(log) /\ Len(log) \in Nat
    BY <1>1
  <2>2. log \in [1..Len(log) -> Entry]
    OBVIOUS
  <2>3. s = [j \in 1..n |-> log[j]]
    BY <2>1, <2>2
  <2> HIDE DEF s
  <2> QED
    BY <2>1, <2>2, <2>3
<1>3. spent.rewinds + 1 \in Nat
  BY DEF FinaleInv, Keys
<1>4. Retold(log, i) = [s EXCEPT ![i].told = spent.rewinds + 1]
  BY DEF Retold
<1> HIDE DEF s, n
<1>5. [s EXCEPT ![i].told = spent.rewinds + 1] \in [1..n -> Entry]
  <2>1. \A j \in 1..n : [s[j] EXCEPT !.told = spent.rewinds + 1] \in Entry
    BY <1>2, <1>3 DEF Entry
  <2> QED
    BY <1>2, <2>1
<1> QED
  BY <1>2, <1>4, <1>5

\* A scene image changes nothing an archive holds of the story.
LEMMA PicturedLog ==
    ASSUME NEW log \in Seq(Entry), NEW i \in DOMAIN log
    PROVE  /\ [log EXCEPT ![i].pic = TRUE] \in Seq(Entry)
           /\ Public([log EXCEPT ![i].pic = TRUE]) = Public(log)
<1> DEFINE new == [log EXCEPT ![i].pic = TRUE]
<1>1. log \in [1..Len(log) -> Entry] /\ Len(log) \in Nat /\ i \in 1..Len(log)
  OBVIOUS
<1>2. \A e \in Entry : /\ [e EXCEPT !.pic = TRUE] \in Entry
                       /\ [e EXCEPT !.pic = TRUE].round = e.round
                       /\ [e EXCEPT !.pic = TRUE].told = e.told
  BY DEF Entry
<1>3. /\ new \in [1..Len(log) -> Entry]
      /\ \A j \in 1..Len(log) : new[j].round = log[j].round /\ new[j].told = log[j].told
  BY <1>1, <1>2
<1>4. DOMAIN new = DOMAIN log
  OBVIOUS
<1> HIDE DEF new
<1> QED
  BY <1>1, <1>3, <1>4 DEF Public, new

----------------------------------------------------------------------------
(***************************************************************************)
(* Kinds of steps.                                                         *)
(***************************************************************************)

\* An archive stays in every step; what is noted of deliveries, in all but
\* theirs; and the process runs on, in all but a crash and a start.
ArchivesKept ==
    \A g \in live : g.archive # {} => \A next \in live' \cup disk' : next.archive = g.archive
OutsKept == \A x \in live' \cup disk' : \E y \in live \cup disk : x.out = y.out
RunsOn   == live' = {} <=> live = {}
Kept     == ArchivesKept /\ OutsKept /\ RunsOn

\* A step of play: the run is neither frozen nor over, before and after; what
\* it makes of the aggregate may or may not reach the disk.
LEMMA PlayStep ==
    ASSUME FinaleInv, NEW g \in live, g.job = {}, g.archive = {},
           NEW h, Typed(h), h.phase # "ended", h.job = {}, h.archive = {}, h.out = g.out,
           live' = {h}, disk' \in {disk, {h}}, telling' \in BOOLEAN,
           UNCHANGED <<screen, confirmed>>,
           spent' \in [Keys -> Nat], spent'.jobs = spent.jobs, spent'.edits = spent.edits
    PROVE  FinaleInv' /\ Kept
<1>1. \A x \in disk : x.job = {} /\ x.archive = {} /\ x.out = h.out /\ AggregateOK(x)
  BY DEF FinaleInv, Twins
<1>2. \A x \in live' \cup disk' :
         x.job = {} /\ x.archive = {} /\ x.out = h.out /\ Typed(x) /\ Stages(x)
  BY <1>1 DEF AggregateOK, Stages
<1>3. \A x \in live' \cup disk' : AggregateOK(x)'
  BY <1>2 DEF AggregateOK, ArchiveOK, JobOK
<1>4. Twins'
  BY <1>2 DEF FinaleInv, Twins, One
<1>5. \A w \in Windows : \A s \in screen'[w] : ScreenOK(s)'
  BY <1>2 DEF FinaleInv, ScreenOK
<1>6. Kept
  BY <1>2 DEF FinaleInv, Twins, One, Kept, ArchivesKept, OutsKept, RunsOn
<1> QED
  BY <1>2, <1>3, <1>4, <1>5, <1>6 DEF FinaleInv

\* Something is published that concerns neither the job nor the archive nor
\* what they hold.
LEMMA RewriteStep ==
    ASSUME FinaleInv, NEW g \in live, NEW h, Typed(h),
           h.phase = g.phase, h.queued = g.queued, h.job = g.job, h.archive = g.archive,
           h.grown = g.grown, Public(h.log) = Public(g.log),
           Unpictured(Digest(h)) = Unpictured(Digest(g)),
           live' = {h}, disk' = {h},
           UNCHANGED <<screen, confirmed, telling>>,
           spent' \in [Keys -> Nat], spent'.jobs = spent.jobs, spent'.edits = spent.edits
    PROVE  FinaleInv' /\ ArchivesKept /\ RunsOn /\ (h.out = g.out => OutsKept)
<1>1. AggregateOK(g)
  BY DEF FinaleInv
<1>2. AggregateOK(h)'
  BY <1>1 DEF AggregateOK, Stages, JobOK, ArchiveOK
<1>3. ArchivesKept /\ RunsOn /\ (h.out = g.out => OutsKept)
  BY DEF FinaleInv, Twins, One, ArchivesKept, OutsKept, RunsOn
<1> QED
  BY <1>2, <1>3 DEF FinaleInv, Twins, One, ScreenOK

\* Nothing of the aggregate changes.
LEMMA OtherStep ==
    ASSUME FinaleInv, UNCHANGED <<live, disk, screen, confirmed, telling>>,
           spent' \in [Keys -> Nat], spent'.jobs = spent.jobs, spent'.edits = spent.edits
    PROVE  FinaleInv' /\ Kept
<1>1. Kept
  BY DEF FinaleInv, Twins, One, Kept, ArchivesKept, OutsKept, RunsOn
<1> QED
  BY <1>1 DEF FinaleInv, AggregateOK, JobOK, ArchiveOK, Twins, ScreenOK

LEMMA SpendType ==
    ASSUME FinaleInv, NEW what \in Keys, NEW max, Spend(what, max)
    PROVE  /\ spent' \in [Keys -> Nat]
           /\ \A k \in Keys \ {what} : spent'[k] = spent[k]
           /\ spent'[what] = spent[what] + 1
BY DEF FinaleInv, Spend

LEMMA InitFinale == Init => FinaleInv
<1> SUFFICES ASSUME Init PROVE FinaleInv
  OBVIOUS
<1>1. /\ live = {NewGame} /\ disk = {NewGame} /\ telling = FALSE
      /\ screen \in [Windows -> SUBSET Shown] /\ spent \in [Keys -> Nat]
      /\ \A w \in Windows : screen[w] = {}
  BY DEF Init, Keys
<1>2. Typed(NewGame)
  <2>1. Whole(NewGame)
    BY DEF NewGame, Whole, Fields
  <2>2. /\ NewGame.phase = "action" /\ NewGame.round = 1 /\ NewGame.queued = FALSE
        /\ NewGame.log = <<>> /\ NewGame.pending = {} /\ NewGame.before = {}
        /\ NewGame.out = [d \in Deliveries |-> "none"]
    BY DEF NewGame
  <2>3. NewGame.phase \in Phases /\ NewGame.log \in Seq(Entry)
    BY <2>2 DEF Phases
  <2>7. NewGame.queued \in BOOLEAN
    BY <2>2
  <2>4. NewGame.round \in 1..MaxRound
    BY <2>2, BoundsAssumption
  <2>5. /\ NewGame.pending \in Marks
        /\ One(NewGame.before) /\ \A b \in NewGame.before : b.pending \in Marks
    BY <2>2, MarksOf DEF One
  <2>6. NewGame.out \in [Deliveries -> {"none", "pending", "delivered"}]
    BY <2>2
  <2>8. One(NewGame.job)
    BY DEF NewGame, One
  <2> QED
    BY <2>1, <2>3, <2>4, <2>5, <2>6, <2>7, <2>8 DEF Typed
<1>3. NewGame.job = {} /\ NewGame.archive = {} /\ NewGame.phase = "action"
  BY DEF NewGame
<1>4. AggregateOK(NewGame)
  BY <1>2, <1>3 DEF AggregateOK, Stages, ArchiveOK
<1> HIDE DEF NewGame
<1> QED
  BY <1>1, <1>3, <1>4 DEF FinaleInv, Twins, One

----------------------------------------------------------------------------
(***************************************************************************)
(* Play.                                                                   *)
(***************************************************************************)

\* Where run_writable holds, or a round is processed, the run is not frozen.
LEMMA Unfrozen ==
    ASSUME FinaleInv, NEW g \in live, Writable(g) \/ telling \/ g.phase = "judgment"
    PROVE  /\ g.job = {} /\ g.archive = {} /\ g.phase # "ended"
           /\ Typed(g) /\ Whole(g)
BY DEF FinaleInv, AggregateOK, Stages, Typed, Writable

LEMMA PlayFinale == FinaleInv /\ Play => FinaleInv' /\ Kept
<1> SUFFICES ASSUME FinaleInv, Play PROVE FinaleInv' /\ Kept
  OBVIOUS
<1> USE DEF Whole, Fields, Phases, tasks, carry, ghosts, aggregate
<1>0. telling \in BOOLEAN /\ spent \in [Keys -> Nat] /\ One(live)
  BY DEF FinaleInv, Twins
<1>1. ASSUME Advance PROVE FinaleInv' /\ Kept
  <2>1. PICK g \in live : /\ Writable(g) /\ g.phase = "action"
                          /\ live' = {[g EXCEPT !.phase = "judgment", !.queued = TRUE]}
    BY <1>1 DEF Advance
  <2> DEFINE h == [g EXCEPT !.phase = "judgment", !.queued = TRUE]
  <2>2. /\ g.job = {} /\ g.archive = {} /\ Typed(g)
    BY <2>1, Unfrozen
  <2>3. Typed(h) /\ h.phase # "ended" /\ h.job = {} /\ h.archive = {} /\ h.out = g.out
    BY <2>2 DEF Typed
  <2> HIDE DEF h
  <2> QED
    BY <1>0, <1>1, <2>1, <2>2, <2>3, PlayStep DEF Advance, h
<1>2. ASSUME BeginProcessing PROVE FinaleInv' /\ Kept
  <2>1. PICK g \in live : /\ g.phase = "judgment"
                          /\ live' = {[g EXCEPT !.before = {Growth(g)}]}
    BY <1>2 DEF BeginProcessing
  <2> DEFINE h == [g EXCEPT !.before = {Growth(g)}]
  <2>2. /\ g.job = {} /\ g.archive = {} /\ Typed(g)
    BY <2>1, Unfrozen
  <2>3. Growth(g).pending \in Marks
    BY <2>2 DEF Typed, Growth
  <2>4. Typed(h) /\ h.phase # "ended" /\ h.job = {} /\ h.archive = {} /\ h.out = g.out
    BY <2>1, <2>2, <2>3 DEF Typed, One
  <2> HIDE DEF h
  <2> QED
    BY <1>0, <1>2, <2>1, <2>2, <2>4, PlayStep DEF BeginProcessing, h
<1>3. ASSUME Mark PROVE FinaleInv' /\ Kept
  <2>1. PICK g \in live : live' = {[g EXCEPT !.pending = {spent.checks + 1}]}
    BY <1>3 DEF Mark
  <2> DEFINE h == [g EXCEPT !.pending = {spent.checks + 1}]
  <2>2. /\ g.job = {} /\ g.archive = {} /\ g.phase # "ended" /\ Typed(g)
    BY <1>3, Unfrozen DEF Mark
  <2>3. spent.checks + 1 \in Nat
    BY <1>0 DEF Keys
  <2>4. Typed(h) /\ h.phase # "ended" /\ h.job = {} /\ h.archive = {} /\ h.out = g.out
    BY <2>2, <2>3, MarksOf DEF Typed
  <2> HIDE DEF h
  <2>5. spent' \in [Keys -> Nat] /\ spent'.jobs = spent.jobs /\ spent'.edits = spent.edits
    BY <1>3, SpendType DEF Mark, Keys
  <2>6. live' = {h} /\ UNCHANGED <<disk, telling, screen, confirmed>>
    BY <1>3, <2>1 DEF Mark, h
  <2> QED
    BY <1>0, <2>2, <2>4, <2>5, <2>6, PlayStep
<1>4. ASSUME FinishRound PROVE FinaleInv' /\ Kept
  <2>1. PICK g \in live :
          /\ Writable(g) /\ g.round < MaxRound
          /\ Keep([g EXCEPT !.phase = "action", !.round = @ + 1, !.queued = FALSE,
                            !.log = Append(@, Told(g)), !.before = {}])
          /\ \/ UNCHANGED <<drawing, spent>>
             \/ Spend("pictures", MaxPictures)
    BY <1>4 DEF FinishRound
  <2> DEFINE h == [g EXCEPT !.phase = "action", !.round = @ + 1, !.queued = FALSE,
                            !.log = Append(@, Told(g)), !.before = {}]
  <2>2. /\ g.job = {} /\ g.archive = {} /\ Typed(g)
    BY <2>1, Unfrozen
  <2>3. Append(g.log, Told(g)) \in Seq(Entry)
    <3>1. g.log \in Seq(Entry) /\ Told(g) \in Entry
      BY <2>2, ToldType DEF Typed
    <3> QED
      BY <3>1, AppendType
  <2>4. g.round + 1 \in 1..MaxRound
    BY <2>1, <2>2, BoundsAssumption DEF Typed
  <2>5. Typed(h) /\ h.phase # "ended" /\ h.job = {} /\ h.archive = {} /\ h.out = g.out
    BY <2>2, <2>3, <2>4 DEF Typed, One
  <2>6. live' = {h} /\ disk' \in {disk, {h}}
    BY <2>1 DEF Keep
  <2> HIDE DEF h
  <2>7. spent' \in [Keys -> Nat] /\ spent'.jobs = spent.jobs /\ spent'.edits = spent.edits
    BY <1>0, <2>1, SpendType DEF Keys
  <2>8. telling' = FALSE /\ UNCHANGED <<screen, confirmed>>
    BY <1>4 DEF FinishRound
  <2> QED
    BY <2>2, <2>5, <2>6, <2>7, <2>8, PlayStep
<1>5. ASSUME AbortRound PROVE FinaleInv' /\ Kept
  <2>1. PICK g \in live : /\ Writable(g)
                          /\ Keep(IF g.phase = "judgment" THEN Aborted(g) ELSE g)
    BY <1>5 DEF AbortRound
  <2> DEFINE h == IF g.phase = "judgment" THEN Aborted(g) ELSE g
  <2>2. /\ g.job = {} /\ g.archive = {} /\ g.phase # "ended" /\ Typed(g)
    BY <2>1, Unfrozen
  <2>3. Typed(h) /\ h.phase # "ended" /\ h.job = {} /\ h.archive = {} /\ h.out = g.out
    <3>1. CASE g.before = {}
      BY <2>2, <3>1 DEF Typed, Aborted
    <3>2. CASE g.before # {}
      <4> DEFINE b == CHOOSE b \in g.before : TRUE
      <4>1. b.pending \in Marks
        BY <2>2, <3>2 DEF Typed
      <4>2. Aborted(g) = [g EXCEPT !.phase = "action", !.pending = b.pending,
                                   !.receipts = b.receipts, !.entropy = b.entropy, !.before = {}]
        BY <3>2 DEF Aborted
      <4> HIDE DEF b
      <4> QED
        BY <2>2, <4>1, <4>2 DEF Typed, One
    <3> QED
      BY <3>1, <3>2
  <2>4. live' = {h} /\ disk' \in {disk, {h}}
    BY <2>1 DEF Keep
  <2> HIDE DEF h
  <2>5. spent' \in [Keys -> Nat] /\ spent'.jobs = spent.jobs /\ spent'.edits = spent.edits
    BY <1>5, SpendType DEF AbortRound, Mishap, Keys
  <2>6. telling' = FALSE /\ UNCHANGED <<screen, confirmed>>
    BY <1>5 DEF AbortRound
  <2> QED
    BY <2>2, <2>3, <2>4, <2>5, <2>6, PlayStep
<1>6. ASSUME RollbackRound PROVE FinaleInv' /\ Kept
  <2>1. PICK g \in live :
          /\ Writable(g) /\ g.log # <<>>
          /\ Keep([g EXCEPT !.phase = "action", !.round = g.log[Len(g.log)].round, !.queued = FALSE,
                            !.pending = g.log[Len(g.log)].pending, !.before = {},
                            !.log = SubSeq(@, 1, Len(@) - 1)])
    BY <1>6 DEF RollbackRound
  <2> DEFINE last == g.log[Len(g.log)]
             h == [g EXCEPT !.phase = "action", !.round = last.round, !.queued = FALSE,
                            !.pending = last.pending, !.before = {},
                            !.log = SubSeq(@, 1, Len(@) - 1)]
  <2>2. /\ g.job = {} /\ g.archive = {} /\ Typed(g)
    BY <2>1, Unfrozen
  <2>3. last \in Entry /\ Len(g.log) - 1 \in 0..Len(g.log)
    BY <2>1, <2>2 DEF Typed
  <2>4. SubSeq(g.log, 1, Len(g.log) - 1) \in Seq(Entry)
    BY <2>2, <2>3, PrefixLog DEF Typed
  <2>5. live' = {h} /\ disk' \in {disk, {h}}
    BY <2>1 DEF Keep
  <2> HIDE DEF last
  <2>6. Typed(h) /\ h.phase # "ended" /\ h.job = {} /\ h.archive = {} /\ h.out = g.out
    BY <2>2, <2>3, <2>4 DEF Typed, One, Entry
  <2> HIDE DEF h
  <2>7. spent' \in [Keys -> Nat] /\ spent'.jobs = spent.jobs /\ spent'.edits = spent.edits
    BY <1>6, SpendType DEF RollbackRound, Keys
  <2>8. UNCHANGED <<telling, screen, confirmed>>
    BY <1>6 DEF RollbackRound
  <2> QED
    BY <1>0, <2>2, <2>5, <2>6, <2>7, <2>8, PlayStep
<1>7. ASSUME NEW i \in 1..(MaxRound + MaxRewinds), SwipeRound(i) PROVE FinaleInv' /\ Kept
  <2>1. PICK g \in live :
          /\ Writable(g) /\ i \in DOMAIN g.log
          /\ Publish([g EXCEPT !.round = g.log[i].round, !.pending = g.log[i].pending,
                               !.before = {}, !.log = Retold(@, i)])
    BY <1>7 DEF SwipeRound
  <2> DEFINE h == [g EXCEPT !.round = g.log[i].round, !.pending = g.log[i].pending,
                            !.before = {}, !.log = Retold(@, i)]
  <2>2. /\ g.job = {} /\ g.archive = {} /\ g.phase # "ended" /\ Typed(g)
    BY <2>1, Unfrozen
  <2>3. g.log[i] \in Entry
    BY <2>1, <2>2 DEF Typed
  <2>4. Retold(g.log, i) \in Seq(Entry)
    BY <2>1, <2>2, RetoldType DEF Typed
  <2>5. live' = {h} /\ disk' \in {disk, {h}}
    BY <2>1 DEF Publish
  <2>6. Typed(h) /\ h.phase # "ended" /\ h.job = {} /\ h.archive = {} /\ h.out = g.out
    BY <2>2, <2>3, <2>4 DEF Typed, One, Entry
  <2> HIDE DEF h
  <2>7. spent' \in [Keys -> Nat] /\ spent'.jobs = spent.jobs /\ spent'.edits = spent.edits
    BY <1>7, SpendType DEF SwipeRound, Keys
  <2>8. UNCHANGED <<telling, screen, confirmed>>
    BY <1>7 DEF SwipeRound
  <2> QED
    BY <1>0, <2>2, <2>5, <2>6, <2>7, <2>8, PlayStep
<1>8. ASSUME Resume PROVE FinaleInv' /\ Kept
  <2>1. PICK g \in live : /\ Writable(g)
                          /\ live' = {[g EXCEPT !.phase = "action", !.queued = TRUE]}
    BY <1>8 DEF Resume
  <2> DEFINE h == [g EXCEPT !.phase = "action", !.queued = TRUE]
  <2>2. /\ g.job = {} /\ g.archive = {} /\ Typed(g)
    BY <2>1, Unfrozen
  <2>3. Typed(h) /\ h.phase # "ended" /\ h.job = {} /\ h.archive = {} /\ h.out = g.out
    BY <2>2 DEF Typed
  <2> HIDE DEF h
  <2> QED
    BY <1>0, <1>8, <2>1, <2>2, <2>3, PlayStep DEF Resume, h
<1>9. ASSUME RemoveActors PROVE FinaleInv' /\ Kept
  <2>1. PICK g \in live : Writable(g) /\ Publish([g EXCEPT !.queued = FALSE])
    BY <1>9 DEF RemoveActors
  <2> DEFINE h == [g EXCEPT !.queued = FALSE]
  <2>2. /\ g.job = {} /\ g.archive = {} /\ g.phase # "ended" /\ Typed(g)
    BY <2>1, Unfrozen
  <2>3. Typed(h) /\ h.phase # "ended" /\ h.job = {} /\ h.archive = {} /\ h.out = g.out
    BY <2>2 DEF Typed
  <2>4. live' = {h} /\ disk' \in {disk, {h}}
    BY <2>1 DEF Publish
  <2> HIDE DEF h
  <2>5. spent' \in [Keys -> Nat] /\ spent'.jobs = spent.jobs /\ spent'.edits = spent.edits
    BY <1>9, SpendType DEF RemoveActors, Mishap, Keys
  <2>6. UNCHANGED <<telling, screen, confirmed>>
    BY <1>9 DEF RemoveActors
  <2> QED
    BY <1>0, <2>2, <2>3, <2>4, <2>5, <2>6, PlayStep
<1>10. ASSUME DrawPicture PROVE FinaleInv' /\ Kept
  <2>0. PICK g \in live : \E i \in DOMAIN g.log : Publish([g EXCEPT !.log[i].pic = TRUE])
    BY <1>10 DEF DrawPicture
  <2>1. PICK i \in DOMAIN g.log : Publish([g EXCEPT !.log[i].pic = TRUE])
    BY <2>0
  <2> DEFINE h == [g EXCEPT !.log[i].pic = TRUE]
  <2>2. AggregateOK(g) /\ Typed(g)
    BY DEF FinaleInv, AggregateOK
  <2>3. /\ [g.log EXCEPT ![i].pic = TRUE] \in Seq(Entry)
        /\ Public([g.log EXCEPT ![i].pic = TRUE]) = Public(g.log)
    BY <2>2, PicturedLog DEF Typed
  <2>4. /\ Typed(h) /\ h.phase = g.phase /\ h.queued = g.queued /\ h.job = g.job
        /\ h.archive = g.archive /\ h.out = g.out /\ h.grown = g.grown
        /\ h.log = [g.log EXCEPT ![i].pic = TRUE]
    BY <2>2, <2>3 DEF Typed
  <2>5. Unpictured(Digest(h)) = Unpictured(Digest(g))
    BY <2>2, <2>3 DEF Unpictured, Digest, Typed
  <2>6. live' = {h} /\ disk' = {h}
    BY <2>1 DEF Publish
  <2>7. UNCHANGED <<telling, screen, confirmed, spent>>
    BY <1>10 DEF DrawPicture
  <2> HIDE DEF h
  <2> QED
    BY <1>0, <2>3, <2>4, <2>5, <2>6, <2>7, RewriteStep DEF Kept
<1>11. ASSUME DropPicture PROVE FinaleInv' /\ Kept
  BY <1>0, <1>11, OtherStep DEF DropPicture
<1>12. ASSUME Save PROVE FinaleInv' /\ Kept
  <2>1. disk' = live /\ UNCHANGED <<live, telling, screen, confirmed, spent>>
    BY <1>12 DEF Save
  <2>2. Kept
    BY <2>1 DEF FinaleInv, Twins, One, Kept, ArchivesKept, OutsKept, RunsOn
  <2> QED
    BY <2>1, <2>2 DEF FinaleInv, AggregateOK, JobOK, ArchiveOK, Twins, One, ScreenOK
<1> QED
  BY <1>1, <1>2, <1>3, <1>4, <1>5, <1>6, <1>7, <1>8, <1>9, <1>10, <1>11, <1>12 DEF Play

----------------------------------------------------------------------------
(***************************************************************************)
(* The GM's operations.                                                    *)
(***************************************************************************)

LEMMA ReserveType ==
    ASSUME FinaleInv, NEW g \in live, Reserve(g)
    PROVE  LET h == [g EXCEPT !.entropy = {spent.seeds + 1}]
           IN  /\ live' = {h} /\ disk' = {h}
               /\ Typed(h) /\ h.phase = g.phase /\ h.queued = g.queued /\ h.job = g.job
               /\ h.archive = g.archive /\ h.grown = g.grown /\ h.log = g.log /\ h.out = g.out
               /\ Digest(h) = Digest(g)
               /\ spent' \in [Keys -> Nat] /\ spent'.jobs = spent.jobs
               /\ spent'.edits = spent.edits
<1> DEFINE h == [g EXCEPT !.entropy = {spent.seeds + 1}]
<1>1. Typed(g)
  BY DEF FinaleInv, AggregateOK
<1>2. /\ Typed(h) /\ h.phase = g.phase /\ h.queued = g.queued /\ h.job = g.job
      /\ h.archive = g.archive /\ h.grown = g.grown /\ h.log = g.log /\ h.out = g.out
      /\ Digest(h) = Digest(g)
  BY <1>1 DEF Typed, Whole, Fields, Digest
<1>3. spent' \in [Keys -> Nat] /\ spent'.jobs = spent.jobs /\ spent'.edits = spent.edits
  BY SpendType DEF Reserve, Keys
<1>4. live' = {h} /\ disk' = {h}
  BY DEF Reserve, Publish
<1> QED
  BY <1>2, <1>3, <1>4

LEMMA SettledType ==
    ASSUME NEW g, Typed(g), NEW id
    PROVE  LET h == Settled(g, id)
           IN  /\ Typed(h) /\ h.phase = g.phase /\ h.queued = g.queued /\ h.job = g.job
               /\ h.archive = g.archive /\ h.log = g.log /\ h.out = g.out
<1> DEFINE new == g.grown \cup Rolls(g)
           receipts == g.receipts \cup {[id |-> id, round |-> g.round, changes |-> Rolls(g)]}
<1>1. Settled(g, id) = [g EXCEPT !.pending = {}, !.grown = new, !.receipts = receipts]
  BY DEF Settled
<1> HIDE DEF new, receipts
<1> QED
  BY <1>1, MarksOf DEF Typed, Whole, Fields

LEMMA IntermissionFinale ==
    ASSUME FinaleInv, NEW id \in Intermissions, Intermission(id)
    PROVE  FinaleInv' /\ Kept
<1> USE DEF tasks, carry, ghosts, aggregate
<1>1. PICK g \in live : /\ Writable(g)
                        /\ \/ Reserve(g) /\ UNCHANGED rolled
                           \/ Ready(g) /\ Settling(g, Settled(g, id)) /\ UNCHANGED spent
  BY DEF Intermission, MayIntermit
<1>2. g.job = {} /\ g.archive = {} /\ g.phase # "ended" /\ Typed(g)
  BY <1>1, Unfrozen
<1>3. UNCHANGED <<telling, screen, confirmed>> /\ telling \in BOOLEAN /\ spent \in [Keys -> Nat]
  BY DEF Intermission, FinaleInv
<1>4. CASE Reserve(g)
  <2> DEFINE h == [g EXCEPT !.entropy = {spent.seeds + 1}]
  <2>1. /\ live' = {h} /\ disk' = {h} /\ Typed(h) /\ h.phase = g.phase /\ h.job = g.job
        /\ h.archive = g.archive /\ h.out = g.out
        /\ spent' \in [Keys -> Nat] /\ spent'.jobs = spent.jobs /\ spent'.edits = spent.edits
    BY <1>4, ReserveType
  <2> HIDE DEF h
  <2> QED
    BY <1>2, <1>3, <2>1, PlayStep
<1>5. CASE Settling(g, Settled(g, id)) /\ UNCHANGED spent
  <2>1. CASE UNCHANGED aggregate
    BY <1>3, <1>5, <2>1, OtherStep
  <2>2. CASE Publish(Settled(g, id))
    BY <1>2, <1>3, <1>5, <2>2, SettledType, PlayStep DEF Publish
  <2> QED
    BY <1>5, <2>1, <2>2 DEF Settling
<1> QED
  BY <1>1, <1>4, <1>5

LEMMA PrepareFinale == FinaleInv /\ Prepare => FinaleInv' /\ Kept
<1> SUFFICES ASSUME FinaleInv, Prepare PROVE FinaleInv' /\ Kept
  OBVIOUS
<1> USE DEF tasks, carry, ghosts, aggregate
<1>1. PICK g \in live :
        /\ Administrative(g) /\ AtBoundary(g)
        /\ Publish([g EXCEPT !.job = {[id |-> spent.jobs + 1, revision |-> 0, text |-> 0,
                                       source |-> Public(g.log), digest |-> Digest(g)]}])
  BY DEF Prepare
<1>11. PICK job : job = [id |-> spent.jobs + 1, revision |-> 0, text |-> 0,
                         source |-> Public(g.log), digest |-> Digest(g)]
  OBVIOUS
<1>12. PICK h : h = [g EXCEPT !.job = {job}]
  OBVIOUS
<1>2. Typed(g) /\ Stages(g) /\ spent \in [Keys -> Nat]
  BY DEF FinaleInv, AggregateOK
<1>3. /\ spent' \in [Keys -> Nat] /\ spent'.jobs = spent.jobs + 1 /\ spent'.edits = spent.edits
      /\ spent.jobs \in Nat /\ spent.edits \in Nat
  BY <1>2, SpendType DEF Prepare, Keys
<1>4. /\ WholeJob(job) /\ job.id = spent.jobs + 1 /\ job.revision = 0 /\ job.text = 0
      /\ job.source = Public(g.log) /\ job.digest = Digest(g)
  BY <1>11 DEF WholeJob, JobFields
<1>5. live' = {h} /\ disk' = {h} /\ UNCHANGED <<telling, screen, confirmed>> /\ telling = FALSE
  BY <1>1, <1>11, <1>12 DEF Publish, Prepare, Administrative, FinaleInv
<1>6. /\ Typed(h) /\ h.phase = g.phase /\ h.queued = g.queued /\ h.job = {job}
      /\ h.archive = g.archive /\ h.out = g.out /\ Digest(h) = Digest(g) /\ Digest(g).log = g.log
  BY <1>2, <1>12 DEF Typed, Whole, Fields, One, Digest
<1>7. g.archive = {} /\ g.phase \in {"action", "paused"} /\ ~g.queued
  BY <1>1, <1>2 DEF Stages, Administrative, AtBoundary
<1>8. JobOK(h, job)'
  BY <1>3, <1>4, <1>6 DEF JobOK
<1>9. AggregateOK(h)'
  BY <1>6, <1>7, <1>8 DEF AggregateOK, Stages, ArchiveOK
<1>10. \A w \in Windows : \A s \in screen'[w] : ScreenOK(s)'
  BY <1>3, <1>4, <1>5, <1>6 DEF FinaleInv, ScreenOK
<1>13. Kept
  BY <1>5, <1>6 DEF FinaleInv, Twins, One, Kept, ArchivesKept, OutsKept, RunsOn
<1> QED
  BY <1>3, <1>5, <1>9, <1>10, <1>13 DEF FinaleInv, Twins, One

LEMMA LookFinale ==
    ASSUME FinaleInv, NEW w \in Windows, Look(w)
    PROVE  FinaleInv' /\ Kept
<1> USE DEF tasks, carry, ghosts, aggregate
<1>1. PICK g \in live : \E job \in g.job :
         screen' = [screen EXCEPT ![w] = {[id |-> job.id, revision |-> job.revision,
                                           text |-> job.text]}]
  BY DEF Look
<1>2. PICK job \in g.job :
         screen' = [screen EXCEPT ![w] = {[id |-> job.id, revision |-> job.revision,
                                           text |-> job.text]}]
  BY <1>1
<1> DEFINE s == [id |-> job.id, revision |-> job.revision, text |-> job.text]
<1>3. UNCHANGED <<live, disk, telling, confirmed, spent>>
  BY DEF Look
<1>4. /\ s.id = job.id /\ s.revision = job.revision /\ s.text = job.text
      /\ screen' = [screen EXCEPT ![w] = {s}]
  BY <1>2
<1>5. JobOK(g, job) /\ One(g.job) /\ spent \in [Keys -> Nat]
  BY DEF FinaleInv, AggregateOK, Typed
<1>6. s \in Shown
  BY <1>5 DEF Shown, JobOK, Keys
<1> HIDE DEF s
<1>7. \A x \in live \cup disk : x.job = g.job
  BY DEF FinaleInv, Twins, One
<1>8. ScreenOK(s)'
  BY <1>3, <1>4, <1>5, <1>7 DEF ScreenOK, JobOK, One
<1>9. \A v \in Windows : \A x \in screen'[v] : ScreenOK(x)'
  BY <1>3, <1>4, <1>8 DEF FinaleInv, ScreenOK
<1>10. screen' \in [Windows -> SUBSET Shown]
  BY <1>4, <1>6 DEF FinaleInv
<1>11. Kept
  BY <1>3 DEF FinaleInv, Twins, One, Kept, ArchivesKept, OutsKept, RunsOn
<1> QED
  BY <1>3, <1>9, <1>10, <1>11 DEF FinaleInv, AggregateOK, JobOK, ArchiveOK, Twins

LEMMA MaterialsFinale ==
    ASSUME FinaleInv, NEW w \in Windows, Materials(w)
    PROVE  FinaleInv' /\ Kept
<1> USE DEF tasks, carry, ghosts, aggregate
<1>1. PICK g \in live : \E job \in g.job :
        LET next == [job EXCEPT !.revision = @ + 1, !.text = spent.edits + 1]
        IN  /\ Administrative(g) /\ Publish([g EXCEPT !.job = {next}])
            /\ screen' = [screen EXCEPT ![w] = {[id |-> next.id, revision |-> next.revision,
                                                 text |-> next.text]}]
  BY DEF Materials
<1>2. PICK job \in g.job :
        LET next == [job EXCEPT !.revision = @ + 1, !.text = spent.edits + 1]
        IN  /\ Administrative(g) /\ Publish([g EXCEPT !.job = {next}])
            /\ screen' = [screen EXCEPT ![w] = {[id |-> next.id, revision |-> next.revision,
                                                 text |-> next.text]}]
  BY <1>1
<1>17. PICK next : next = [job EXCEPT !.revision = @ + 1, !.text = spent.edits + 1]
  OBVIOUS
<1>18. PICK s : s = [id |-> next.id, revision |-> next.revision, text |-> next.text]
  OBVIOUS
<1>19. PICK h : h = [g EXCEPT !.job = {next}]
  OBVIOUS
<1>3. /\ Typed(g) /\ Stages(g) /\ JobOK(g, job) /\ One(g.job) /\ spent \in [Keys -> Nat]
      /\ screen \in [Windows -> SUBSET Shown]
  BY DEF FinaleInv, AggregateOK, Typed
<1>4. /\ spent' \in [Keys -> Nat] /\ spent'.jobs = spent.jobs /\ spent'.edits = spent.edits + 1
      /\ spent.jobs \in Nat /\ spent.edits \in Nat
  BY <1>3, SpendType DEF Materials, Keys
<1>5. /\ live' = {h} /\ disk' = {h} /\ UNCHANGED <<telling, confirmed>> /\ telling = FALSE
      /\ screen' = [screen EXCEPT ![w] = {s}]
  BY <1>2, <1>17, <1>18, <1>19 DEF Publish, Materials, Administrative, FinaleInv
<1>6. /\ WholeJob(next) /\ next.id = job.id /\ next.revision = job.revision + 1
      /\ next.text = spent.edits + 1 /\ next.source = job.source /\ next.digest = job.digest
  BY <1>3, <1>17 DEF WholeJob, JobFields, JobOK
<1>7. s.id = next.id /\ s.revision = next.revision /\ s.text = next.text
  BY <1>18
<1>8. s \in Shown
  BY <1>3, <1>4, <1>6, <1>18 DEF Shown, JobOK
<1>9. /\ Typed(h) /\ h.phase = g.phase /\ h.queued = g.queued /\ h.job = {next}
      /\ h.archive = g.archive /\ h.out = g.out /\ Digest(h) = Digest(g)
  BY <1>3, <1>19 DEF Typed, Whole, Fields, One, Digest
<1>10. g.archive = {} /\ g.phase \in {"action", "paused"} /\ ~g.queued
  BY <1>3 DEF Stages
<1>11. JobOK(h, next)'
  BY <1>3, <1>4, <1>6, <1>9 DEF JobOK
<1>12. AggregateOK(h)'
  BY <1>9, <1>10, <1>11 DEF AggregateOK, Stages, ArchiveOK
<1>13. ScreenOK(s)'
  BY <1>4, <1>5, <1>7, <1>9, <1>11 DEF ScreenOK, JobOK
<1>14. ASSUME NEW v \in Windows, NEW x \in screen[v] PROVE ScreenOK(x)'
  <2>1. /\ x.id \in 1..spent.jobs /\ x.text \in 0..spent.edits /\ x.revision \in Nat
        /\ x.id = job.id => x.revision <= job.revision
    BY <1>3, <1>14 DEF FinaleInv, ScreenOK, Shown
  <2> QED
    BY <1>3, <1>4, <1>5, <1>6, <1>9, <2>1 DEF ScreenOK, JobOK
<1>15. \A v \in Windows : \A x \in screen'[v] : ScreenOK(x)'
  BY <1>3, <1>5, <1>13, <1>14
<1>16. screen' \in [Windows -> SUBSET Shown]
  BY <1>3, <1>5, <1>8
<1>20. Kept
  BY <1>5, <1>9 DEF FinaleInv, Twins, One, Kept, ArchivesKept, OutsKept, RunsOn
<1> QED
  BY <1>4, <1>5, <1>12, <1>15, <1>16, <1>20 DEF FinaleInv, Twins, One

LEMMA CancelFinale == FinaleInv /\ Cancel => FinaleInv' /\ Kept
<1> SUFFICES ASSUME FinaleInv, Cancel PROVE FinaleInv' /\ Kept
  OBVIOUS
<1> USE DEF tasks, carry, ghosts, aggregate
<1>1. PICK g \in live : Administrative(g) /\ Publish([g EXCEPT !.job = {}])
  BY DEF Cancel
<1> DEFINE h == [g EXCEPT !.job = {}]
<1>2. Typed(g) /\ Stages(g)
  BY DEF FinaleInv, AggregateOK
<1>3. /\ Typed(h) /\ h.phase = g.phase /\ h.job = {} /\ h.archive = g.archive /\ h.out = g.out
  BY <1>2 DEF Typed, Whole, Fields, One
<1>4. /\ live' = {h} /\ disk' = {h} /\ telling = FALSE
      /\ UNCHANGED <<telling, screen, confirmed, spent>>
  BY <1>1 DEF Publish, Cancel, Administrative, FinaleInv
<1> HIDE DEF h
<1>5. g.archive = {}
  BY <1>1, <1>2 DEF Stages, Administrative
<1>6. AggregateOK(h)'
  BY <1>2, <1>3, <1>5 DEF AggregateOK, Stages, ArchiveOK
<1>7. Kept
  BY <1>3, <1>4 DEF FinaleInv, Twins, One, Kept, ArchivesKept, OutsKept, RunsOn
<1> QED
  BY <1>3, <1>4, <1>6, <1>7 DEF FinaleInv, Twins, One, ScreenOK

LEMMA CommitFinaleFinale ==
    ASSUME FinaleInv, NEW w \in Windows, CommitFinale(w)
    PROVE  FinaleInv' /\ Kept
<1> USE DEF tasks, carry, ghosts, aggregate
<1>1. PICK g \in live : \E job \in g.job :
          /\ Administrative(g) /\ Unchanged(g, job) /\ Reviewed(w, job)
          /\ \/ Reserve(g) /\ UNCHANGED ghosts
             \/ /\ UNCHANGED spent /\ Settling(g, Ended(g, job))
                /\ confirmed' = IF live' = live THEN confirmed ELSE screen[w]
  BY DEF CommitFinale
<1>2. PICK job \in g.job :
          /\ Administrative(g) /\ Unchanged(g, job) /\ Reviewed(w, job)
          /\ \/ Reserve(g) /\ UNCHANGED ghosts
             \/ /\ UNCHANGED spent /\ Settling(g, Ended(g, job))
                /\ confirmed' = IF live' = live THEN confirmed ELSE screen[w]
  BY <1>1
<1>3. /\ Typed(g) /\ Stages(g) /\ JobOK(g, job) /\ spent \in [Keys -> Nat]
      /\ One(live) /\ telling \in BOOLEAN
  BY DEF FinaleInv, AggregateOK, Twins
<1>4. UNCHANGED <<telling, screen>>
  BY DEF CommitFinale
<1>5. CASE Reserve(g) /\ UNCHANGED ghosts
  <2> DEFINE h == [g EXCEPT !.entropy = {spent.seeds + 1}]
  <2>1. /\ live' = {h} /\ disk' = {h}
        /\ Typed(h) /\ h.phase = g.phase /\ h.queued = g.queued /\ h.job = g.job
        /\ h.archive = g.archive /\ h.grown = g.grown /\ h.log = g.log
        /\ h.out = g.out /\ Digest(h) = Digest(g)
        /\ spent' \in [Keys -> Nat] /\ spent'.jobs = spent.jobs /\ spent'.edits = spent.edits
    BY <1>5, ReserveType
  <2> HIDE DEF h
  <2> QED
    BY <1>4, <1>5, <2>1, RewriteStep DEF Kept
<1>6. CASE UNCHANGED aggregate /\ UNCHANGED spent /\ confirmed' = confirmed
  BY <1>3, <1>4, <1>6, OtherStep
<1>7. CASE /\ Publish(Ended(g, job)) /\ UNCHANGED spent
           /\ confirmed' = IF live' = live THEN confirmed ELSE screen[w]
  <2> DEFINE done == Settled(g, job.id)
             a == [id |-> job.id, text |-> job.text, source |-> job.source, grown |-> done.grown]
             h == [done EXCEPT !.phase = "ended", !.job = {}, !.archive = {a}]
  <2>1. /\ Typed(done) /\ done.log = g.log /\ done.out = g.out
    BY <1>3, SettledType
  <2>2. a.id = job.id /\ a.text = job.text /\ a.source = job.source /\ a.grown = done.grown
    OBVIOUS
  <2>3. h = Ended(g, job)
    BY DEF Ended
  <2> HIDE DEF done, a
  <2>4. /\ Typed(h) /\ h.phase = "ended" /\ h.job = {} /\ h.archive = {a} /\ h.log = g.log
        /\ h.grown = done.grown /\ h.out = g.out
    BY <2>1 DEF Typed, Whole, Fields, Phases, One
  <2> HIDE DEF h
  <2>5. live' = {h} /\ disk' = {h}
    BY <1>7, <2>3 DEF Publish
  <2>6. confirmed' = screen[w]
    <3>1. g.archive = {}
      BY <1>2, <1>3 DEF Stages, Administrative
    <3> QED
      BY <1>7, <2>4, <2>5, <3>1
  <2>7. PICK s \in screen[w] : s.id = job.id /\ s.revision = job.revision
    BY <1>2 DEF Reviewed
  <2>8. s.text = job.text
    BY <2>7 DEF FinaleInv, ScreenOK
  <2>9. a.source = Public(h.log)
    <3>1. job.digest.log = g.log
      BY <1>2, <1>3 DEF Unchanged, Digest, Typed, Whole, Fields
    <3> QED
      BY <1>3, <2>2, <2>4, <3>1 DEF JobOK
  <2>10. AggregateOK(h)'
    BY <2>2, <2>4, <2>6, <2>7, <2>8, <2>9 DEF AggregateOK, Stages, ArchiveOK
  <2>11. telling' = FALSE
    BY <1>2, <1>3, <1>4 DEF Administrative
  <2>12. Kept
    <3>1. g.archive = {}
      BY <1>2, <1>3 DEF Stages, Administrative
    <3> QED
      BY <2>4, <2>5, <3>1 DEF FinaleInv, Twins, One, Kept, ArchivesKept, OutsKept, RunsOn
  <2> QED
    BY <1>3, <1>4, <1>7, <2>4, <2>5, <2>10, <2>11, <2>12 DEF FinaleInv, Twins, One, ScreenOK
<1> QED
  BY <1>2, <1>5, <1>6, <1>7 DEF Settling

----------------------------------------------------------------------------
(***************************************************************************)
(* Carries, crashes, and all steps together.                               *)
(***************************************************************************)

LEMMA NotedType ==
    ASSUME NEW g, Typed(g), NEW out \in [Deliveries -> {"none", "pending", "delivered"}],
           NEW h, h = [g EXCEPT !.out = out]
    PROVE  /\ Typed(h) /\ h.phase = g.phase /\ h.queued = g.queued /\ h.job = g.job
           /\ h.archive = g.archive /\ h.grown = g.grown /\ h.log = g.log /\ h.out = out
           /\ Digest(h) = Digest(g)
BY DEF Typed, Whole, Fields, Digest

LEMMA CarryFinale == FinaleInv /\ Carry => FinaleInv' /\ ArchivesKept /\ RunsOn
<1> SUFFICES ASSUME FinaleInv, Carry PROVE FinaleInv' /\ ArchivesKept /\ RunsOn
  OBVIOUS
<1> USE DEF tasks, carry, ghosts, aggregate
<1>0. spent \in [Keys -> Nat]
  BY DEF FinaleInv
<1>1. ASSUME CarryFails PROVE FinaleInv' /\ ArchivesKept /\ RunsOn
  <2>1. spent' \in [Keys -> Nat] /\ spent'.jobs = spent.jobs /\ spent'.edits = spent.edits
    BY <1>1, SpendType DEF CarryFails, Mishap, Keys
  <2> QED
    BY <1>1, <2>1, OtherStep DEF CarryFails, Kept
<1>2. ASSUME NEW d \in Deliveries, CarryBegin(d) \/ CarryRecord(d)
      PROVE  FinaleInv' /\ ArchivesKept /\ RunsOn
  <2>1. PICK g \in live, step \in {"pending", "delivered"} :
          Publish([g EXCEPT !.out[d] = step])
    BY <1>2 DEF CarryBegin, CarryRecord
  <2>6. PICK out : out = [g.out EXCEPT ![d] = step]
    OBVIOUS
  <2>2. PICK h : h = [g EXCEPT !.out = out]
    OBVIOUS
  <2>3. Typed(g) /\ out \in [Deliveries -> {"none", "pending", "delivered"}]
    BY <2>6 DEF FinaleInv, AggregateOK, Typed
  <2>4. /\ Typed(h) /\ h.phase = g.phase /\ h.queued = g.queued /\ h.job = g.job
        /\ h.archive = g.archive /\ h.grown = g.grown /\ h.log = g.log
        /\ Digest(h) = Digest(g)
    BY <2>2, <2>3, NotedType
  <2>5. live' = {h} /\ disk' = {h} /\ UNCHANGED <<screen, confirmed, telling, spent>>
    BY <1>2, <2>1, <2>2, <2>6 DEF Publish, CarryBegin, CarryRecord
  <2> QED
    BY <1>0, <2>4, <2>5, RewriteStep
<1>3. ASSUME NEW d \in Deliveries,
             CarryCreate(d) \/ CarryRegister(d) \/ PlayCarried(d) \/ RestartCarried(d)
      PROVE  FinaleInv' /\ ArchivesKept /\ RunsOn
  <2>1. UNCHANGED <<live, disk, screen, confirmed, telling, spent>>
    BY <1>3 DEF CarryCreate, CarryRegister, PlayCarried, RestartCarried
  <2> QED
    BY <1>0, <2>1, OtherStep DEF Kept
<1> QED
  BY <1>1, <1>2, <1>3 DEF Carry

\* What a crash leaves is on the disk, where nothing is frozen that is not.
LEMMA CrashFinale == FinaleInv /\ Crash => FinaleInv' /\ ArchivesKept /\ OutsKept
<1> SUFFICES ASSUME FinaleInv, Crash PROVE FinaleInv' /\ ArchivesKept /\ OutsKept
  OBVIOUS
<1>1. /\ live' = {} /\ telling' = FALSE /\ UNCHANGED <<disk, screen, confirmed>>
  BY DEF Crash, ghosts
<1>2. /\ spent' \in [Keys -> Nat] /\ spent'.jobs = spent.jobs /\ spent'.edits = spent.edits
  BY SpendType DEF Crash, Mishap, Keys
<1>3. \A x \in disk : AggregateOK(x)'
  BY <1>1, <1>2 DEF FinaleInv, AggregateOK, JobOK, ArchiveOK
<1>4. \A w \in Windows : \A s \in screen'[w] : ScreenOK(s)'
  BY <1>1, <1>2 DEF FinaleInv, ScreenOK
<1>5. Twins'
  BY <1>1 DEF FinaleInv, Twins, One
<1>6. ArchivesKept /\ OutsKept
  BY <1>1 DEF FinaleInv, Twins, One, Kept, ArchivesKept, OutsKept, RunsOn
<1> QED
  BY <1>1, <1>2, <1>3, <1>4, <1>5, <1>6 DEF FinaleInv

LEMMA LoadFinale == FinaleInv /\ Load => FinaleInv' /\ ArchivesKept /\ OutsKept
<1> SUFFICES ASSUME FinaleInv, Load PROVE FinaleInv' /\ ArchivesKept /\ OutsKept
  OBVIOUS
<1>1. PICK g \in disk : live' = {IF Writable(g) THEN [g EXCEPT !.phase = "paused"] ELSE g}
  BY DEF Load
<1>2. UNCHANGED <<disk, telling, screen, confirmed, spent>> /\ live = {} /\ telling = FALSE
  BY DEF Load, tasks, ghosts, FinaleInv
<1>3. AggregateOK(g) /\ Typed(g) /\ Stages(g)
  BY DEF FinaleInv, AggregateOK
<1>4. PICK h : h = IF Writable(g) THEN [g EXCEPT !.phase = "paused"] ELSE g
  OBVIOUS
<1>5. /\ h.job = g.job /\ h.archive = g.archive /\ h.out = g.out /\ AggregateOK(h)
  <2>1. CASE Writable(g)
    <3>1. /\ Typed(h) /\ h.phase = "paused" /\ h.job = {} /\ h.archive = {}
          /\ g.job = {} /\ g.archive = {} /\ h.out = g.out
      BY <1>3, <1>4, <2>1 DEF Typed, Whole, Fields, Phases, Writable
    <3> QED
      BY <3>1 DEF AggregateOK, Stages, ArchiveOK
  <2>2. CASE ~Writable(g)
    BY <1>3, <1>4, <2>2
  <2> QED
    BY <2>1, <2>2
<1>6. live' = {h}
  BY <1>1, <1>4
<1>7. AggregateOK(h)'
  BY <1>2, <1>5 DEF AggregateOK, JobOK, ArchiveOK
<1>8. \A x \in disk : AggregateOK(x)' /\ h.job = x.job /\ h.archive = x.archive /\ h.out = x.out
  BY <1>2, <1>5 DEF FinaleInv, Twins, One, AggregateOK, JobOK, ArchiveOK
<1>9. \A w \in Windows : \A s \in screen'[w] : ScreenOK(s)'
  BY <1>2, <1>5, <1>6 DEF FinaleInv, ScreenOK
<1>10. ArchivesKept /\ OutsKept
  BY <1>2, <1>5, <1>6 DEF FinaleInv, Twins, One, Kept, ArchivesKept, OutsKept, RunsOn
<1> QED
  BY <1>2, <1>6, <1>7, <1>8, <1>9, <1>10 DEF FinaleInv, Twins, One

LEMMA FinaleStep == FinaleInv /\ Finale => FinaleInv' /\ Kept
BY IntermissionFinale, PrepareFinale, CancelFinale, LookFinale, MaterialsFinale,
   CommitFinaleFinale DEF Finale

LEMMA StutterFinale == FinaleInv /\ UNCHANGED vars => FinaleInv' /\ Kept
<1> SUFFICES ASSUME FinaleInv, UNCHANGED vars PROVE FinaleInv' /\ Kept
  OBVIOUS
<1>1. UNCHANGED <<live, disk, screen, confirmed, telling, spent>> /\ spent \in [Keys -> Nat]
  BY DEF vars, aggregate, tasks, ghosts, FinaleInv
<1> QED
  BY <1>1, OtherStep

LEMMA NextFinale ==
    ASSUME FinaleInv, [Next]_vars
    PROVE  FinaleInv' /\ ArchivesKept
<1>1. CASE Finale
  BY <1>1, FinaleStep DEF Kept
<1>2. CASE UNCHANGED vars
  BY <1>2, StutterFinale DEF Kept
<1>3. CASE Play
  BY <1>3, PlayFinale DEF Kept
<1> QED
  BY <1>1, <1>2, <1>3, CarryFinale, CrashFinale, LoadFinale DEF Next

LEMMA FinaleAlways == Spec => []FinaleInv
<1> QED
  BY InitFinale, NextFinale, PTL DEF Spec

\* At any number of windows, rounds, jobs and restarts: a frozen run waits at
\* an action boundary with nothing queued, and only an ended one is archived.
THEOREM FinaleTypes == Spec => []FinaleTypeOK
<1>1. ASSUME FinaleInv PROVE FinaleTypeOK
  <2>1. ASSUME NEW g \in live \cup disk
        PROVE  /\ g.phase \in {"action", "judgment", "paused", "ended"}
               /\ g.round \in 1..MaxRound
               /\ Cardinality(g.pending) <= 1
               /\ g.job # {} => g.phase \in {"action", "paused"} /\ ~g.queued /\ g.archive = {}
               /\ g.phase = "ended" <=> g.archive # {}
    <3>1. Typed(g) /\ Stages(g)
      BY <1>1 DEF FinaleInv, AggregateOK
    <3>2. One(g.pending)
      BY <3>1 DEF Typed, Marks
    <3> QED
      BY <3>1, <3>2, OneCardinality DEF Typed, Stages, Phases
  <2>2. ASSUME NEW w \in Windows, NEW s \in UNION {screen[v] : v \in Windows}
        PROVE  s.id \in 1..spent.jobs /\ s.text \in 0..spent.edits
    BY <1>1 DEF FinaleInv, ScreenOK
  <2> QED
    BY <2>1, <2>2 DEF FinaleTypeOK
<1> QED
  BY <1>1, FinaleAlways, PTL

\* No step but the finale's own writes a frozen run, from its preparation to
\* its end or its cancellation, except for a late scene image.
THEOREM FrozenRunStays == Spec => []FrozenRunStands
<1>1. FinaleInv => FrozenRunStands
  BY DEF FinaleInv, AggregateOK, JobOK, FrozenRunStands
<1> QED
  BY <1>1, FinaleAlways, PTL

\* Whatever other windows, retries and crashes did in between: what is
\* archived is what was shown to the GM who confirmed it.
THEOREM ReviewedMaterials == Spec => []ReviewedIsArchived
<1>1. FinaleInv => ReviewedIsArchived
  BY DEF FinaleInv, AggregateOK, ArchiveOK, ReviewedIsArchived
<1> QED
  BY <1>1, FinaleAlways, PTL


\* An archive the GM has been shown is neither changed nor lost, in memory or
\* on the disk, by any step, a crash or a start among them.
THEOREM ArchiveIsFinal == Spec => ArchiveStands
<1>1. FinaleInv /\ [Next]_vars =>
        [\A g \in live : g.archive # {} =>
            \A next \in live' \cup disk' : next.archive = g.archive]_vars
  BY NextFinale DEF ArchivesKept
<1> QED
  BY <1>1, FinaleAlways, PTL DEF Spec, ArchiveStands

----------------------------------------------------------------------------
(***************************************************************************)
(* Carried games.                                                          *)
(*                                                                         *)
(* While the process runs, the registry knows every game that was played,  *)
(* so an unknown one is at most the one that was noted.                    *)
(***************************************************************************)

Game   == [run : Nat, played : Nat]
Moment == [id : Deliveries, at : {"create", "register", "record"}]

CarryTypes ==
    /\ carried \in [Deliveries -> SUBSET Game] /\ library \in [Deliveries -> SUBSET Game]
    /\ delivering \in SUBSET Moment /\ One(delivering)
    /\ live = {} => delivering = {} /\ carried = NoGames

DeliveryOK(d) ==
    /\ One(library[d])
    /\ \A c \in carried[d], l \in library[d] : l.run = c.run /\ l.played <= c.played
    /\ carried[d] # {} => library[d] # {}
    /\ live # {} /\ carried[d] = {} => library[d] \subseteq {Candidate}
    /\ At(d, "register") => carried[d] = {} /\ library[d] = {Candidate}
    /\ At(d, "record") => carried[d] # {}

CarryInv == CarryTypes /\ \A d \in Deliveries : DeliveryOK(d)

LEMMA CandidateType == Candidate \in Game /\ Candidate.run = 1 /\ Candidate.played = 0
BY DEF Candidate, Game

\* Where the carry is after a step.
LEMMA AtOnly ==
    ASSUME NEW d, NEW a, delivering' = {[id |-> d, at |-> a]}
    PROVE  \A e, b : At(e, b)' <=> e = d /\ b = a
<1> SUFFICES ASSUME NEW e, NEW b PROVE At(e, b)' <=> e = d /\ b = a
  OBVIOUS
<1>1. PICK x : x = [id |-> d, at |-> a]
  OBVIOUS
<1>2. PICK y : y = [id |-> e, at |-> b]
  OBVIOUS
<1>3. x.id = d /\ x.at = a /\ y.id = e /\ y.at = b
  BY <1>1, <1>2
<1>4. At(e, b)' <=> {x} = {y}
  BY <1>1, <1>2 DEF At
<1> QED
  BY <1>1, <1>2, <1>3, <1>4

LEMMA AtNothing ==
    ASSUME delivering' = {}
    PROVE  \A e, b : ~At(e, b)'
BY DEF At

LEMMA InitCarry == Init => CarryInv /\ DeliveredIsDurable
<1> SUFFICES ASSUME Init PROVE CarryInv /\ DeliveredIsDurable
  OBVIOUS
<1>1. /\ delivering = {} /\ carried = NoGames /\ library = NoGames
      /\ live = {NewGame} /\ disk = {NewGame}
  BY DEF Init
<1>2. \A d \in Deliveries : carried[d] = {} /\ library[d] = {}
  BY <1>1 DEF NoGames
<1>3. \A d \in Deliveries : NewGame.out[d] = "none"
  BY DEF NewGame
<1>4. CarryTypes
  BY <1>1 DEF NoGames, CarryTypes, One
<1>5. CarryInv
  BY <1>1, <1>2, <1>4 DEF CarryInv, DeliveryOK, One, At
<1> QED
  BY <1>1, <1>3, <1>5 DEF DeliveredIsDurable

\* A step that leaves the games and the carry alone.
LEMMA IdleCarry ==
    ASSUME CarryInv, DeliveredIsDurable, UNCHANGED carry, Kept
    PROVE  CarryInv' /\ DeliveredIsDurable'
<1>1. CarryInv'
  BY DEF CarryInv, CarryTypes, DeliveryOK, At, carry, Kept, RunsOn
<1>2. DeliveredIsDurable'
  BY DEF DeliveredIsDurable, carry, Kept, OutsKept
<1> QED
  BY <1>1, <1>2

\* A carried game is where it was, or further on.
Further ==
    \A d \in Deliveries : \A c \in library[d] :
       \E next \in library'[d] :
          next.run > c.run \/ (next.run = c.run /\ next.played >= c.played)

LEMMA IdleLibrary ==
    ASSUME CarryInv, UNCHANGED library
    PROVE  Further
BY DEF CarryInv, CarryTypes, Game, Further

\* It is enough to look at the game of the one delivery that is concerned.
LEMMA OneDelivery ==
    ASSUME CarryInv, NEW d \in Deliveries, live # {}, live' # {},
           NEW c \in SUBSET Game, NEW l \in SUBSET Game,
           carried' = [carried EXCEPT ![d] = c], library' = [library EXCEPT ![d] = l],
           delivering' \in SUBSET Moment, One(delivering'),
           \A e \in Deliveries \ {d} :
              /\ At(e, "register")' => At(e, "register")
              /\ At(e, "record")' => At(e, "record"),
           DeliveryOK(d)'
    PROVE  CarryInv'
<1>1. CarryTypes'
  BY DEF CarryInv, CarryTypes
<1>2. ASSUME NEW e \in Deliveries \ {d} PROVE DeliveryOK(e)'
  <2>1. carried'[e] = carried[e] /\ library'[e] = library[e] /\ DeliveryOK(e)
    BY DEF CarryInv, CarryTypes
  <2> QED
    BY <2>1 DEF DeliveryOK
<1> QED
  BY <1>1, <1>2 DEF CarryInv

\* No game disappears, and nothing is noted: what was noted as made stays made.
LEMMA DurableStep ==
    ASSUME CarryInv, DeliveredIsDurable, UNCHANGED aggregate,
           \A d \in Deliveries : library[d] # {} => library'[d] # {}
    PROVE  DeliveredIsDurable'
BY DEF DeliveredIsDurable, aggregate

LEMMA CreateCarry ==
    ASSUME CarryInv, DeliveredIsDurable, NEW d \in Deliveries, CarryCreate(d)
    PROVE  CarryInv' /\ DeliveredIsDurable' /\ Further
<1>1. At(d, "create") /\ UNCHANGED <<live, disk, carried>> /\ live # {}
  BY DEF CarryCreate, aggregate, CarryInv, CarryTypes, At
<1>2. /\ [id |-> d, at |-> "register"] \in Moment /\ [id |-> d, at |-> "record"] \in Moment
  BY DEF Moment
<1>3. CASE carried[d] = {}
  <2>1. /\ library' = [library EXCEPT ![d] = {Candidate}]
        /\ delivering' = {[id |-> d, at |-> "register"]}
    BY <1>3 DEF CarryCreate, Existing, Created
  <2>2. library'[d] = {Candidate} /\ \A e \in Deliveries \ {d} : library'[e] = library[e]
    BY <2>1 DEF CarryInv, CarryTypes
  <2>3. library[d] \subseteq {Candidate}
    BY <1>1, <1>3 DEF CarryInv, DeliveryOK
  <2>4. DeliveryOK(d)'
    <3>1. ~At(d, "record")' /\ carried'[d] = {}
      BY <1>1, <1>3, <2>1, AtOnly
    <3> QED
      BY <1>1, <2>2, <3>1 DEF DeliveryOK, One
  <2>5. carried' = [carried EXCEPT ![d] = carried[d]] /\ carried[d] \in SUBSET Game
    BY <1>1 DEF CarryInv, CarryTypes
  <2>6. \A e \in Deliveries \ {d} : ~At(e, "register")' /\ ~At(e, "record")'
    BY <2>1, AtOnly
  <2>7. CarryInv'
    <3>1. delivering' \in SUBSET Moment /\ One(delivering') /\ {Candidate} \in SUBSET Game
      BY <1>2, <2>1, CandidateType DEF One
    <3> QED
      BY <1>1, <2>1, <2>4, <2>5, <2>6, <3>1, OneDelivery
  <2>8. DeliveredIsDurable'
    BY <1>1, <2>2, DurableStep DEF aggregate
  <2>9. Further
    BY <2>2, <2>3, CandidateType DEF Further, CarryInv, CarryTypes, Game
  <2> QED
    BY <2>7, <2>8, <2>9
<1>4. CASE carried[d] # {}
  <2>1. UNCHANGED library /\ delivering' \in {{[id |-> d, at |-> "record"]}, {}}
    BY <1>4 DEF CarryCreate, Existing
  <2>2. \A e \in Deliveries : ~At(e, "register")' /\ (At(e, "record")' => e = d)
    BY <2>1, AtOnly, AtNothing
  <2>3. CarryInv'
    BY <1>1, <1>2, <1>4, <2>1, <2>2 DEF CarryInv, CarryTypes, DeliveryOK, One, At
  <2>4. DeliveredIsDurable'
    BY <1>1, <2>1, DurableStep DEF aggregate
  <2> QED
    BY <2>1, <2>3, <2>4, IdleLibrary
<1> QED
  BY <1>3, <1>4

LEMMA RegisterCarry ==
    ASSUME CarryInv, DeliveredIsDurable, NEW d \in Deliveries, CarryRegister(d)
    PROVE  CarryInv' /\ DeliveredIsDurable' /\ Further
<1>1. /\ At(d, "register") /\ UNCHANGED <<live, disk, library>> /\ live # {}
      /\ carried' = [carried EXCEPT ![d] = {Candidate}]
      /\ delivering' = {[id |-> d, at |-> "record"]}
  BY DEF CarryRegister, aggregate, CarryInv, CarryTypes, At
<1>2. library[d] = {Candidate} /\ carried'[d] = {Candidate}
  BY <1>1 DEF CarryInv, CarryTypes, DeliveryOK
<1>3. /\ [id |-> d, at |-> "record"] \in Moment
      /\ \A e \in Deliveries : At(e, "record")' => e = d
      /\ \A e \in Deliveries : ~At(e, "register")'
  BY <1>1, AtOnly DEF Moment
<1>4. DeliveryOK(d)'
  BY <1>1, <1>2, <1>3, CandidateType DEF DeliveryOK, One, Game
<1>5. library' = [library EXCEPT ![d] = library[d]] /\ library[d] \in SUBSET Game
  BY <1>1 DEF CarryInv, CarryTypes
<1>6. CarryInv'
  BY <1>1, <1>3, <1>4, <1>5, CandidateType, OneDelivery DEF One
<1>7. DeliveredIsDurable'
  BY <1>1, DurableStep DEF aggregate
<1> QED
  BY <1>1, <1>6, <1>7, IdleLibrary

\* The carry begins, is noted as made, or fails; the games are what they were.
LEMMA NotedCarry ==
    ASSUME FinaleInv, CarryInv, DeliveredIsDurable,
           CarryFails \/ \E d \in Deliveries : CarryBegin(d) \/ CarryRecord(d)
    PROVE  CarryInv' /\ DeliveredIsDurable' /\ Further
<1>1. UNCHANGED <<carried, library>>
  BY DEF CarryFails, CarryBegin, CarryRecord
<1>2. CASE CarryFails
  <2>1. delivering' = {} /\ UNCHANGED <<live, disk>>
    BY <1>2 DEF CarryFails, aggregate
  <2>2. CarryInv'
    BY <1>1, <2>1 DEF CarryInv, CarryTypes, DeliveryOK, One, At
  <2> QED
    BY <1>1, <2>1, <2>2, IdleLibrary, DurableStep DEF aggregate
<1>3. ASSUME NEW d \in Deliveries, CarryBegin(d)
      PROVE  CarryInv' /\ DeliveredIsDurable'
  <2>1. PICK g \in live : Publish([g EXCEPT !.out[d] = "pending"])
    BY <1>3 DEF CarryBegin
  <2>2. delivering' = {[id |-> d, at |-> "create"]} /\ live # {} /\ live' # {}
    BY <1>3, <2>1 DEF CarryBegin, Publish
  <2>3. /\ [id |-> d, at |-> "create"] \in Moment
        /\ \A e \in Deliveries : ~At(e, "register")' /\ ~At(e, "record")'
    BY <2>2, AtOnly DEF Moment
  <2>4. CarryInv'
    BY <1>1, <2>2, <2>3 DEF CarryInv, CarryTypes, DeliveryOK, One
  <2>5. Typed(g)
    BY DEF FinaleInv, AggregateOK
  <2>6. \A x \in live' \cup disk' : x.out = [g.out EXCEPT ![d] = "pending"]
    BY <2>1, <2>5 DEF Publish, Typed, Whole, Fields
  <2>7. DeliveredIsDurable'
    BY <1>1, <2>5, <2>6 DEF DeliveredIsDurable, Typed
  <2> QED
    BY <2>4, <2>7
<1>4. ASSUME NEW d \in Deliveries, CarryRecord(d)
      PROVE  CarryInv' /\ DeliveredIsDurable'
  <2>1. PICK g \in live : Publish([g EXCEPT !.out[d] = "delivered"])
    BY <1>4 DEF CarryRecord
  <2>2. delivering' = {} /\ At(d, "record") /\ live # {} /\ live' # {}
    BY <1>4, <2>1 DEF CarryRecord, Publish
  <2>3. CarryInv'
    BY <1>1, <2>2 DEF CarryInv, CarryTypes, DeliveryOK, One, At
  <2>4. library[d] # {}
    BY <2>2 DEF CarryInv, DeliveryOK
  <2>5. Typed(g)
    BY DEF FinaleInv, AggregateOK
  <2>6. \A x \in live' \cup disk' : x.out = [g.out EXCEPT ![d] = "delivered"]
    BY <2>1, <2>5 DEF Publish, Typed, Whole, Fields
  <2>7. DeliveredIsDurable'
    BY <1>1, <2>4, <2>5, <2>6 DEF DeliveredIsDurable, Typed
  <2> QED
    BY <2>3, <2>7
<1> QED
  BY <1>1, <1>2, <1>3, <1>4, IdleLibrary

LEMMA PlayedCarry ==
    ASSUME CarryInv, DeliveredIsDurable, NEW d \in Deliveries,
           PlayCarried(d) \/ RestartCarried(d)
    PROVE  CarryInv' /\ DeliveredIsDurable' /\ Further
<1>1. UNCHANGED <<live, disk, delivering>>
  BY DEF PlayCarried, RestartCarried, aggregate
<1>2. PICK c \in carried[d] : \E n :
        /\ n \in Game /\ carried' = [carried EXCEPT ![d] = {n}]
        /\ library' \in {library, [library EXCEPT ![d] = {n}]}
        /\ n.run > c.run \/ (n.run = c.run /\ n.played >= c.played)
        /\ library' = library => n.run = c.run
  <2>1. ASSUME PlayCarried(d)
        PROVE  \E c \in carried[d] : \E n :
                 /\ n \in Game /\ carried' = [carried EXCEPT ![d] = {n}]
                 /\ library' \in {library, [library EXCEPT ![d] = {n}]}
                 /\ n.run = c.run /\ n.played >= c.played
    <3>1. PICK c \in carried[d] : \E n :
            /\ c.played = 0 /\ n = [c EXCEPT !.played = 1]
            /\ carried' = [carried EXCEPT ![d] = {n}]
            /\ library' \in {library, [library EXCEPT ![d] = {n}]}
      BY <2>1 DEF PlayCarried
    <3>2. PICK n :
            /\ c.played = 0 /\ n = [c EXCEPT !.played = 1]
            /\ carried' = [carried EXCEPT ![d] = {n}]
            /\ library' \in {library, [library EXCEPT ![d] = {n}]}
      BY <3>1
    <3>3. n \in Game /\ n.run = c.run /\ n.played >= c.played
      BY <3>2 DEF CarryInv, CarryTypes, Game
    <3> QED
      BY <3>2, <3>3
  <2>2. ASSUME RestartCarried(d)
        PROVE  \E c \in carried[d] : \E n :
                 /\ n \in Game /\ carried' = [carried EXCEPT ![d] = {n}]
                 /\ library' = [library EXCEPT ![d] = {n}]
                 /\ n.run > c.run
    <3>1. PICK c \in carried[d] :
            /\ carried' = [carried EXCEPT ![d] = {[run |-> c.run + 1, played |-> 0]}]
            /\ library' = [library EXCEPT ![d] = carried'[d]]
      BY <2>2 DEF RestartCarried
    <3>2. PICK n : n = [run |-> c.run + 1, played |-> 0]
      OBVIOUS
    <3>3. c \in Game
      BY DEF CarryInv, CarryTypes
    <3>4. n \in Game /\ n.run > c.run
      BY <3>2, <3>3 DEF Game
    <3>5. carried'[d] = {n}
      BY <3>1, <3>2 DEF CarryInv, CarryTypes
    <3> QED
      BY <3>1, <3>2, <3>4, <3>5
  <2>3. \A c \in carried[d], n \in Game :
           /\ [library EXCEPT ![d] = {n}] = library => library[d] = {n}
           /\ \A l \in library[d] : l.run = c.run
           /\ n.run \in Nat /\ c.run \in Nat
    BY DEF CarryInv, CarryTypes, DeliveryOK, Game
  <2>4. CASE PlayCarried(d)
    BY <2>1, <2>4
  <2>5. CASE RestartCarried(d)
    BY <2>2, <2>3, <2>5
  <2> QED
    BY <2>4, <2>5
<1>7. PICK n :
        /\ n \in Game /\ carried' = [carried EXCEPT ![d] = {n}]
        /\ library' \in {library, [library EXCEPT ![d] = {n}]}
        /\ n.run > c.run \/ (n.run = c.run /\ n.played >= c.played)
        /\ library' = library => n.run = c.run
  BY <1>2
<1>3. /\ carried'[d] = {n} /\ \A e \in Deliveries \ {d} : library'[e] = library[e]
      /\ library'[d] = library[d] \/ library'[d] = {n}
  BY <1>7 DEF CarryInv, CarryTypes
<1>4. /\ One(library[d]) /\ library[d] # {} /\ c \in Game /\ library[d] \in SUBSET Game
      /\ \A l \in library[d] : l.run = c.run /\ l.played <= c.played
      /\ ~At(d, "register") /\ live # {}
  BY <1>7 DEF CarryInv, CarryTypes, DeliveryOK, NoGames
<1>5. CASE library' = library
  <2>1. DeliveryOK(d)'
    BY <1>1, <1>7, <1>3, <1>4, <1>5 DEF DeliveryOK, At, Game
  <2>2. library' = [library EXCEPT ![d] = library[d]]
    BY <1>5 DEF CarryInv, CarryTypes
  <2>3. CarryInv'
    BY <1>1, <1>7, <1>4, <2>1, <2>2, OneDelivery DEF CarryInv, CarryTypes, At
  <2> QED
    BY <1>1, <1>5, <2>3, IdleLibrary, DurableStep DEF aggregate
<1>6. CASE library' = [library EXCEPT ![d] = {n}]
  <2>1. library'[d] = {n}
    BY <1>6 DEF CarryInv, CarryTypes
  <2>2. DeliveryOK(d)'
    BY <1>1, <1>7, <1>3, <1>4, <2>1 DEF DeliveryOK, At, Game, One
  <2>3. CarryInv'
    <3>1. /\ live' # {} /\ {n} \in SUBSET Game
          /\ delivering' \in SUBSET Moment /\ One(delivering')
          /\ \A e, a : At(e, a)' => At(e, a)
      BY <1>1, <1>4, <1>7 DEF CarryInv, CarryTypes, At
    <3> QED
      BY <1>4, <1>6, <1>7, <2>2, <3>1, OneDelivery
  <2>4. DeliveredIsDurable'
    BY <1>1, <1>3, <1>4, <2>1, DurableStep DEF aggregate
  <2>5. Further
    BY <1>7, <1>3, <1>4, <2>1 DEF Further, CarryInv, CarryTypes, Game
  <2> QED
    BY <2>3, <2>4, <2>5
<1> QED
  BY <1>7, <1>5, <1>6

\* After a start the registry is what the disks hold.
LEMMA RestartedCarry ==
    ASSUME FinaleInv, CarryInv, DeliveredIsDurable, Crash \/ Load
    PROVE  CarryInv' /\ DeliveredIsDurable' /\ Further
<1>1. library' = library /\ OutsKept
  BY CrashFinale, LoadFinale DEF Crash, Load
<1>2. CASE Crash
  <2>1. live' = {} /\ delivering' = {} /\ carried' = NoGames
    BY <1>2 DEF Crash
  <2>2. \A d \in Deliveries : carried'[d] = {}
    BY <2>1 DEF NoGames
  <2>3. CarryTypes'
    BY <1>1, <2>1 DEF CarryInv, CarryTypes, NoGames, One
  <2>4. CarryInv'
    BY <1>1, <2>1, <2>2, <2>3, AtNothing DEF CarryInv, DeliveryOK
  <2>5. DeliveredIsDurable'
    BY <1>1 DEF DeliveredIsDurable, OutsKept
  <2> QED
    BY <1>1, <2>4, <2>5, IdleLibrary
<1>3. CASE Load
  <2>1. live = {} /\ live' # {} /\ carried' = library /\ delivering' = delivering
    BY <1>3 DEF Load
  <2>4. delivering' = {}
    BY <2>1 DEF CarryInv, CarryTypes
  <2>5. CarryTypes'
    BY <1>1, <2>1, <2>4 DEF CarryInv, CarryTypes, One
  <2>6. ASSUME NEW d \in Deliveries PROVE DeliveryOK(d)'
    <3>1. \A c, l \in library[d] : c = l /\ l.played \in Nat
      BY DEF CarryInv, CarryTypes, DeliveryOK, One, Game
    <3> QED
      BY <1>1, <2>1, <2>4, <3>1, AtNothing DEF DeliveryOK, One
  <2>2. CarryInv'
    BY <2>5, <2>6 DEF CarryInv
  <2>3. DeliveredIsDurable'
    BY <1>1 DEF DeliveredIsDurable, OutsKept
  <2> QED
    BY <1>1, <2>2, <2>3, IdleLibrary
<1> QED
  BY <1>2, <1>3

LEMMA NextCarry ==
    ASSUME FinaleInv, CarryInv, DeliveredIsDurable, [Next]_vars
    PROVE  CarryInv' /\ DeliveredIsDurable' /\ Further
<1>1. CASE Play \/ Finale \/ UNCHANGED vars
  <2>1. Kept
    BY <1>1, PlayFinale, FinaleStep, StutterFinale
  <2>2. UNCHANGED carry
    BY <1>1 DEF vars, Play, Finale, carry, Advance, BeginProcessing, Mark, FinishRound, AbortRound,
       RollbackRound, SwipeRound, Resume, RemoveActors, DrawPicture, DropPicture, Save,
       Intermission, Prepare, Cancel, Look, Materials, CommitFinale
  <2>3. UNCHANGED library
    BY <2>2 DEF carry
  <2> QED
    BY <2>1, <2>2, <2>3, IdleCarry, IdleLibrary
<1>2. CASE Carry
  BY <1>2, CreateCarry, RegisterCarry, NotedCarry, PlayedCarry DEF Carry
<1> QED
  BY <1>1, <1>2, RestartedCarry DEF Next

LEMMA CarryAlways == Spec => [](CarryInv /\ DeliveredIsDurable)
<1> QED
  BY InitCarry, NextCarry, FinaleAlways, PTL DEF Spec

\* A delivery is noted as made only when its game is on the disk, and the game
\* never leaves it.
THEOREM DeliveriesAreDurable == Spec => []DeliveredIsDurable
BY CarryAlways, PTL

\* However often a delivery is asked for, interrupted and retried: the carried
\* game in its save directory never goes back.
THEOREM CarriesKeepProgress == Spec => CarryKeepsProgress
<1>1. FinaleInv /\ CarryInv /\ DeliveredIsDurable /\ [Next]_vars =>
        [\A d \in Deliveries : \A c \in library[d] :
            \E next \in library'[d] :
               next.run > c.run \/ (next.run = c.run /\ next.played >= c.played)]_vars
  BY NextCarry DEF Further
<1> QED
  BY <1>1, FinaleAlways, CarryAlways, PTL DEF Spec, CarryKeepsProgress


----------------------------------------------------------------------------
(***************************************************************************)
(* Growth.  While a round is judged, or begun and not told, its actions    *)
(* are in the queue; so neither an intermission nor a finale settles marks *)
(* that an abort could bring back.  Only a removal of actors empties the   *)
(* queue otherwise (RunFinaleGrowth.cfg shows what it then leads to).      *)
(***************************************************************************)

\* Actors are not removed from a round that is judged, or was begun before the
\* process died.
CarefulSpec ==
    Init /\ [][/\ Next
               /\ RemoveActors => \A g \in live : g.phase # "judgment" /\ g.before = {}]_vars

\* None of the checks S has been settled.
Unsettled(g, S) == \A c \in g.grown : c[1] \notin S

\* Every change of the sheet is in one receipt.  n checks have been marked.
Receipted(g, n) ==
    /\ g.grown = UNION {receipt.changes : receipt \in g.receipts}
    /\ \A r1, r2 \in g.receipts : r1 # r2 => r1.changes \cap r2.changes = {}
    /\ \A c \in g.grown : c[1] \in 1..n
    /\ g.pending \subseteq 1..n /\ Unsettled(g, g.pending)

\* What an abort brings back.
PutAside(g, n) ==
    /\ g.phase = "judgment" \/ g.before # {} => g.queued
    /\ \A b \in g.before : /\ b.receipts = g.receipts /\ b.entropy = g.entropy
                           /\ b.pending \subseteq 1..n /\ Unsettled(g, b.pending)

\* What a rollback or a swipe brings back, where it may be made.
Remembered(g, n) ==
    \A i \in DOMAIN g.log :
        /\ g.log[i].round <= g.round /\ g.log[i].pending \subseteq 1..n
        /\ \A j \in DOMAIN g.log : i < j => g.log[i].round <= g.log[j].round
        /\ MayRewind(g, g.log[i].round) => Unsettled(g, g.log[i].pending)

\* Once a roll was made there is one seed.
Seeded(g, rolls) == One(g.entropy) /\ \A c \in rolls : g.entropy = {c[2]}

GrowthOK(g, n, rolls) ==
    Receipted(g, n) /\ PutAside(g, n) /\ Remembered(g, n) /\ Seeded(g, rolls)

GrowthInv ==
    /\ disk # {} /\ \A g \in live \cup disk : GrowthOK(g, spent.checks, rolled)
    /\ \A g \in live, h \in disk : g.entropy = h.entropy

LEMMA GrowthLater ==
    ASSUME NEW g, NEW n \in Nat, NEW m \in Nat, n <= m, NEW rolls, GrowthOK(g, n, rolls)
    PROVE  GrowthOK(g, m, rolls)
<1>1. \A x \in 1..n : x \in 1..m
  OBVIOUS
<1> QED
  BY <1>1 DEF GrowthOK, Receipted, PutAside, Remembered, Seeded

LEMMA GrowthPlayed ==
    ASSUME FinaleInv, GrowthInv, NEW g \in live, NEW h,
           spent'.checks \in Nat, spent.checks <= spent'.checks,
           GrowthOK(h, spent'.checks, rolled), h.entropy = g.entropy,
           live' = {h}, disk' \in {disk, {h}}, rolled' = rolled
    PROVE  GrowthInv'
<1>1. spent.checks \in Nat
  BY DEF FinaleInv, Keys
<1>2. \A x \in disk : GrowthOK(x, spent'.checks, rolled) /\ x.entropy = g.entropy
  BY <1>1, GrowthLater DEF GrowthInv
<1> QED
  BY <1>2 DEF GrowthInv

LEMMA GrowthPublished ==
    ASSUME NEW h, GrowthOK(h, spent'.checks, rolled'), live' = {h}, disk' = {h}
    PROVE  GrowthInv'
BY DEF GrowthInv

LEMMA GrowthElsewhere ==
    ASSUME FinaleInv, GrowthInv, spent'.checks = spent.checks, rolled' = rolled,
           \/ live' = live /\ disk' = disk
           \/ live' = live /\ disk' = live /\ live # {}
           \/ live' = {} /\ disk' = disk
    PROVE  GrowthInv'
BY DEF GrowthInv, FinaleInv, Twins, One

\* What is no concern of growth.
LEMMA GrowthSame ==
    ASSUME NEW g, NEW h, NEW n, NEW rolls, GrowthOK(g, n, rolls),
           h.grown = g.grown, h.pending = g.pending, h.receipts = g.receipts,
           h.entropy = g.entropy, h.before = g.before, h.round = g.round,
           DOMAIN h.log = DOMAIN g.log,
           \A i \in DOMAIN g.log : /\ h.log[i].round = g.log[i].round
                                   /\ h.log[i].pending = g.log[i].pending,
           h.phase = "judgment" \/ h.before # {} => h.queued
    PROVE  GrowthOK(h, n, rolls)
<1>1. Receipted(h, n) /\ Seeded(h, rolls)
  BY DEF GrowthOK, Receipted, Seeded, Unsettled
<1>2. PutAside(h, n)
  BY DEF GrowthOK, PutAside, Unsettled
<1>3. Remembered(h, n)
  BY DEF GrowthOK, Remembered, Unsettled, MayRewind
<1> QED
  BY <1>1, <1>2, <1>3 DEF GrowthOK

LEMMA InitGrowth == Init => GrowthInv
<1> SUFFICES ASSUME Init PROVE GrowthInv
  OBVIOUS
<1>1. /\ NewGame.phase = "action" /\ NewGame.log = <<>> /\ NewGame.grown = {}
      /\ NewGame.pending = {} /\ NewGame.receipts = {} /\ NewGame.entropy = {}
      /\ NewGame.before = {}
  BY DEF NewGame
<1>2. live = {NewGame} /\ disk = {NewGame} /\ rolled = {}
  BY DEF Init
<1> HIDE DEF NewGame
<1>3. GrowthOK(NewGame, spent.checks, rolled)
  BY <1>1, <1>2 DEF GrowthOK, Receipted, PutAside, Remembered, Seeded, Unsettled, One
<1> QED
  BY <1>2, <1>3 DEF GrowthInv

----------------------------------------------------------------------------
(***************************************************************************)
(* The log and what it remembers.                                          *)
(***************************************************************************)

\* The earlier part of a log, taken back to the round r of an entry behind it.
LEMMA RememberedPrefix ==
    ASSUME NEW g, NEW h, NEW n, Typed(g), Remembered(g, n), NEW m \in 0..Len(g.log),
           DOMAIN h.log = 1..m, h.grown = g.grown, h.receipts = g.receipts,
           \A i \in 1..m : /\ h.log[i].round = g.log[i].round
                           /\ h.log[i].pending = g.log[i].pending
                           /\ g.log[i].round <= h.round
    PROVE  Remembered(h, n)
<1>1. g.log \in Seq(Entry)
  BY DEF Typed
<1>2. \A i \in 1..m : i \in DOMAIN g.log
  BY <1>1
<1> QED
  BY <1>2 DEF Remembered, Unsettled, MayRewind

\* A log in the order of its rounds has those up to one of them at its front.
LEMMA FrontOf ==
    ASSUME NEW log \in Seq(Entry), NEW i \in DOMAIN log,
           \A j, k \in DOMAIN log : j < k => log[j].round <= log[k].round
    PROVE  LET m == Cardinality({j \in DOMAIN log : log[j].round <= log[i].round})
           IN  m \in 0..Len(log) /\ \A j \in 1..m : log[j].round <= log[i].round
<1> DEFINE R == log[i].round
           S == {j \in DOMAIN log : log[j].round <= R}
           m == Cardinality(S)
<1>1. Len(log) \in Nat /\ DOMAIN log = 1..Len(log) /\ \A j \in DOMAIN log : log[j].round \in Nat
  <2>1. \A j \in DOMAIN log : log[j] \in Entry
    OBVIOUS
  <2>2. \A e \in Entry : e.round \in Nat
    BY DEF Entry
  <2> QED
    BY <2>1, <2>2
<1>2. S \in SUBSET (1..Len(log)) /\ i \in S
  BY <1>1
<1>3. IsFiniteSet(1..Len(log)) /\ Cardinality(1..Len(log)) = Len(log)
  BY <1>1, FS_Interval
<1>4. IsFiniteSet(S) /\ m \in Nat /\ m <= Len(log)
  <2> HIDE DEF S
  <2> QED
    BY <1>2, <1>3, FS_Subset, FS_CardinalityType
<1>5. ASSUME NEW j \in 1..m PROVE log[j].round <= R
  <2>1. SUFFICES ASSUME ~(log[j].round <= R) PROVE FALSE
    OBVIOUS
  <2>2. j \in 1..Len(log) /\ j - 1 \in Nat /\ j - 1 < m
    BY <1>4
  <2>3. S \in SUBSET (1..(j - 1))
    <3>1. ASSUME NEW k \in S PROVE k \in 1..(j - 1)
      <4>1. k \in 1..Len(log) /\ log[k].round <= R /\ k # j
        BY <1>1, <2>1
      <4>2. ~(j < k)
        BY <1>1, <2>1, <2>2, <4>1
      <4> QED
        BY <2>2, <4>1, <4>2
    <3> QED
      BY <3>1
  <2>4. IsFiniteSet(1..(j - 1)) /\ Cardinality(1..(j - 1)) = j - 1
    BY <2>2, FS_Interval
  <2> HIDE DEF S
  <2>5. m <= j - 1
    BY <2>3, <2>4, FS_Subset
  <2> QED
    BY <1>4, <2>2, <2>5
<1> QED
  BY <1>4, <1>5

----------------------------------------------------------------------------
(***************************************************************************)
(* The steps of play, for growth.                                          *)
(***************************************************************************)

LEMMA GrowthFacts ==
    ASSUME FinaleInv, GrowthInv, NEW g \in live
    PROVE  /\ GrowthOK(g, spent.checks, rolled) /\ Typed(g)
           /\ spent \in [Keys -> Nat] /\ spent.checks \in Nat
           /\ g.log \in Seq(Entry) /\ Len(g.log) \in Nat /\ DOMAIN g.log = 1..Len(g.log)
           /\ \A i \in DOMAIN g.log : g.log[i] \in Entry
BY DEF FinaleInv, GrowthInv, AggregateOK, Typed, Keys

\* Nothing of the growth changes, and what is queued stays in the queue.
LEMMA OtherPlayGrowth ==
    /\ FinaleInv /\ GrowthInv
    /\ Advance \/ Resume \/ DrawPicture \/ DropPicture \/ Save
       \/ (RemoveActors /\ \A g \in live : g.phase # "judgment" /\ g.before = {})
    => GrowthInv'
<1> SUFFICES ASSUME FinaleInv, GrowthInv,
                    \/ Advance \/ Resume \/ DrawPicture \/ DropPicture \/ Save
                    \/ RemoveActors /\ \A g \in live : g.phase # "judgment" /\ g.before = {}
             PROVE  GrowthInv'
  OBVIOUS
<1> USE DEF tasks, carry, ghosts, aggregate
<1>1. CASE Advance
  <2>1. PICK g \in live : live' = {[g EXCEPT !.phase = "judgment", !.queued = TRUE]}
    BY <1>1 DEF Advance
  <2> DEFINE h == [g EXCEPT !.phase = "judgment", !.queued = TRUE]
  <2>2. GrowthOK(g, spent.checks, rolled) /\ Typed(g) /\ spent.checks \in Nat
    BY GrowthFacts
  <2>3. /\ h.grown = g.grown /\ h.pending = g.pending /\ h.receipts = g.receipts
        /\ h.entropy = g.entropy /\ h.before = g.before /\ h.round = g.round
        /\ h.log = g.log /\ h.queued
    BY <2>2 DEF Typed, Whole, Fields
  <2>4. live' = {h} /\ disk' = disk /\ rolled' = rolled /\ spent' = spent
    BY <1>1, <2>1 DEF Advance
  <2> HIDE DEF h
  <2>5. GrowthOK(h, spent.checks, rolled)
    BY <2>2, <2>3, GrowthSame
  <2> QED
    BY <2>2, <2>3, <2>4, <2>5, GrowthPlayed
<1>2. CASE Resume
  <2>1. PICK g \in live : live' = {[g EXCEPT !.phase = "action", !.queued = TRUE]}
    BY <1>2 DEF Resume
  <2> DEFINE h == [g EXCEPT !.phase = "action", !.queued = TRUE]
  <2>2. GrowthOK(g, spent.checks, rolled) /\ Typed(g) /\ spent.checks \in Nat
    BY GrowthFacts
  <2>3. /\ h.grown = g.grown /\ h.pending = g.pending /\ h.receipts = g.receipts
        /\ h.entropy = g.entropy /\ h.before = g.before /\ h.round = g.round
        /\ h.log = g.log /\ h.queued
    BY <2>2 DEF Typed, Whole, Fields
  <2>4. live' = {h} /\ disk' = disk /\ rolled' = rolled /\ spent' = spent
    BY <1>2, <2>1 DEF Resume
  <2> HIDE DEF h
  <2>5. GrowthOK(h, spent.checks, rolled)
    BY <2>2, <2>3, GrowthSame
  <2> QED
    BY <2>2, <2>3, <2>4, <2>5, GrowthPlayed
<1>3. CASE RemoveActors /\ \A g \in live : g.phase # "judgment" /\ g.before = {}
  <2>1. PICK g \in live : Publish([g EXCEPT !.queued = FALSE])
    BY <1>3 DEF RemoveActors
  <2> DEFINE h == [g EXCEPT !.queued = FALSE]
  <2>2. GrowthOK(g, spent.checks, rolled) /\ Typed(g) /\ spent.checks \in Nat
    BY GrowthFacts
  <2>3. /\ h.grown = g.grown /\ h.pending = g.pending /\ h.receipts = g.receipts
        /\ h.entropy = g.entropy /\ h.before = g.before /\ h.round = g.round
        /\ h.log = g.log /\ h.phase # "judgment" /\ h.before = {}
    BY <1>3, <2>2 DEF Typed, Whole, Fields
  <2>4. /\ live' = {h} /\ disk' = {h} /\ rolled' = rolled
        /\ spent'.checks = spent.checks
    BY <1>3, <2>1, SpendType DEF RemoveActors, Publish, Mishap, Keys
  <2> HIDE DEF h
  <2>5. GrowthOK(h, spent.checks, rolled)
    BY <2>2, <2>3, GrowthSame
  <2> QED
    BY <2>2, <2>3, <2>4, <2>5, GrowthPublished
<1>4. CASE DrawPicture
  <2>1. PICK g \in live : \E i \in DOMAIN g.log : Publish([g EXCEPT !.log[i].pic = TRUE])
    BY <1>4 DEF DrawPicture
  <2>2. PICK i \in DOMAIN g.log : Publish([g EXCEPT !.log[i].pic = TRUE])
    BY <2>1
  <2> DEFINE log == [g.log EXCEPT ![i].pic = TRUE]
             h   == [g EXCEPT !.log = log]
  <2>3. /\ GrowthOK(g, spent.checks, rolled) /\ Typed(g) /\ spent.checks \in Nat
        /\ g.log \in Seq(Entry) /\ \A j \in DOMAIN g.log : g.log[j] \in Entry
    BY GrowthFacts
  <2>4. /\ DOMAIN log = DOMAIN g.log
        /\ \A j \in DOMAIN g.log : /\ log[j].round = g.log[j].round
                                   /\ log[j].pending = g.log[j].pending
    BY <2>3 DEF Entry
  <2>5. live' = {h} /\ disk' = {h} /\ rolled' = rolled /\ spent' = spent
    BY <1>4, <2>2 DEF DrawPicture, Publish
  <2> HIDE DEF log
  <2>6. /\ h.grown = g.grown /\ h.pending = g.pending /\ h.receipts = g.receipts
        /\ h.entropy = g.entropy /\ h.before = g.before /\ h.round = g.round
        /\ h.log = log /\ h.phase = g.phase /\ h.queued = g.queued
    BY <2>3 DEF Typed, Whole, Fields
  <2> HIDE DEF h
  <2>7. h.phase = "judgment" \/ h.before # {} => h.queued
    BY <2>3, <2>6 DEF GrowthOK, PutAside
  <2>8. GrowthOK(h, spent.checks, rolled)
    BY <2>3, <2>4, <2>6, <2>7, GrowthSame
  <2> QED
    BY <2>5, <2>8, GrowthPublished
<1>5. CASE DropPicture
  BY <1>5, GrowthElsewhere DEF DropPicture
<1>6. CASE Save
  BY <1>6, GrowthElsewhere DEF Save
<1> QED
  BY <1>1, <1>2, <1>3, <1>4, <1>5, <1>6

LEMMA BeginProcessingGrowth == FinaleInv /\ GrowthInv /\ BeginProcessing => GrowthInv'
<1> SUFFICES ASSUME FinaleInv, GrowthInv, BeginProcessing PROVE GrowthInv'
  OBVIOUS
<1>1. PICK g \in live : g.phase = "judgment" /\ live' = {[g EXCEPT !.before = {Growth(g)}]}
  BY DEF BeginProcessing
<1> DEFINE h == [g EXCEPT !.before = {Growth(g)}]
<1>2. GrowthOK(g, spent.checks, rolled) /\ Typed(g) /\ spent.checks \in Nat
  BY GrowthFacts
<1>3. /\ h.grown = g.grown /\ h.pending = g.pending /\ h.receipts = g.receipts
      /\ h.entropy = g.entropy /\ h.round = g.round /\ h.phase = g.phase
      /\ h.log = g.log /\ h.queued = g.queued /\ h.before = {Growth(g)}
  BY <1>2 DEF Typed, Whole, Fields
<1>4. live' = {h} /\ disk' = disk /\ rolled' = rolled /\ spent' = spent
  BY <1>1 DEF BeginProcessing, ghosts
<1> HIDE DEF h
<1>5. Receipted(h, spent.checks) /\ Remembered(h, spent.checks) /\ Seeded(h, rolled)
  BY <1>2, <1>3 DEF GrowthOK, Receipted, Remembered, Seeded, Unsettled, MayRewind
<1>6. PutAside(h, spent.checks)
  BY <1>1, <1>2, <1>3 DEF GrowthOK, Receipted, PutAside, Unsettled, Growth
<1>7. GrowthOK(h, spent.checks, rolled)
  BY <1>5, <1>6 DEF GrowthOK
<1> QED
  BY <1>2, <1>3, <1>4, <1>7, GrowthPlayed

LEMMA MarkGrowth == FinaleInv /\ GrowthInv /\ Mark => GrowthInv'
<1> SUFFICES ASSUME FinaleInv, GrowthInv, Mark PROVE GrowthInv'
  OBVIOUS
<1>1. PICK g \in live : live' = {[g EXCEPT !.pending = {spent.checks + 1}]}
  BY DEF Mark
<1> DEFINE n == spent.checks
           h == [g EXCEPT !.pending = {n + 1}]
<1>2. GrowthOK(g, n, rolled) /\ Typed(g) /\ n \in Nat
  BY GrowthFacts
<1>3. /\ h.grown = g.grown /\ h.receipts = g.receipts
      /\ h.entropy = g.entropy /\ h.round = g.round /\ h.phase = g.phase
      /\ h.log = g.log /\ h.queued = g.queued /\ h.before = g.before /\ h.pending = {n + 1}
  BY <1>2 DEF Typed, Whole, Fields
<1>4. live' = {h} /\ disk' = disk /\ rolled' = rolled
  BY <1>1 DEF Mark, ghosts
<1>5. spent'.checks = n + 1
  BY SpendType DEF Mark, Keys
<1> HIDE DEF h, n
<1>6. GrowthOK(g, n + 1, rolled)
  BY <1>2, GrowthLater
<1>7. PutAside(h, n + 1) /\ Remembered(h, n + 1) /\ Seeded(h, rolled)
  BY <1>3, <1>6 DEF GrowthOK, PutAside, Remembered, Seeded, Unsettled, MayRewind
<1>8. Receipted(h, n + 1)
  <2>1. Unsettled(h, {n + 1})
    BY <1>2, <1>3 DEF GrowthOK, Receipted, Unsettled
  <2>2. {n + 1} \subseteq 1..(n + 1)
    BY <1>2
  <2> QED
    BY <1>3, <1>6, <2>1, <2>2 DEF GrowthOK, Receipted
<1>9. GrowthOK(h, n + 1, rolled)
  BY <1>7, <1>8 DEF GrowthOK
<1>10. spent'.checks \in Nat /\ spent.checks <= spent'.checks
  BY <1>2, <1>5 DEF n
<1> QED
  BY <1>3, <1>4, <1>5, <1>9, <1>10, GrowthPlayed

LEMMA FinishRoundGrowth == FinaleInv /\ GrowthInv /\ FinishRound => GrowthInv'
<1> SUFFICES ASSUME FinaleInv, GrowthInv, FinishRound PROVE GrowthInv'
  OBVIOUS
<1>1. PICK g \in live :
        /\ Keep([g EXCEPT !.phase = "action", !.round = @ + 1, !.queued = FALSE,
                          !.log = Append(@, Told(g)), !.before = {}])
        /\ \/ UNCHANGED <<drawing, spent>>
           \/ Spend("pictures", MaxPictures)
  BY DEF FinishRound
<1> DEFINE n    == spent.checks
           told == Told(g)
           log  == Append(g.log, told)
           h    == [g EXCEPT !.phase = "action", !.round = g.round + 1, !.queued = FALSE,
                             !.log = log, !.before = {}]
<1>2. /\ GrowthOK(g, n, rolled) /\ Typed(g) /\ n \in Nat
      /\ g.log \in Seq(Entry) /\ Len(g.log) \in Nat /\ DOMAIN g.log = 1..Len(g.log)
      /\ \A i \in DOMAIN g.log : g.log[i] \in Entry
  BY GrowthFacts
<1>3. live' = {h} /\ disk' \in {disk, {h}} /\ rolled' = rolled
  BY <1>1 DEF Keep, FinishRound, ghosts
<1>4. spent'.checks = n
  BY <1>1, SpendType DEF Keys
<1>5. /\ told.round = g.round /\ told.pending \subseteq 1..n /\ Unsettled(g, told.pending)
  <2>1. CASE g.before = {}
    BY <1>2, <2>1 DEF Told, GrowthOK, Receipted
  <2>2. CASE g.before # {}
    <3>1. PICK b \in g.before : g.before = {b}
      BY <1>2, <2>2 DEF Typed, One
    <3>2. told.pending = b.pending /\ told.round = g.round
      BY <2>2, <3>1 DEF Told
    <3> HIDE DEF told
    <3> QED
      BY <1>2, <3>1, <3>2 DEF GrowthOK, PutAside
  <2> QED
    BY <2>1, <2>2
<1> HIDE DEF told
<1>6. /\ DOMAIN log = 1..(Len(g.log) + 1) /\ log[Len(g.log) + 1] = told
      /\ \A i \in 1..Len(g.log) : log[i] = g.log[i]
  BY <1>2
<1> HIDE DEF log
<1>7. /\ h.grown = g.grown /\ h.receipts = g.receipts /\ h.pending = g.pending
      /\ h.entropy = g.entropy /\ h.round = g.round + 1 /\ h.phase = "action"
      /\ h.log = log /\ h.before = {}
  BY <1>2 DEF Typed, Whole, Fields
<1> HIDE DEF h
<1>8. Receipted(h, n) /\ Seeded(h, rolled) /\ PutAside(h, n)
  BY <1>2, <1>7 DEF GrowthOK, Receipted, Seeded, PutAside, Unsettled
<1>9. Remembered(h, n)
  <2>1. g.round \in Nat /\ \A i \in DOMAIN g.log : g.log[i].round \in Nat
    BY <1>2, BoundsAssumption DEF Typed, Entry
  <2>2. ASSUME NEW i \in 1..(Len(g.log) + 1)
        PROVE  log[i].round \in Nat /\ log[i].round <= g.round /\ log[i].pending \subseteq 1..n
    <3>1. CASE i = Len(g.log) + 1
      <4>1. log[i] = told
        BY <1>6, <3>1
      <4> QED
        BY <1>5, <2>1, <4>1
    <3>2. CASE i # Len(g.log) + 1
      <4>1. i \in DOMAIN g.log /\ log[i] = g.log[i]
        BY <1>2, <1>6, <3>2
      <4>2. g.log[i].round <= g.round /\ g.log[i].pending \subseteq 1..n
        BY <1>2, <4>1 DEF GrowthOK, Remembered
      <4> QED
        BY <2>1, <4>1, <4>2
    <3> QED
      BY <3>1, <3>2
  <2>3. ASSUME NEW i \in 1..(Len(g.log) + 1), NEW j \in 1..(Len(g.log) + 1), i < j
        PROVE  log[i].round <= log[j].round
    <3>1. CASE j = Len(g.log) + 1
      BY <1>5, <1>6, <2>2, <3>1
    <3>2. CASE j # Len(g.log) + 1
      <4>1. i \in 1..Len(g.log) /\ j \in 1..Len(g.log)
        BY <1>2, <2>3, <3>2
      <4> QED
        BY <1>2, <1>6, <2>3, <4>1 DEF GrowthOK, Remembered
    <3> QED
      BY <3>1, <3>2
  <2>4. ASSUME NEW i \in 1..(Len(g.log) + 1), MayRewind(h, log[i].round)
        PROVE  Unsettled(h, log[i].pending)
    <3>1. CASE i = Len(g.log) + 1
      BY <1>5, <1>6, <1>7, <3>1 DEF Unsettled
    <3>2. CASE i # Len(g.log) + 1
      <4>1. i \in 1..Len(g.log) /\ log[i] = g.log[i]
        BY <1>2, <1>6, <3>2
      <4> QED
        BY <1>2, <1>7, <2>4, <4>1 DEF GrowthOK, Remembered, Unsettled, MayRewind
    <3> QED
      BY <3>1, <3>2
  <2> QED
    BY <1>6, <1>7, <2>1, <2>2, <2>3, <2>4 DEF Remembered
<1>10. GrowthOK(h, n, rolled)
  BY <1>8, <1>9 DEF GrowthOK
<1> HIDE DEF n
<1>11. spent'.checks \in Nat /\ spent.checks <= spent'.checks
  BY <1>2, <1>4 DEF n
<1> QED
  BY <1>3, <1>4, <1>7, <1>10, <1>11, GrowthPlayed

LEMMA AbortRoundGrowth == FinaleInv /\ GrowthInv /\ AbortRound => GrowthInv'
<1> SUFFICES ASSUME FinaleInv, GrowthInv, AbortRound PROVE GrowthInv'
  OBVIOUS
<1>1. PICK g \in live : Keep(IF g.phase = "judgment" THEN Aborted(g) ELSE g)
  BY DEF AbortRound
<1> DEFINE n == spent.checks
           h == IF g.phase = "judgment" THEN Aborted(g) ELSE g
<1>2. GrowthOK(g, n, rolled) /\ Typed(g) /\ n \in Nat
  BY GrowthFacts
<1>3. live' = {h} /\ disk' \in {disk, {h}} /\ rolled' = rolled
  BY <1>1 DEF Keep, AbortRound, ghosts
<1>4. spent'.checks = n
  BY SpendType DEF AbortRound, Mishap, Keys
<1>5. GrowthOK(h, n, rolled) /\ h.entropy = g.entropy
  <2>1. CASE g.phase # "judgment"
    BY <1>2, <2>1
  <2>2. CASE g.phase = "judgment" /\ g.before = {}
    <3>1. h = [g EXCEPT !.phase = "action"]
      BY <2>2 DEF Aborted
    <3> HIDE DEF h
    <3>2. /\ h.grown = g.grown /\ h.pending = g.pending /\ h.receipts = g.receipts
          /\ h.entropy = g.entropy /\ h.before = g.before /\ h.round = g.round
          /\ h.log = g.log /\ h.phase # "judgment" /\ h.before = {}
      BY <1>2, <2>2, <3>1 DEF Typed, Whole, Fields
    <3> QED
      BY <1>2, <3>2, GrowthSame
  <2>3. CASE g.phase = "judgment" /\ g.before # {}
    <3>1. PICK b \in g.before :
             h = [g EXCEPT !.phase = "action", !.pending = b.pending, !.receipts = b.receipts,
                           !.entropy = b.entropy, !.before = {}]
      BY <2>3 DEF Aborted
    <3>2. /\ b.receipts = g.receipts /\ b.entropy = g.entropy
          /\ b.pending \subseteq 1..n /\ Unsettled(g, b.pending)
      BY <1>2 DEF GrowthOK, PutAside
    <3> HIDE DEF h
    <3>3. /\ h.grown = g.grown /\ h.pending = b.pending /\ h.receipts = g.receipts
          /\ h.entropy = g.entropy /\ h.before = {} /\ h.round = g.round
          /\ h.log = g.log /\ h.phase = "action"
      BY <1>2, <3>1, <3>2 DEF Typed, Whole, Fields
    <3>4. Receipted(h, n) /\ Seeded(h, rolled) /\ PutAside(h, n)
      BY <1>2, <3>2, <3>3 DEF GrowthOK, Receipted, Seeded, PutAside, Unsettled
    <3>5. Remembered(h, n)
      BY <1>2, <3>3 DEF GrowthOK, Remembered, MayRewind, Unsettled
    <3> QED
      BY <3>3, <3>4, <3>5 DEF GrowthOK
  <2> QED
    BY <2>1, <2>2, <2>3
<1> HIDE DEF h
<1>6. spent'.checks \in Nat /\ spent.checks <= spent'.checks
  BY <1>2, <1>4
<1> QED
  BY <1>3, <1>4, <1>5, <1>6, GrowthPlayed

LEMMA RollbackRoundGrowth == FinaleInv /\ GrowthInv /\ RollbackRound => GrowthInv'
<1> SUFFICES ASSUME FinaleInv, GrowthInv, RollbackRound PROVE GrowthInv'
  OBVIOUS
<1>1. PICK g \in live :
        /\ g.log # <<>> /\ MayRewind(g, g.log[Len(g.log)].round)
        /\ Keep([g EXCEPT !.phase = "action", !.round = g.log[Len(g.log)].round,
                          !.queued = FALSE, !.pending = g.log[Len(g.log)].pending,
                          !.before = {}, !.log = SubSeq(g.log, 1, Len(g.log) - 1)])
  BY DEF RollbackRound
<1> DEFINE n    == spent.checks
           last == g.log[Len(g.log)]
           log  == SubSeq(g.log, 1, Len(g.log) - 1)
           h    == [g EXCEPT !.phase = "action", !.round = last.round, !.queued = FALSE,
                             !.pending = last.pending, !.before = {}, !.log = log]
<1>2. /\ GrowthOK(g, n, rolled) /\ Typed(g) /\ n \in Nat
      /\ g.log \in Seq(Entry) /\ Len(g.log) \in Nat /\ DOMAIN g.log = 1..Len(g.log)
  BY GrowthFacts
<1>3. live' = {h} /\ disk' \in {disk, {h}} /\ rolled' = rolled
  BY <1>1 DEF Keep, RollbackRound, ghosts
<1>4. spent'.checks = n
  BY SpendType DEF RollbackRound, Keys
<1>5. Len(g.log) \in DOMAIN g.log /\ Len(g.log) - 1 \in 0..Len(g.log)
  BY <1>1, <1>2
<1>6. /\ last.pending \subseteq 1..n /\ Unsettled(g, last.pending)
      /\ \A i \in 1..(Len(g.log) - 1) : g.log[i].round <= last.round
  BY <1>1, <1>2, <1>5 DEF GrowthOK, Remembered
<1>7. /\ DOMAIN log = 1..(Len(g.log) - 1)
      /\ \A i \in 1..(Len(g.log) - 1) : log[i] = g.log[i]
  BY <1>2, <1>5
<1> HIDE DEF log, last
<1>8. /\ h.grown = g.grown /\ h.receipts = g.receipts /\ h.pending = last.pending
      /\ h.entropy = g.entropy /\ h.round = last.round /\ h.phase = "action"
      /\ h.log = log /\ h.before = {}
  BY <1>2 DEF Typed, Whole, Fields
<1> HIDE DEF h
<1>9. Receipted(h, n) /\ Seeded(h, rolled) /\ PutAside(h, n)
  BY <1>2, <1>6, <1>8 DEF GrowthOK, Receipted, Seeded, PutAside, Unsettled
<1>10. Remembered(h, n)
  <2> HIDE DEF n
  <2>1. Remembered(g, n)
    BY <1>2 DEF GrowthOK
  <2> QED
    BY <1>2, <1>5, <1>6, <1>7, <1>8, <2>1, RememberedPrefix
<1>11. GrowthOK(h, n, rolled)
  BY <1>9, <1>10 DEF GrowthOK
<1>12. spent'.checks \in Nat /\ spent.checks <= spent'.checks
  BY <1>2, <1>4
<1> QED
  BY <1>3, <1>4, <1>8, <1>11, <1>12, GrowthPlayed

LEMMA SwipeRoundGrowth ==
    ASSUME FinaleInv, GrowthInv, NEW i \in Nat, SwipeRound(i)
    PROVE  GrowthInv'
<1>1. PICK g \in live :
        /\ i \in DOMAIN g.log /\ MayRewind(g, g.log[i].round)
        /\ Publish([g EXCEPT !.round = g.log[i].round, !.pending = g.log[i].pending,
                             !.before = {}, !.log = Retold(g.log, i)])
  BY DEF SwipeRound
<1> DEFINE n   == spent.checks
           m   == Cardinality({j \in DOMAIN g.log : g.log[j].round <= g.log[i].round})
           log == Retold(g.log, i)
           h   == [g EXCEPT !.round = g.log[i].round, !.pending = g.log[i].pending,
                            !.before = {}, !.log = log]
<1>2. /\ GrowthOK(g, n, rolled) /\ Typed(g) /\ n \in Nat
      /\ g.log \in Seq(Entry) /\ Len(g.log) \in Nat /\ DOMAIN g.log = 1..Len(g.log)
      /\ \A j \in DOMAIN g.log : g.log[j] \in Entry
  BY GrowthFacts
<1>3. live' = {h} /\ disk' = {h} /\ rolled' = rolled
  BY <1>1 DEF Publish, SwipeRound, ghosts
<1>4. spent'.checks = n
  BY SpendType DEF SwipeRound, Keys
<1>5. g.log[i].pending \subseteq 1..n /\ Unsettled(g, g.log[i].pending)
  BY <1>1, <1>2 DEF GrowthOK, Remembered
<1>6. m \in 0..Len(g.log) /\ \A j \in 1..m : g.log[j].round <= g.log[i].round
  <2>1. \A j, k \in DOMAIN g.log : j < k => g.log[j].round <= g.log[k].round
    BY <1>2 DEF GrowthOK, Remembered
  <2> QED
    BY <1>1, <1>2, <2>1, FrontOf
<1>7. /\ DOMAIN log = 1..m
      /\ \A j \in 1..m : log[j].round = g.log[j].round /\ log[j].pending = g.log[j].pending
  <2> DEFINE s == SubSeq(g.log, 1, m)
  <2>1. log = [s EXCEPT ![i].told = spent.rewinds + 1]
    BY DEF Retold
  <2> HIDE DEF m, log
  <2>2. DOMAIN s = 1..m /\ \A j \in 1..m : s[j] = g.log[j] /\ s[j] \in Entry
    BY <1>2, <1>6
  <2> HIDE DEF s
  <2> QED
    BY <2>1, <2>2 DEF Entry
<1> HIDE DEF log
<1>8. /\ h.grown = g.grown /\ h.receipts = g.receipts /\ h.pending = g.log[i].pending
      /\ h.entropy = g.entropy /\ h.round = g.log[i].round /\ h.phase = g.phase
      /\ h.queued = g.queued /\ h.log = log /\ h.before = {}
  BY <1>2 DEF Typed, Whole, Fields
<1> HIDE DEF h
<1>9. Receipted(h, n) /\ Seeded(h, rolled) /\ PutAside(h, n)
  BY <1>2, <1>5, <1>8 DEF GrowthOK, Receipted, Seeded, PutAside, Unsettled
<1>10. Remembered(h, n)
  <2> HIDE DEF n, m
  <2>1. Remembered(g, n)
    BY <1>2 DEF GrowthOK
  <2> QED
    BY <1>2, <1>6, <1>7, <1>8, <2>1, RememberedPrefix
<1>11. GrowthOK(h, n, rolled)
  BY <1>9, <1>10 DEF GrowthOK
<1> QED
  BY <1>3, <1>4, <1>11, GrowthPublished

LEMMA PlayGrowth ==
    /\ FinaleInv /\ GrowthInv /\ Play
    /\ RemoveActors => \A g \in live : g.phase # "judgment" /\ g.before = {}
    => GrowthInv'
<1>1. ASSUME NEW i \in 1..(MaxRound + MaxRewinds), FinaleInv, GrowthInv, SwipeRound(i)
      PROVE  GrowthInv'
  BY <1>1, SwipeRoundGrowth
<1> QED
  BY <1>1, OtherPlayGrowth, BeginProcessingGrowth, MarkGrowth, FinishRoundGrowth,
     AbortRoundGrowth, RollbackRoundGrowth DEF Play

----------------------------------------------------------------------------
(***************************************************************************)
(* The GM's steps, for growth.  None of them finds a round judged or begun.*)
(***************************************************************************)

AtRest(g) == g.phase # "judgment" /\ g.before = {}

LEMMA Resting ==
    ASSUME NEW g, NEW n, NEW rolls, GrowthOK(g, n, rolls), ~g.queued
    PROVE  AtRest(g)
BY DEF GrowthOK, PutAside, AtRest

\* Something is published that is no concern of growth.
LEMMA GrowthRewritten ==
    ASSUME FinaleInv, GrowthInv, NEW g \in live, NEW h,
           h.grown = g.grown, h.pending = g.pending, h.receipts = g.receipts,
           h.entropy = g.entropy, h.before = g.before, h.round = g.round,
           h.log = g.log, h.phase = g.phase, h.queued = g.queued,
           live' = {h}, disk' = {h}, rolled' = rolled, spent'.checks = spent.checks
    PROVE  GrowthInv'
<1>1. GrowthOK(g, spent.checks, rolled)
  BY GrowthFacts
<1>2. h.phase = "judgment" \/ h.before # {} => h.queued
  BY <1>1 DEF GrowthOK, PutAside
<1>3. GrowthOK(h, spent.checks, rolled)
  BY <1>1, <1>2, GrowthSame
<1> QED
  BY <1>3, GrowthPublished

\* The seed of the rolls is drawn while none has been made.
LEMMA ReserveGrowth ==
    ASSUME FinaleInv, GrowthInv, NEW g \in live, AtRest(g), Reserve(g), rolled' = rolled
    PROVE  GrowthInv'
<1> DEFINE n == spent.checks
           h == [g EXCEPT !.entropy = {spent.seeds + 1}]
<1>1. GrowthOK(g, n, rolled) /\ Typed(g)
  BY GrowthFacts
<1>2. live' = {h} /\ disk' = {h} /\ g.entropy = {}
  BY DEF Reserve, Publish
<1>3. spent'.checks = n
  BY SpendType DEF Reserve, Keys
<1>4. /\ h.grown = g.grown /\ h.pending = g.pending /\ h.receipts = g.receipts
      /\ h.entropy = {spent.seeds + 1} /\ h.before = {} /\ h.round = g.round
      /\ h.log = g.log /\ h.phase # "judgment"
  BY <1>1 DEF Typed, Whole, Fields, AtRest
<1> HIDE DEF h
<1>5. Receipted(h, n) /\ PutAside(h, n)
  BY <1>1, <1>4 DEF GrowthOK, Receipted, PutAside, Unsettled
<1>6. Remembered(h, n)
  BY <1>1, <1>4 DEF GrowthOK, Remembered, Unsettled, MayRewind
<1>7. Seeded(h, rolled)
  BY <1>1, <1>2, <1>4 DEF GrowthOK, Seeded, One
<1>8. GrowthOK(h, n, rolled)
  BY <1>5, <1>6, <1>7 DEF GrowthOK
<1> QED
  BY <1>2, <1>3, <1>8, GrowthPublished

\* Every roll that is made takes the seed that was saved.
LEMMA RollsSeeded ==
    ASSUME NEW g, NEW rolls, Seeded(g, rolls)
    PROVE  Seeded(g, rolls \cup Rolls(g))
BY DEF Seeded, Rolls, Seeds, One

\* Rolls are made, and the save is refused.
LEMMA RefusedGrowth ==
    ASSUME FinaleInv, GrowthInv, NEW g \in live, UNCHANGED <<live, disk, spent>>,
           rolled' = rolled \cup Rolls(g)
    PROVE  GrowthInv'
<1>1. Seeded(g, rolled')
  BY RollsSeeded DEF GrowthInv, GrowthOK
<1>2. \A x \in live \cup disk : x.entropy = g.entropy
  BY DEF FinaleInv, Twins, One, GrowthInv
<1>3. \A x \in live \cup disk : GrowthOK(x, spent.checks, rolled')
  BY <1>1, <1>2 DEF GrowthInv, GrowthOK, Seeded
<1> QED
  BY <1>3 DEF GrowthInv

\* They are made, and what they did is saved with a receipt.  None of the
\* rounds in the log may be told anew after it.
LEMMA SettledGrowth ==
    ASSUME FinaleInv, GrowthInv, NEW g \in live, AtRest(g), NEW id, NEW h,
           h.grown = g.grown \cup Rolls(g), h.pending = {},
           h.receipts = g.receipts \cup {[id |-> id, round |-> g.round, changes |-> Rolls(g)]},
           h.entropy = g.entropy, h.before = g.before, h.round = g.round, h.log = g.log,
           h.phase # "judgment",
           live' = {h}, disk' = {h}, spent'.checks = spent.checks,
           rolled' = rolled \cup Rolls(g)
    PROVE  GrowthInv'
<1> DEFINE n == spent.checks
           new == [id |-> id, round |-> g.round, changes |-> Rolls(g)]
<1>1. /\ GrowthOK(g, n, rolled) /\ Typed(g) /\ DOMAIN g.log = 1..Len(g.log)
      /\ \A i \in DOMAIN g.log : g.log[i] \in Entry
  BY GrowthFacts
<1>2. \A c \in Rolls(g) : c[1] \in g.pending
  BY DEF Rolls
<1>3. new.round = g.round /\ new.changes = Rolls(g) /\ h.receipts = g.receipts \cup {new}
  OBVIOUS
<1> HIDE DEF new
<1>4. \A r \in g.receipts : r.changes \cap new.changes = {}
  <2>1. \A r \in g.receipts : r.changes \subseteq g.grown
    BY <1>1 DEF GrowthOK, Receipted
  <2>2. \A c \in g.grown : c[1] \notin g.pending
    BY <1>1 DEF GrowthOK, Receipted, Unsettled
  <2> QED
    BY <1>2, <1>3, <2>1, <2>2
<1>5. Receipted(h, n)
  <2>1. h.grown = UNION {r.changes : r \in h.receipts}
    BY <1>1, <1>3 DEF GrowthOK, Receipted
  <2>2. \A r1, r2 \in h.receipts : r1 # r2 => r1.changes \cap r2.changes = {}
    BY <1>1, <1>3, <1>4 DEF GrowthOK, Receipted
  <2>3. \A c \in h.grown : c[1] \in 1..n
    BY <1>1, <1>2 DEF GrowthOK, Receipted
  <2> QED
    BY <2>1, <2>2, <2>3 DEF Receipted, Unsettled
<1>6. PutAside(h, n)
  BY DEF PutAside, AtRest
<1>7. Remembered(h, n)
  <2>1. ASSUME NEW i \in DOMAIN g.log PROVE ~MayRewind(h, g.log[i].round)
    <3>1. g.log[i].round <= g.round
      BY <1>1 DEF GrowthOK, Remembered
    <3>2. g.log[i].round \in Nat /\ g.round \in Nat
      <4>1. g.log[i] \in Entry
        BY <1>1
      <4>2. \A e \in Entry : e.round \in Nat
        BY DEF Entry
      <4> QED
        BY <1>1, <4>1, <4>2 DEF Typed
    <3> QED
      BY <1>3, <3>1, <3>2 DEF MayRewind
  <2> QED
    BY <1>1, <2>1 DEF GrowthOK, Remembered
<1>8. Seeded(h, rolled')
  BY <1>1, RollsSeeded DEF GrowthOK, Seeded
<1>9. GrowthOK(h, n, rolled')
  BY <1>5, <1>6, <1>7, <1>8 DEF GrowthOK
<1> QED
  BY <1>9, GrowthPublished

LEMMA IntermissionGrowth ==
    ASSUME FinaleInv, GrowthInv, NEW id \in Intermissions, Intermission(id)
    PROVE  GrowthInv'
<1>1. PICK g \in live :
        /\ AtBoundary(g)
        /\ \/ Reserve(g) /\ UNCHANGED rolled
           \/ Settling(g, Settled(g, id)) /\ UNCHANGED spent
  BY DEF Intermission, MayIntermit
<1>2. GrowthOK(g, spent.checks, rolled) /\ Typed(g)
  BY GrowthFacts
<1>3. AtRest(g)
  BY <1>1, <1>2, Resting DEF AtBoundary
<1>4. CASE Reserve(g) /\ UNCHANGED rolled
  BY <1>3, <1>4, ReserveGrowth
<1>5. CASE UNCHANGED <<live, disk, spent>> /\ rolled' = rolled \cup Rolls(g)
  BY <1>5, RefusedGrowth
<1>6. CASE Publish(Settled(g, id)) /\ UNCHANGED spent /\ rolled' = rolled \cup Rolls(g)
  <2> DEFINE h == Settled(g, id)
  <2>1. /\ h.grown = g.grown \cup Rolls(g) /\ h.pending = {}
        /\ h.receipts = g.receipts \cup {[id |-> id, round |-> g.round, changes |-> Rolls(g)]}
        /\ h.entropy = g.entropy /\ h.before = g.before /\ h.round = g.round
        /\ h.log = g.log /\ h.phase = g.phase
    BY <1>2 DEF Settled, Typed, Whole, Fields
  <2>2. live' = {h} /\ disk' = {h} /\ h.phase # "judgment"
    BY <1>3, <1>6, <2>1 DEF Publish, AtRest
  <2> HIDE DEF h
  <2> QED
    BY <1>3, <1>6, <2>1, <2>2, SettledGrowth
<1> QED
  BY <1>1, <1>4, <1>5, <1>6 DEF Settling, aggregate

LEMMA CommitFinaleGrowth ==
    ASSUME FinaleInv, GrowthInv, NEW w \in Windows, CommitFinale(w)
    PROVE  GrowthInv'
<1>1. PICK g \in live : \E job \in g.job :
        \/ Reserve(g) /\ UNCHANGED rolled
        \/ Settling(g, Ended(g, job)) /\ UNCHANGED spent
  BY DEF CommitFinale, ghosts
<1>2. PICK job \in g.job :
        \/ Reserve(g) /\ UNCHANGED rolled
        \/ Settling(g, Ended(g, job)) /\ UNCHANGED spent
  BY <1>1
<1>3. GrowthOK(g, spent.checks, rolled) /\ Typed(g)
  BY GrowthFacts
<1>4. AtRest(g)
  <2>1. ~g.queued
    BY DEF FinaleInv, AggregateOK, Stages
  <2> QED
    BY <1>3, <2>1, Resting
<1>5. CASE Reserve(g) /\ UNCHANGED rolled
  BY <1>4, <1>5, ReserveGrowth
<1>6. CASE UNCHANGED <<live, disk, spent>> /\ rolled' = rolled \cup Rolls(g)
  BY <1>6, RefusedGrowth
<1>7. CASE Publish(Ended(g, job)) /\ UNCHANGED spent /\ rolled' = rolled \cup Rolls(g)
  <2> DEFINE done == Settled(g, job.id)
             h    == Ended(g, job)
  <2>1. /\ done.grown = g.grown \cup Rolls(g) /\ done.pending = {}
        /\ done.receipts = g.receipts
                           \cup {[id |-> job.id, round |-> g.round, changes |-> Rolls(g)]}
        /\ done.entropy = g.entropy /\ done.before = g.before /\ done.round = g.round
        /\ done.log = g.log /\ Whole(done)
    BY <1>3 DEF Settled, Typed, Whole, Fields
  <2>2. h = [done EXCEPT !.phase = "ended", !.job = {},
                         !.archive = {[id |-> job.id, text |-> job.text,
                                       source |-> job.source, grown |-> done.grown]}]
    BY DEF Ended
  <2>3. live' = {h} /\ disk' = {h}
    BY <1>7 DEF Publish
  <2> HIDE DEF done, h
  <2>4. /\ h.grown = done.grown /\ h.pending = done.pending /\ h.receipts = done.receipts
        /\ h.entropy = done.entropy /\ h.before = done.before /\ h.round = done.round
        /\ h.log = done.log /\ h.phase = "ended"
    BY <2>1, <2>2 DEF Whole, Fields
  <2> QED
    BY <1>4, <1>7, <2>1, <2>3, <2>4, SettledGrowth
<1> QED
  BY <1>2, <1>5, <1>6, <1>7 DEF Settling, aggregate

LEMMA FinaleGrowth == FinaleInv /\ GrowthInv /\ Finale => GrowthInv'
<1> SUFFICES ASSUME FinaleInv, GrowthInv, Finale PROVE GrowthInv'
  OBVIOUS
<1> USE DEF tasks, carry, ghosts, aggregate
<1>1. ASSUME NEW g \in live, NEW job, Publish([g EXCEPT !.job = job]),
             rolled' = rolled, spent'.checks = spent.checks
      PROVE  GrowthInv'
  <2> DEFINE h == [g EXCEPT !.job = job]
  <2>1. Typed(g)
    BY GrowthFacts
  <2>2. /\ h.grown = g.grown /\ h.pending = g.pending /\ h.receipts = g.receipts
        /\ h.entropy = g.entropy /\ h.before = g.before /\ h.round = g.round
        /\ h.log = g.log /\ h.phase = g.phase /\ h.queued = g.queued
    BY <2>1 DEF Typed, Whole, Fields
  <2>3. live' = {h} /\ disk' = {h}
    BY <1>1 DEF Publish
  <2> HIDE DEF h
  <2> QED
    BY <1>1, <2>2, <2>3, GrowthRewritten
<1>2. CASE Prepare
  <2>1. PICK g \in live :
          Publish([g EXCEPT !.job = {[id |-> spent.jobs + 1, revision |-> 0, text |-> 0,
                                      source |-> Public(g.log), digest |-> Digest(g)]}])
    BY <1>2 DEF Prepare
  <2>2. spent'.checks = spent.checks /\ rolled' = rolled
    BY <1>2, SpendType DEF Prepare, Keys
  <2> QED
    BY <1>1, <2>1, <2>2
<1>3. CASE Cancel
  <2>1. PICK g \in live : Publish([g EXCEPT !.job = {}])
    BY <1>3 DEF Cancel
  <2> QED
    BY <1>1, <1>3, <2>1 DEF Cancel
<1>4. ASSUME NEW w \in Windows, Look(w) PROVE GrowthInv'
  BY <1>4, GrowthElsewhere DEF Look
<1>5. ASSUME NEW w \in Windows, Materials(w) PROVE GrowthInv'
  <2>1. PICK g \in live : \E job : Publish([g EXCEPT !.job = {job}])
    BY <1>5 DEF Materials
  <2>2. PICK job : Publish([g EXCEPT !.job = {job}])
    BY <2>1
  <2>3. spent'.checks = spent.checks /\ rolled' = rolled
    BY <1>5, SpendType DEF Materials, Keys
  <2> QED
    BY <1>1, <2>2, <2>3
<1> QED
  BY <1>2, <1>3, <1>4, <1>5, IntermissionGrowth, CommitFinaleGrowth DEF Finale

LEMMA CarryGrowth == FinaleInv /\ GrowthInv /\ Carry => GrowthInv'
<1> SUFFICES ASSUME FinaleInv, GrowthInv, Carry PROVE GrowthInv'
  OBVIOUS
<1> USE DEF tasks, carry, ghosts, aggregate
<1>1. ASSUME CarryFails PROVE GrowthInv'
  <2>1. spent'.checks = spent.checks
    BY <1>1, SpendType DEF CarryFails, Mishap, Keys
  <2> QED
    BY <1>1, <2>1, GrowthElsewhere DEF CarryFails
<1>2. ASSUME NEW d \in Deliveries, CarryBegin(d) \/ CarryRecord(d) PROVE GrowthInv'
  <2>1. PICK g \in live, step \in {"pending", "delivered"} :
          Publish([g EXCEPT !.out[d] = step])
    BY <1>2 DEF CarryBegin, CarryRecord
  <2> DEFINE h == [g EXCEPT !.out[d] = step]
  <2>2. Typed(g)
    BY GrowthFacts
  <2>3. /\ h.grown = g.grown /\ h.pending = g.pending /\ h.receipts = g.receipts
        /\ h.entropy = g.entropy /\ h.before = g.before /\ h.round = g.round
        /\ h.log = g.log /\ h.phase = g.phase /\ h.queued = g.queued
    BY <2>2 DEF Typed, Whole, Fields
  <2>4. live' = {h} /\ disk' = {h} /\ rolled' = rolled /\ spent' = spent
    BY <1>2, <2>1 DEF Publish, CarryBegin, CarryRecord
  <2> HIDE DEF h
  <2> QED
    BY <2>3, <2>4, GrowthRewritten
<1>3. ASSUME NEW d \in Deliveries,
             CarryCreate(d) \/ CarryRegister(d) \/ PlayCarried(d) \/ RestartCarried(d)
      PROVE  GrowthInv'
  BY <1>3, GrowthElsewhere DEF CarryCreate, CarryRegister, PlayCarried, RestartCarried
<1> QED
  BY <1>1, <1>2, <1>3 DEF Carry

LEMMA CrashGrowth == FinaleInv /\ GrowthInv /\ Crash => GrowthInv'
<1> SUFFICES ASSUME FinaleInv, GrowthInv, Crash PROVE GrowthInv'
  OBVIOUS
<1>1. spent'.checks = spent.checks
  BY SpendType DEF Crash, Mishap, Keys
<1> QED
  BY <1>1, GrowthElsewhere DEF Crash, ghosts

LEMMA LoadGrowth == FinaleInv /\ GrowthInv /\ Load => GrowthInv'
<1> SUFFICES ASSUME FinaleInv, GrowthInv, Load PROVE GrowthInv'
  OBVIOUS
<1>1. PICK g \in disk : live' = {IF Writable(g) THEN [g EXCEPT !.phase = "paused"] ELSE g}
  BY DEF Load
<1> DEFINE h == IF Writable(g) THEN [g EXCEPT !.phase = "paused"] ELSE g
<1>2. GrowthOK(g, spent.checks, rolled) /\ Typed(g)
  BY DEF FinaleInv, AggregateOK, GrowthInv
<1>3. /\ h.grown = g.grown /\ h.pending = g.pending /\ h.receipts = g.receipts
      /\ h.entropy = g.entropy /\ h.before = g.before /\ h.round = g.round
      /\ h.log = g.log /\ h.queued = g.queued /\ h.phase \in {"paused", g.phase}
  BY <1>2 DEF Typed, Whole, Fields
<1>4. live' = {h} /\ disk' = disk /\ rolled' = rolled /\ spent' = spent
  BY <1>1 DEF Load, ghosts
<1> HIDE DEF h
<1>5. h.phase = "judgment" \/ h.before # {} => h.queued
  BY <1>2, <1>3 DEF GrowthOK, PutAside
<1>6. GrowthOK(h, spent.checks, rolled)
  BY <1>2, <1>3, <1>5, GrowthSame
<1>7. \A x \in disk : h.entropy = x.entropy
  BY <1>3 DEF FinaleInv, Twins, One
<1> QED
  BY <1>4, <1>6, <1>7 DEF GrowthInv

LEMMA NextGrowth ==
    ASSUME FinaleInv, GrowthInv,
           [/\ Next
            /\ RemoveActors => \A g \in live : g.phase # "judgment" /\ g.before = {}]_vars
    PROVE  GrowthInv'
<1>1. CASE UNCHANGED vars
  BY <1>1, GrowthElsewhere DEF vars, aggregate, ghosts
<1>2. CASE Play /\ (RemoveActors => \A g \in live : g.phase # "judgment" /\ g.before = {})
  BY <1>2, PlayGrowth
<1> QED
  BY <1>1, <1>2, FinaleGrowth, CarryGrowth, CrashGrowth, LoadGrowth DEF Next

LEMMA GrowthAlways == CarefulSpec => []GrowthInv
<1>1. ASSUME FinaleInv,
             [/\ Next
              /\ RemoveActors => \A g \in live : g.phase # "judgment" /\ g.before = {}]_vars
      PROVE  FinaleInv'
  BY <1>1, NextFinale
<1> QED
  BY <1>1, InitFinale, InitGrowth, NextGrowth, PTL DEF CarefulSpec

\* Where no actors are removed from a round that is judged or was begun, every
\* growth on a sheet is in exactly one receipt and a settled check is never
\* marked again: not by a round that is aborted, rolled back or told anew, nor
\* after a restart (skill_growth.py: settle, _abort, rewind_preflight).
THEOREM GrowthIsSettledOnce == CarefulSpec => []GrowthSettledOnce
<1>1. GrowthInv => GrowthSettledOnce
  BY DEF GrowthInv, GrowthOK, Receipted, Unsettled, GrowthSettledOnce, NoSecondMark
<1> QED
  BY <1>1, GrowthAlways, PTL

\* There too, a check is rolled with one seed, however often its settlement is
\* tried, refused, cancelled or lost: the seed is saved before the first roll
\* (skill_growth.py: reserve_entropy).
THEOREM ChecksAreRolledOnce == CarefulSpec => []NoRerolls
<1>1. GrowthInv => NoRerolls
  BY DEF GrowthInv, GrowthOK, Seeded, One, NoRerolls
<1> QED
  BY <1>1, GrowthAlways, PTL
=============================================================================
