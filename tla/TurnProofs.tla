----------------------------- MODULE TurnProofs -----------------------------
(***************************************************************************)
(* The fairness of a fight's turns, proved for any actors, speeds,         *)
(* modifiers and rules.                                                    *)
(*                                                                         *)
(* First what lists in a row hold.  Then, for "threshold", that the queue  *)
(* and the gauges say the same, which the books of the turns rest on; and  *)
(* for "ordered", where in the round everybody's count of turns goes up.   *)
(***************************************************************************)
EXTENDS TurnLedger, FiniteSetTheorems, SequenceTheorems, WellFoundedInduction, TLAPS

----------------------------------------------------------------------------
(***************************************************************************)
(* Lists in a row.                                                         *)
(***************************************************************************)

\* Where an entry of two lists in a row comes from, and that they are all there.
LEMMA ConcatIs ==
    ASSUME NEW T, NEW s \in Seq(T), NEW t \in Seq(T)
    PROVE  /\ s \o t \in Seq(T)
           /\ \A i \in DOMAIN (s \o t) :
                 \/ i \in DOMAIN s /\ (s \o t)[i] = s[i]
                 \/ i \notin DOMAIN s /\ i - Len(s) \in DOMAIN t /\ (s \o t)[i] = t[i - Len(s)]
           /\ \A i \in DOMAIN s : i \in DOMAIN (s \o t) /\ (s \o t)[i] = s[i]
           /\ \A j \in DOMAIN t :
                 Len(s) + j \in DOMAIN (s \o t) /\ (s \o t)[Len(s) + j] = t[j]
<1>1. /\ Len(s) \in Nat /\ DOMAIN s = 1..Len(s)
      /\ Len(t) \in Nat /\ DOMAIN t = 1..Len(t)
  BY LenProperties
<1>2. /\ s \o t \in Seq(T) /\ DOMAIN (s \o t) = 1..(Len(s) + Len(t))
      /\ \A i \in 1..(Len(s) + Len(t)) :
            (s \o t)[i] = IF i <= Len(s) THEN s[i] ELSE t[i - Len(s)]
  BY ConcatProperties, LenProperties
<1>3. ASSUME NEW i \in DOMAIN (s \o t)
      PROVE  \/ i \in DOMAIN s /\ (s \o t)[i] = s[i]
             \/ i \notin DOMAIN s /\ i - Len(s) \in DOMAIN t /\ (s \o t)[i] = t[i - Len(s)]
  <2>1. i \in 1..(Len(s) + Len(t))
    BY <1>2
  <2>2. CASE i <= Len(s)
    BY <1>1, <1>2, <2>1, <2>2
  <2>3. CASE ~(i <= Len(s))
    <3>1. i - Len(s) \in 1..Len(t) /\ i \notin 1..Len(s)
      BY <1>1, <2>1, <2>3
    <3> QED
      BY <1>1, <1>2, <2>1, <2>3, <3>1
  <2> QED
    BY <2>2, <2>3
<1>4. ASSUME NEW i \in DOMAIN s PROVE i \in DOMAIN (s \o t) /\ (s \o t)[i] = s[i]
  <2>1. i \in 1..(Len(s) + Len(t)) /\ i <= Len(s)
    BY <1>1
  <2> QED
    BY <1>2, <2>1
<1>5. ASSUME NEW j \in DOMAIN t
      PROVE  Len(s) + j \in DOMAIN (s \o t) /\ (s \o t)[Len(s) + j] = t[j]
  <2>1. /\ Len(s) + j \in 1..(Len(s) + Len(t)) /\ ~(Len(s) + j <= Len(s))
        /\ Len(s) + j - Len(s) = j
    BY <1>1
  <2> QED
    BY <1>2, <2>1
<1> QED
  BY <1>2, <1>3, <1>4, <1>5

Distinct(s) == \A i, j \in DOMAIN s : s[i] = s[j] => i = j

LEMMA ConcatRange ==
    ASSUME NEW T, NEW s \in Seq(T), NEW t \in Seq(T)
    PROVE  /\ Range(s \o t) = Range(s) \cup Range(t)
           /\ (Distinct(s) /\ Distinct(t) /\ Range(s) \cap Range(t) = {}) => Distinct(s \o t)
<1>1. /\ \A i \in DOMAIN (s \o t) :
            \/ i \in DOMAIN s /\ (s \o t)[i] = s[i]
            \/ i \notin DOMAIN s /\ i - Len(s) \in DOMAIN t /\ (s \o t)[i] = t[i - Len(s)]
      /\ \A i \in DOMAIN s : i \in DOMAIN (s \o t) /\ (s \o t)[i] = s[i]
      /\ \A j \in DOMAIN t : Len(s) + j \in DOMAIN (s \o t) /\ (s \o t)[Len(s) + j] = t[j]
  BY ConcatIs
<1>2. Range(s \o t) = Range(s) \cup Range(t)
  <2>1. ASSUME NEW i \in DOMAIN (s \o t) PROVE (s \o t)[i] \in Range(s) \cup Range(t)
    BY <1>1 DEF Range
  <2>2. ASSUME NEW i \in DOMAIN s PROVE s[i] \in Range(s \o t)
    BY <1>1, Zenon DEF Range
  <2>3. ASSUME NEW j \in DOMAIN t PROVE t[j] \in Range(s \o t)
    BY <1>1, Zenon DEF Range
  <2>4. /\ \A x \in Range(s \o t) : \E i \in DOMAIN (s \o t) : x = (s \o t)[i]
        /\ \A x \in Range(s) : \E i \in DOMAIN s : x = s[i]
        /\ \A x \in Range(t) : \E i \in DOMAIN t : x = t[i]
    BY Zenon DEF Range
  <2>5. Range(s \o t) \subseteq Range(s) \cup Range(t)
    BY <2>1, <2>4, Zenon
  <2>6. Range(s) \cup Range(t) \subseteq Range(s \o t)
    BY <2>2, <2>3, <2>4, Zenon
  <2> QED
    BY <2>5, <2>6, Zenon
<1>3. /\ Len(s) \in Nat /\ DOMAIN (s \o t) \subseteq Int
  BY ConcatProperties, LenProperties
<1>4. ASSUME Distinct(s), Distinct(t), Range(s) \cap Range(t) = {},
             NEW i \in DOMAIN (s \o t), NEW j \in DOMAIN (s \o t), (s \o t)[i] = (s \o t)[j]
      PROVE  i = j
  <2>1. i \in Int /\ j \in Int
    BY <1>3
  <2>2. CASE i \in DOMAIN s /\ j \in DOMAIN s
    BY <1>1, <1>4, <2>2 DEF Distinct
  <2>3. CASE i \notin DOMAIN s /\ j \notin DOMAIN s
    <3>1. i - Len(s) = j - Len(s)
      BY <1>1, <1>4, <2>3, Zenon DEF Distinct
    <3> QED
      BY <1>3, <2>1, <3>1
  <2>4. CASE ~(i \in DOMAIN s <=> j \in DOMAIN s)
    <3>1. ASSUME NEW k \in DOMAIN s, NEW l \in DOMAIN t PROVE s[k] # t[l]
      BY <1>4 DEF Range
    <3> QED
      BY <1>1, <1>4, <2>4, <3>1
  <2> QED
    BY <2>2, <2>3, <2>4
<1> QED
  BY <1>2, <1>4 DEF Distinct

LEMMA AppendRange ==
    ASSUME NEW T, NEW s \in Seq(T), NEW e \in T
    PROVE  /\ Append(s, e) \in Seq(T)
           /\ DOMAIN Append(s, e) = DOMAIN s \cup {Len(s) + 1}
           /\ Range(Append(s, e)) = Range(s) \cup {e}
           /\ \A i \in DOMAIN s : Append(s, e)[i] = s[i] /\ i < Len(s) + 1
           /\ Append(s, e)[Len(s) + 1] = e
           /\ (Distinct(s) /\ e \notin Range(s)) => Distinct(Append(s, e))
<1>1. Len(s) \in Nat /\ DOMAIN s = 1..Len(s)
  BY LenProperties
<1>2. /\ Append(s, e) \in Seq(T) /\ Append(s, e)[Len(s) + 1] = e
      /\ DOMAIN Append(s, e) = 1..(Len(s) + 1)
      /\ \A i \in 1..Len(s) : Append(s, e)[i] = s[i]
  OBVIOUS
<1>3. DOMAIN Append(s, e) = DOMAIN s \cup {Len(s) + 1} /\ \A i \in DOMAIN s : i < Len(s) + 1
  BY <1>1, <1>2
<1>4. Range(Append(s, e)) = Range(s) \cup {e}
  BY <1>1, <1>2, <1>3, Zenon DEF Range
<1>5. (Distinct(s) /\ e \notin Range(s)) => Distinct(Append(s, e))
  BY <1>1, <1>2, <1>3, Zenon DEF Distinct, Range
<1> QED
  BY <1>1, <1>2, <1>3, <1>4, <1>5

----------------------------------------------------------------------------
(***************************************************************************)
(* "threshold": the queue and the gauges.                                  *)
(***************************************************************************)

Gauged ==
    /\ config \in SchedulerConfig
    /\ living \subseteq Actors
    /\ gauges \in [Actors -> Nat]
    /\ ready \in Seq(Actors)
    /\ ReadyIffCharged

\* Those who get full in the moment t are queued behind the others, in the
\* order in which they got there, each once.
LEMMA PassTimeQueues ==
    ASSUME Gauged, NEW t \in Nat, PassTime(t), \A a \in Pending : Pace(a) \in Nat \ {0}
    PROVE  \E q \in Seq(Actors) :
              /\ ready' = ready \o q /\ Distinct(q)
              /\ Range(q) = {a \in Pending : FullAfter(a, t)}
              /\ \A i, j \in DOMAIN q : i < j => Before(q[i], q[j])
<1> DEFINE full == {a \in Pending : FullAfter(a, t)}
<1>1. PICK q \in [1..Cardinality(full) -> full] :
         /\ Range(q) = full /\ ready' = ready \o q
         /\ \A i, j \in DOMAIN q : i < j => Before(q[i], q[j])
  BY DEF PassTime, Arrangements
<1>2. full \subseteq Pending /\ Pending \subseteq Actors
  BY DEF Pending, Fighting, Gauged
<1>3. Cardinality(full) \in Nat
  <2>1. IsFiniteSet(full)
    BY <1>2, ActorsAssumption, FS_Subset DEF Actors
  <2> QED
    BY <2>1, FS_CardinalityType
<1> HIDE DEF full
<1>4. q \in Seq(Actors)
  <2>1. q \in [1..Cardinality(full) -> Actors]
    BY <1>2
  <2> QED
    BY <1>3, <2>1, SeqDef
<1>5. Distinct(q)
  <2> SUFFICES ASSUME NEW i \in DOMAIN q, NEW j \in DOMAIN q, q[i] = q[j], i < j
               PROVE  FALSE
    BY <1>3 DEF Distinct
  <2>1. q[i] \in full /\ q[i] \in Nat /\ gauges[q[i]] \in Nat /\ Pace(q[i]) \in Nat
    BY <1>2, ActorsAssumption DEF Actors, Gauged
  <2>2. Before(q[i], q[i])
    BY <1>1
  <2> DEFINE a == q[i]
             time == (Threshold - gauges[a]) * Pace(a)
  <2>3. time \in Int
    BY <2>1, ConfigAssumption
  <2> HIDE DEF a, time
  <2>4. ~(time < time) /\ ~(Pace(a) > Pace(a)) /\ ~(a < a)
    BY <2>1, <2>3 DEF a
  <2> QED
    BY <2>2, <2>4 DEF Before, a, time
<1> QED
  BY <1>1, <1>4, <1>5 DEF full

\* A gauge fills to what it was and what its owner made of the time, at most;
\* and to the threshold if that is enough.
LEMMA FilledIs ==
    ASSUME Gauged, NEW t \in Nat, NEW a \in Pending, Pace(a) \in Nat
    PROVE  /\ a \in Actors /\ gauges[a] \in Nat /\ gauges[a] < Threshold
           /\ Pace(a) * t \in Nat
           /\ Filled(a, t) \in Nat /\ Filled(a, t) <= gauges[a] + Pace(a) * t
           /\ config.overflow = "carry" => Filled(a, t) = gauges[a] + Pace(a) * t
           /\ Filled(a, t) >= Threshold <=> FullAfter(a, t)
<1>1. a \in Actors /\ gauges[a] \in Nat /\ gauges[a] < Threshold
  BY DEF Gauged, Pending, Fighting
<1>2. Threshold \in Nat
  BY ConfigAssumption
<1> DEFINE more == Pace(a) * t
<1>3. more \in Nat
  OBVIOUS
<1>4. /\ Filled(a, t) = IF config.overflow = "clamp" /\ gauges[a] + more > Threshold
                        THEN Threshold ELSE gauges[a] + more
      /\ FullAfter(a, t) <=> gauges[a] + more >= Threshold
  BY DEF Filled, FullAfter
<1> HIDE DEF more
<1>5. /\ Filled(a, t) \in Nat /\ Filled(a, t) <= gauges[a] + more
      /\ config.overflow = "carry" => Filled(a, t) = gauges[a] + more
      /\ Filled(a, t) >= Threshold <=> FullAfter(a, t)
  BY <1>1, <1>2, <1>3, <1>4
<1> QED
  BY <1>1, <1>3, <1>5 DEF more

LEMMA MoveTimeGauged == Gauged /\ MoveTime => Gauged'
<1> SUFFICES ASSUME Gauged, MoveTime PROVE Gauged'
  OBVIOUS
<1>1. /\ \A a \in Pending : Pace(a) \in Nat \ {0}
      /\ UNCHANGED <<config, living>>
  BY DEF MoveTime, table
<1>2. PICK t \in 1..Threshold : PassTime(t)
  BY DEF MoveTime
<1>3. t \in Nat /\ Threshold \in Nat \ {0}
  BY ConfigAssumption
<1>4. PICK q \in Seq(Actors) :
         /\ ready' = ready \o q /\ Distinct(q)
         /\ Range(q) = {a \in Pending : FullAfter(a, t)}
  BY <1>1, <1>2, <1>3, PassTimeQueues
<1>5. \A a \in Actors : gauges'[a] = IF a \in Pending THEN Filled(a, t) ELSE gauges[a]
  BY <1>2 DEF PassTime
<1>6. gauges' = [a \in Actors |-> gauges'[a]]
  BY <1>2 DEF PassTime
<1>7. \A a \in Pending : /\ gauges[a] < Threshold /\ Filled(a, t) \in Nat
                         /\ Filled(a, t) >= Threshold <=> FullAfter(a, t)
  BY <1>1, <1>3, FilledIs
<1>8. gauges' \in [Actors -> Nat]
  <2>1. \A a \in Actors : gauges'[a] \in Nat
    BY <1>5, <1>7 DEF Gauged
  <2> QED
    BY <1>6, <2>1
<1>9. /\ ready' \in Seq(Actors) /\ Range(ready') = Range(ready) \cup Range(q)
      /\ Range(ready) \cap Range(q) = {} => Distinct(ready')
  <2>1. ready \in Seq(Actors) /\ Distinct(ready)
    BY DEF Gauged, ReadyIffCharged, Distinct
  <2> QED
    BY <1>4, <2>1, ConcatIs, ConcatRange
<1>10. ASSUME NEW a \in Actors PROVE a \in Range(ready') <=> gauges'[a] >= Threshold
  <2>1. a \in Range(ready) <=> gauges[a] >= Threshold
    BY DEF Gauged, ReadyIffCharged
  <2>2. CASE a \in Pending
    <3>1. a \notin Range(ready)
      BY <1>3, <1>7, <2>1, <2>2 DEF Gauged
    <3> QED
      BY <1>4, <1>5, <1>7, <1>9, <2>2, <3>1
  <2>3. CASE a \notin Pending
    BY <1>4, <1>5, <1>9, <2>1, <2>3
  <2> QED
    BY <2>2, <2>3
<1>11. Range(ready) \cap Range(q) = {}
  <2> SUFFICES ASSUME NEW a \in Pending, a \in Range(ready) PROVE FALSE
    BY <1>4
  <2>1. a \in Actors /\ gauges[a] \in Nat /\ gauges[a] < Threshold
    BY <1>7 DEF Pending, Fighting, Gauged
  <2> QED
    BY <1>3, <2>1 DEF Gauged, ReadyIffCharged
<1>12. ReadyIffCharged'
  BY <1>9, <1>10, <1>11 DEF ReadyIffCharged, Distinct
<1> QED
  BY <1>1, <1>8, <1>9, <1>12 DEF Gauged

\* Without a, the queue is what it was, in the same order.
LEMMA OthersAre ==
    ASSUME Gauged, NEW a
    PROVE  /\ Others(a) \in Seq(Actors)
           /\ Range(Others(a)) = Range(ready) \ {a} /\ Distinct(Others(a))
           /\ \E at \in [DOMAIN Others(a) -> DOMAIN ready] :
                 \A k, l \in DOMAIN Others(a) :
                    /\ Others(a)[k] = ready[at[k]]
                    /\ k < l => at[k] < at[l]
<1> DEFINE I == {i \in DOMAIN ready : ready[i] # a}
           rest == Subsequence(ready, I)
<1>1. /\ rest \in Seq(Actors)
      /\ \A i \in I : \E k \in DOMAIN rest : rest[k] = ready[i]
      /\ \E at \in [DOMAIN rest -> I] :
            \A k, l \in DOMAIN rest : rest[k] = ready[at[k]] /\ (k < l => at[k] < at[l])
  <2>1. ready \in Seq(Actors) /\ I \in SUBSET DOMAIN ready
    BY DEF Gauged
  <2> HIDE DEF I
  <2> QED
    BY <2>1, SubsequenceIs
<1> HIDE DEF rest
<1>2. PICK at \in [DOMAIN rest -> I] :
         \A k, l \in DOMAIN rest : rest[k] = ready[at[k]] /\ (k < l => at[k] < at[l])
  BY <1>1
<1>3. DOMAIN rest = 1..Len(rest) /\ DOMAIN rest \subseteq Int
  BY <1>1, LenProperties
<1>4. DOMAIN ready \subseteq Int
  BY LenProperties DEF Gauged
<1>5. ASSUME NEW k \in DOMAIN rest, NEW l \in DOMAIN rest, rest[k] = rest[l] PROVE k = l
  <2>1. at[k] \in I /\ at[l] \in I /\ ready[at[k]] = ready[at[l]]
    BY <1>2, <1>5
  <2>2. at[k] = at[l] /\ at[k] \in Int
    BY <1>4, <2>1 DEF Gauged, ReadyIffCharged
  <2>3. ~(k < l) /\ ~(l < k)
    BY <1>2, <2>2
  <2> QED
    BY <1>3, <2>3
<1>6. \A x : x \in Range(rest) <=> x \in Range(ready) /\ x # a
  <2>1. ASSUME NEW k \in DOMAIN rest PROVE rest[k] \in Range(ready) /\ rest[k] # a
    BY <1>2 DEF Range
  <2>2. ASSUME NEW i \in DOMAIN ready, ready[i] # a PROVE ready[i] \in Range(rest)
    <3>1. PICK k \in DOMAIN rest : rest[k] = ready[i]
      BY <1>1, <2>2
    <3> QED
      BY <3>1 DEF Range
  <2>3. /\ \A x \in Range(rest) : \E i \in DOMAIN rest : x = rest[i]
        /\ \A x \in Range(ready) : \E i \in DOMAIN ready : x = ready[i]
    BY Zenon DEF Range
  <2> QED
    BY <2>1, <2>2, <2>3, Zenon
<1>7. Others(a) = rest
  BY DEF Others, rest
<1>8. Range(rest) = Range(ready) \ {a}
  BY <1>6
<1>9. at \in [DOMAIN rest -> DOMAIN ready]
  BY <1>2
<1> QED
  BY <1>1, <1>2, <1>5, <1>7, <1>8, <1>9 DEF Distinct

\* A turn is used: what is left may be enough for another.
LEMMA UseGaugeGauged ==
    ASSUME Gauged, NEW a \in Actors, UseGauge(a), living' \subseteq Actors, config' = config
    PROVE  /\ Gauged'
           /\ gauges[a] >= Threshold
           /\ gauges'[a] = IF config.consume = "carry" THEN gauges[a] - Threshold ELSE 0
           /\ \A b \in Actors : b # a => gauges'[b] = gauges[b]
           /\ ready' = IF a \in Range(ready') THEN Append(Others(a), a) ELSE Others(a)
<1> DEFINE left == IF config.consume = "carry" THEN gauges[a] - Threshold ELSE 0
<1>1. /\ a \in Range(ready) /\ gauges' = [gauges EXCEPT ![a] = left]
      /\ ready' = IF left >= Threshold THEN Append(Others(a), a) ELSE Others(a)
  BY DEF UseGauge
<1>2. gauges[a] \in Nat /\ Threshold \in Nat \ {0} /\ gauges[a] >= Threshold
  BY <1>1, ConfigAssumption DEF Gauged, ReadyIffCharged
<1>3. left \in Nat
  BY <1>2
<1> HIDE DEF left
<1>4. gauges'[a] = left /\ \A b \in Actors : b # a => gauges'[b] = gauges[b]
  BY <1>1 DEF Gauged
<1>5. gauges' \in [Actors -> Nat]
  BY <1>1, <1>3 DEF Gauged
<1>6. /\ Others(a) \in Seq(Actors) /\ Distinct(Others(a))
      /\ Range(Others(a)) = Range(ready) \ {a}
  BY OthersAre
<1>7. /\ ready' \in Seq(Actors) /\ Distinct(ready')
      /\ Range(ready') = IF left >= Threshold THEN Range(ready) ELSE Range(ready) \ {a}
  <2>1. /\ Append(Others(a), a) \in Seq(Actors) /\ Distinct(Append(Others(a), a))
        /\ Range(Append(Others(a), a)) = (Range(ready) \ {a}) \cup {a}
    BY <1>6, AppendRange
  <2>2. (Range(ready) \ {a}) \cup {a} = Range(ready)
    BY <1>1
  <2>3. CASE left >= Threshold
    BY <1>1, <2>1, <2>2, <2>3
  <2>4. CASE ~(left >= Threshold)
    BY <1>1, <1>6, <2>4
  <2> QED
    BY <2>3, <2>4
<1>8. \A b \in Actors : b \in Range(ready') <=> gauges'[b] >= Threshold
  BY <1>1, <1>4, <1>7 DEF Gauged, ReadyIffCharged
<1>9. ReadyIffCharged'
  BY <1>7, <1>8 DEF ReadyIffCharged, Distinct
<1>10. Gauged'
  BY <1>5, <1>7, <1>9 DEF Gauged
<1>11. a \in Range(ready') <=> left >= Threshold
  BY <1>4, <1>8
<1>12. ready' = IF a \in Range(ready') THEN Append(Others(a), a) ELSE Others(a)
  BY <1>1, <1>11
<1> QED
  BY <1>2, <1>4, <1>10, <1>12 DEF left

LEMMA InitGauged == Init => Gauged
<1> SUFFICES ASSUME Init PROVE Gauged
  OBVIOUS
<1>1. /\ config \in SchedulerConfig /\ living \subseteq Actors
      /\ gauges \in [Actors -> Nat] /\ \A a \in Actors : gauges[a] = 0
  BY ConfigAssumption DEF Init
<1>2. ready = <<>> /\ ready \in Seq(Actors) /\ Range(ready) = {} /\ DOMAIN ready = {}
  BY EmptySeq DEF Init, Range
<1>3. ReadyIffCharged
  BY <1>1, <1>2, ConfigAssumption DEF ReadyIffCharged
<1> QED
  BY <1>1, <1>2, <1>3 DEF Gauged

\* What leaves the gauges alone keeps them right.
LEMMA IdleGauged ==
    ASSUME Gauged, living' \subseteq Actors, UNCHANGED <<config, bars>>
    PROVE  Gauged'
BY DEF Gauged, bars, ReadyIffCharged

LEMMA ActGauged ==
    ASSUME Gauged, NEW a \in Actors, NEW target \in Actors, NEW kind, Act(a, target, kind)
    PROVE  /\ living' \subseteq Actors /\ UNCHANGED <<config, started>>
           /\ \/ UNCHANGED bars
              \/ started /\ config.kind = "threshold" /\ UseGauge(a)
           /\ config.kind = "threshold" /\ started => UseGauge(a)
           /\ Gauged'
<1>1. living' \subseteq Actors
  BY DEF Act, Effect, Gauged
<1>2. UNCHANGED <<config, started>>
  BY DEF Act
<1>3. CASE ~started /\ UNCHANGED bars
  BY <1>1, <1>2, <1>3, IdleGauged
<1>4. CASE started /\ config.kind = "threshold" /\ UseGauge(a)
  BY <1>1, <1>2, <1>4, UseGaugeGauged
<1>5. CASE started /\ config.kind = "ordered" /\ UNCHANGED bars
  BY <1>1, <1>2, <1>5, IdleGauged
<1> QED
  BY <1>1, <1>2, <1>3, <1>4, <1>5 DEF Act, UsePlace

LEMMA StoryGauged ==
    ASSUME Gauged, NEW a \in Mortal, Fall(a) \/ Rise(a)
    PROVE  Gauged'
BY IdleGauged, ActorsAssumption DEF Fall, Rise, Gauged, Actors

LEMMA NextGauged == Gauged /\ [Next]_vars => Gauged'
<1> SUFFICES ASSUME Gauged, [Next]_vars PROVE Gauged'
  OBVIOUS
<1>1. CASE MoveTime
  BY <1>1, MoveTimeGauged
<1>2. CASE MoveTurn
  BY <1>2, IdleGauged DEF MoveTurn, table, Gauged
<1>3. ASSUME NEW a \in Actors, NEW target \in Actors, NEW kind \in Effects,
             Act(a, target, kind)
      PROVE  Gauged'
  BY <1>3, ActGauged
<1>4. ASSUME NEW a \in Mortal, Fall(a) \/ Rise(a) PROVE Gauged'
  BY <1>4, StoryGauged
<1>5. CASE UNCHANGED vars
  BY <1>5, IdleGauged DEF vars, table, Gauged
<1> QED
  BY <1>1, <1>2, <1>3, <1>4, <1>5 DEF Next

\* Whoever has a full gauge is in the queue, once, and nobody else is: no full
\* gauge is ever left outside of the queue, where it could not act again.
THEOREM QueueIsTheFullGauges == Spec => []ReadyIffCharged
<1>1. Gauged => ReadyIffCharged
  BY DEF Gauged
<1> QED
  BY <1>1, InitGauged, NextGauged, PTL DEF Spec

----------------------------------------------------------------------------
(***************************************************************************)
(* The books of the turns.                                                 *)
(***************************************************************************)

\* The moments written down are those that passed.
LEMMA MomentsAre ==
    ASSUME NEW t \in 1..Threshold, PassTime(t)
    PROVE  Moments = t
<1> DEFINE Passes(u) == /\ \E a \in Pending : FullAfter(a, u)
                        /\ \A v \in 1..u - 1 : \A a \in Pending : ~FullAfter(a, v)
<1>1. Passes(t)
  BY DEF PassTime
<1>2. Moments = CHOOSE u \in 1..Threshold : Passes(u)
  BY DEF Moments
<1>3. Moments \in 1..Threshold /\ Passes(Moments)
  <2> HIDE DEF Passes
  <2> QED
    BY <1>1, <1>2
<1>4. ~(Moments < t) /\ ~(t < Moments)
  <2>1. t \in Int /\ Moments \in Int /\ t >= 1 /\ Moments >= 1
    BY <1>3, ConfigAssumption
  <2>2. CASE Moments < t
    <3>1. Moments \in 1..t - 1
      BY <2>1, <2>2
    <3> QED
      BY <1>1, <1>3, <3>1
  <2>3. CASE t < Moments
    <3>1. t \in 1..Moments - 1
      BY <2>1, <2>3
    <3> QED
      BY <1>1, <1>3, <3>1
  <2> QED
    BY <2>2, <2>3
<1> QED
  BY <1>3, <1>4, ConfigAssumption

Booked ==
    /\ clock \in Nat
    /\ earned \in [Actors -> Nat]
    /\ taken \in [Actors -> Nat]

LEMMA TimeMovesBooked ==
    ASSUME Gauged, Booked, TimeMoves
    PROVE  \E t \in 1..Threshold :
              /\ PassTime(t) /\ Moments = t /\ clock' = clock + t
              /\ \A a \in Pending : Pace(a) \in Nat \ {0} /\ Pace(a) * t \in Nat
              /\ \A a \in Actors :
                    earned'[a] = IF a \in Pending THEN earned[a] + Pace(a) * t ELSE earned[a]
              /\ Booked'
<1>1. /\ \A a \in Pending : Pace(a) \in Nat \ {0}
      /\ earned' = [a \in Actors |-> IF a \in Pending THEN earned[a] + Pace(a) * Moments
                                     ELSE earned[a]]
      /\ clock' = clock + Moments /\ taken' = taken
  BY DEF TimeMoves, MoveTime
<1>2. PICK t \in 1..Threshold : PassTime(t)
  BY DEF TimeMoves, MoveTime
<1>3. Moments = t /\ t \in Nat
  BY <1>2, MomentsAre, ConfigAssumption
<1>4. \A a \in Pending : Pace(a) * t \in Nat
  BY <1>1, <1>3
<1>5. \A a \in Actors :
         earned'[a] = IF a \in Pending THEN earned[a] + Pace(a) * t ELSE earned[a]
  BY <1>1, <1>3
<1>6. \A a \in Actors : earned'[a] \in Nat
  BY <1>4, <1>5 DEF Booked
<1>7. Booked'
  <2>1. earned' = [a \in Actors |-> earned'[a]]
    BY <1>1
  <2>2. earned' \in [Actors -> Nat]
    BY <1>6, <2>1
  <2> QED
    BY <1>1, <1>3, <2>2 DEF Booked
<1> QED
  BY <1>1, <1>2, <1>3, <1>4, <1>5, <1>7

\* A turn that is counted is one more for somebody.
LEMMA CountsBooked ==
    ASSUME Booked, NEW a, Counts(a)
    PROVE  /\ taken' \in [Actors -> Nat]
           /\ a \in Actors => taken'[a] = taken[a] + 1
           /\ \A b \in Actors : b # a => taken'[b] = taken[b]
<1>1. taken' = [taken EXCEPT ![a] = @ + 1] /\ taken \in [Actors -> Nat]
  BY DEF Booked, Counts
<1>2. \A b \in Actors : taken'[b] = IF b = a THEN taken[b] + 1 ELSE taken[b]
  BY <1>1
<1>3. \A b \in Actors : taken'[b] \in Nat
  BY <1>1, <1>2
<1>4. taken' = [b \in Actors |-> taken'[b]]
  BY <1>1
<1> QED
  BY <1>2, <1>3, <1>4

LEMMA InitBooked == LInit => Booked /\ TurnsAreEarned
<1> SUFFICES ASSUME LInit PROVE Booked /\ TurnsAreEarned
  OBVIOUS
<1>1. Booked /\ \A a \in Actors : earned[a] = 0 /\ taken[a] = 0 /\ gauges[a] = 0
  BY DEF LInit, Init, Booked
<1>2. \A a \in Actors : Spent(a) = 0
  BY <1>1, ConfigAssumption DEF Spent
<1> QED
  BY <1>1, <1>2 DEF TurnsAreEarned

LEMMA TimeMovesEarned ==
    ASSUME Gauged, Booked, TurnsAreEarned, TimeMoves
    PROVE  TurnsAreEarned'
<1>1. PICK t \in 1..Threshold :
         /\ PassTime(t)
         /\ \A a \in Pending : Pace(a) \in Nat \ {0} /\ Pace(a) * t \in Nat
         /\ \A a \in Actors :
               earned'[a] = IF a \in Pending THEN earned[a] + Pace(a) * t ELSE earned[a]
  BY TimeMovesBooked
<1>2. taken' = taken /\ config' = config /\ config.kind = "threshold"
  BY DEF TimeMoves, MoveTime
<1>3. \A a \in Actors : gauges'[a] = IF a \in Pending THEN Filled(a, t) ELSE gauges[a]
  BY <1>1 DEF PassTime
<1>4. ASSUME NEW a \in Actors
      PROVE  IF config.overflow = "carry" /\ config.consume = "carry"
             THEN Spent(a)' = earned'[a] ELSE Spent(a)' <= earned'[a]
  <2> DEFINE used == taken[a] * Threshold
  <2>1. used \in Nat /\ gauges[a] \in Nat /\ earned[a] \in Nat
    BY ConfigAssumption DEF Booked, Gauged
  <2>2. Spent(a) = used + gauges[a] /\ Spent(a)' = used + gauges'[a]
    BY <1>2 DEF Spent
  <2>3. IF config.overflow = "carry" /\ config.consume = "carry"
        THEN Spent(a) = earned[a] ELSE Spent(a) <= earned[a]
    BY <1>2 DEF TurnsAreEarned
  <2> HIDE DEF used
  <2>4. CASE a \in Pending
    <3> DEFINE more == Pace(a) * t
    <3>1. /\ more \in Nat /\ Filled(a, t) \in Nat /\ Filled(a, t) <= gauges[a] + more
          /\ config.overflow = "carry" => Filled(a, t) = gauges[a] + more
      BY <1>1, <2>4, FilledIs, ConfigAssumption
    <3>2. gauges'[a] = Filled(a, t) /\ earned'[a] = earned[a] + more
      BY <1>1, <1>3, <2>4
    <3> HIDE DEF more
    <3> QED
      BY <2>1, <2>2, <2>3, <3>1, <3>2
  <2>5. CASE a \notin Pending
    BY <1>1, <1>3, <2>2, <2>3, <2>5
  <2> QED
    BY <2>4, <2>5
<1> QED
  BY <1>2, <1>4 DEF TurnsAreEarned

LEMMA ActorActsBooked ==
    ASSUME Gauged, Booked, NEW a \in Actors, NEW target \in Actors, NEW kind,
           ActorActs(a, target, kind)
    PROVE  Booked'
<1>1. UNCHANGED <<clock, earned>>
  BY DEF ActorActs
<1>2. taken' \in [Actors -> Nat]
  BY CountsBooked DEF ActorActs, Booked
<1> QED
  BY <1>1, <1>2 DEF Booked

LEMMA ActorActsEarned ==
    ASSUME Gauged, Booked, TurnsAreEarned, NEW a \in Actors, NEW target \in Actors, NEW kind,
           ActorActs(a, target, kind)
    PROVE  TurnsAreEarned'
<1> SUFFICES ASSUME config'.kind = "threshold", NEW b \in Actors
             PROVE  IF config'.overflow = "carry" /\ config'.consume = "carry"
                    THEN Spent(b)' = earned'[b] ELSE Spent(b)' <= earned'[b]
  BY DEF TurnsAreEarned
<1>1. /\ Act(a, target, kind) /\ earned' = earned
      /\ IF ~started THEN UNCHANGED taken
         ELSE IF config.kind = "threshold" THEN Counts(a) ELSE Counts(order'[turn'])
  BY DEF ActorActs
<1>2. /\ living' \subseteq Actors /\ config' = config
      /\ started => UseGauge(a)
  BY <1>1, ActGauged
<1>3. IF config.overflow = "carry" /\ config.consume = "carry"
      THEN Spent(b) = earned[b] ELSE Spent(b) <= earned[b]
  BY <1>2 DEF TurnsAreEarned
<1>4. CASE ~started
  <2>1. gauges' = gauges
    BY <1>1, <1>4 DEF Act, bars
  <2> QED
    BY <1>1, <1>2, <1>3, <1>4, <2>1 DEF Spent
<1>5. CASE started /\ b # a
  <2>1. gauges'[b] = gauges[b] /\ taken'[b] = taken[b]
    BY <1>1, <1>2, <1>5, UseGaugeGauged, CountsBooked
  <2> QED
    BY <1>1, <1>2, <1>3, <2>1 DEF Spent
<1>6. CASE started /\ b = a
  <2>1. /\ gauges[a] >= Threshold
        /\ gauges'[a] = IF config.consume = "carry" THEN gauges[a] - Threshold ELSE 0
    BY <1>2, <1>6, UseGaugeGauged
  <2>2. taken'[a] = taken[a] + 1
    BY <1>1, <1>2, <1>6, CountsBooked
  <2>3. gauges[a] \in Nat /\ taken[a] \in Nat /\ earned[a] \in Nat /\ Threshold \in Nat
    BY ConfigAssumption DEF Gauged, Booked
  <2> DEFINE used == taken[a] * Threshold
  <2>4. used \in Nat /\ (taken[a] + 1) * Threshold = used + Threshold
    BY <2>3
  <2>5. Spent(a) = used + gauges[a] /\ Spent(a)' = used + Threshold + gauges'[a]
    BY <2>2, <2>4 DEF Spent
  <2> HIDE DEF used
  <2> QED
    BY <1>1, <1>2, <1>3, <1>6, <2>1, <2>3, <2>4, <2>5
<1> QED
  BY <1>4, <1>5, <1>6

LEMMA NextBooked ==
    Gauged /\ Booked /\ TurnsAreEarned /\ [LNext]_lvars => Booked' /\ TurnsAreEarned'
<1> SUFFICES ASSUME Gauged, Booked, TurnsAreEarned, [LNext]_lvars
             PROVE  Booked' /\ TurnsAreEarned'
  OBVIOUS
<1>1. CASE TimeMoves
  BY <1>1, TimeMovesBooked, TimeMovesEarned
<1>2. CASE TurnMoves
  <2>1. UNCHANGED <<clock, earned, config>> /\ config.kind = "ordered"
    BY <1>2 DEF TurnMoves, MoveTurn
  <2>2. taken' \in [Actors -> Nat]
    BY <1>2, CountsBooked DEF TurnMoves
  <2> QED
    BY <2>1, <2>2 DEF Booked, TurnsAreEarned
<1>3. CASE Narrated
  BY <1>3 DEF Narrated, Fall, Rise, bars, Booked, TurnsAreEarned, Spent
<1>4. ASSUME NEW a \in Actors, NEW target \in Actors, NEW kind \in Effects,
             ActorActs(a, target, kind)
      PROVE  Booked' /\ TurnsAreEarned'
  BY <1>4, ActorActsBooked, ActorActsEarned
<1>5. CASE UNCHANGED lvars
  BY <1>5 DEF lvars, vars, books, bars, Booked, TurnsAreEarned, Spent
<1> QED
  BY <1>1, <1>2, <1>3, <1>4, <1>5 DEF LNext

\* What is written down is a step of the fight.
LEMMA LedgerSteps ==
    /\ LInit => Init
    /\ [LNext]_lvars => [Next]_vars
BY DEF LInit, LNext, lvars, Next, TimeMoves, TurnMoves, Narrated, ActorActs

LEMMA LedgerGauged == LSpec => []Gauged
<1>1. LInit => Gauged
  BY LedgerSteps, InitGauged
<1>2. Gauged /\ [LNext]_lvars => Gauged'
  BY LedgerSteps, NextGauged
<1> QED
  BY <1>1, <1>2, PTL DEF LSpec

\* Nobody acts on credit, and where the rule carries gauges over nothing that
\* was earned is lost, for every speed, modifier and threshold.
THEOREM TurnsEarned == LSpec => []TurnsAreEarned
BY LedgerGauged, InitBooked, NextBooked, PTL DEF LSpec

----------------------------------------------------------------------------
(***************************************************************************)
(* The order of the queue.                                                 *)
(***************************************************************************)

\* Nobody in the queue has arrived later than now.
Arrived ==
    /\ arrival \in [Actors -> [num : Nat, den : Nat \ {0}]]
    /\ \A a \in Range(ready) : arrival[a].num <= clock * arrival[a].den
    /\ FirstComeFirstServed

LEMMA TimesMonotone == \A x, y, z \in Nat : x <= y => x * z <= y * z
OBVIOUS

LEMMA TimesFacts == \A x, y, z \in Nat : x * y \in Nat /\ (x * y) * z = (x * z) * y
OBVIOUS

\* Who gets full in t moments arrives between now and then.
LEMMA ArrivesBetween ==
    ASSUME NEW now \in Nat, NEW t \in Nat, NEW pace \in Nat, NEW gauge \in Nat,
           NEW full \in Nat, gauge < full, gauge + pace * t >= full
    PROVE  /\ now * pace + full - gauge \in Nat
           /\ now * pace <= now * pace + full - gauge
           /\ now * pace + full - gauge <= (now + t) * pace
<1> DEFINE x == now * pace
           y == pace * t
<1>1. x \in Nat /\ y \in Nat /\ (now + t) * pace = x + y
  OBVIOUS
<1> HIDE DEF x, y
<1>2. x + full - gauge \in Nat /\ x <= x + full - gauge /\ x + full - gauge <= x + y
  BY <1>1 DEF y
<1> QED
  BY <1>1, <1>2 DEF x

LEMMA TimeMovesArrived ==
    ASSUME Gauged, Booked, Arrived, TimeMoves
    PROVE  Arrived'
<1>1. PICK t \in 1..Threshold :
         /\ PassTime(t) /\ Moments = t /\ clock' = clock + t
         /\ \A a \in Pending : Pace(a) \in Nat \ {0}
  BY TimeMovesBooked
<1>2. t \in Nat /\ Threshold \in Nat \ {0} /\ clock \in Nat
  BY ConfigAssumption DEF Booked
<1> DEFINE full == {a \in Pending : FullAfter(a, t)}
           moment(a) == [num |-> clock * Pace(a) + Threshold - gauges[a], den |-> Pace(a)]
<1>3. PICK q \in Seq(Actors) :
         /\ ready' = ready \o q /\ Range(q) = full
         /\ \A i, j \in DOMAIN q : i < j => Before(q[i], q[j])
  BY <1>1, <1>2, PassTimeQueues
<1>4. arrival' = [a \in Actors |-> IF a \in full THEN moment(a) ELSE arrival[a]]
  BY <1>1 DEF TimeMoves
<1>5. ASSUME NEW a \in full
      PROVE  /\ a \in Actors /\ Pace(a) \in Nat \ {0} /\ gauges[a] \in Nat
             /\ gauges[a] < Threshold /\ arrival'[a] = moment(a)
             /\ moment(a).num \in Nat /\ moment(a).den = Pace(a)
             /\ clock * Pace(a) <= moment(a).num
             /\ moment(a).num <= (clock + t) * Pace(a)
  <2>1. /\ a \in Actors /\ gauges[a] \in Nat /\ gauges[a] < Threshold
        /\ Pace(a) \in Nat \ {0} /\ gauges[a] + Pace(a) * t >= Threshold
    BY <1>1, <1>2, FilledIs DEF FullAfter
  <2>2. arrival'[a] = moment(a)
    BY <1>4, <2>1
  <2>3. /\ clock * Pace(a) + Threshold - gauges[a] \in Nat
        /\ clock * Pace(a) <= clock * Pace(a) + Threshold - gauges[a]
        /\ clock * Pace(a) + Threshold - gauges[a] <= (clock + t) * Pace(a)
    BY <1>2, <2>1, ArrivesBetween
  <2> QED
    BY <2>1, <2>2, <2>3
<1>6. ASSUME NEW a \in Range(ready)
      PROVE  /\ a \in Actors /\ a \notin full /\ arrival'[a] = arrival[a]
             /\ arrival[a].num \in Nat /\ arrival[a].den \in Nat \ {0}
             /\ arrival[a].num <= clock * arrival[a].den
  <2>1. a \in Actors
    BY LenProperties DEF Gauged, Range
  <2>2. a \notin full
    <3> SUFFICES ASSUME a \in Pending PROVE FALSE
      OBVIOUS
    <3>1. gauges[a] \in Nat /\ gauges[a] < Threshold /\ gauges[a] >= Threshold
      BY <2>1 DEF Pending, Gauged, ReadyIffCharged
    <3> QED
      BY <1>2, <3>1
  <2> QED
    BY <1>4, <2>1, <2>2 DEF Arrived
<1> HIDE DEF full
<1>7. arrival' \in [Actors -> [num : Nat, den : Nat \ {0}]]
  <2>1. \A a \in Actors : arrival'[a] \in [num : Nat, den : Nat \ {0}]
    BY <1>4, <1>5 DEF Arrived
  <2>2. arrival' = [a \in Actors |-> arrival'[a]]
    BY <1>4
  <2> HIDE DEF moment
  <2> QED
    BY <2>1, <2>2
<1>8. ASSUME NEW a \in Range(ready') PROVE arrival'[a].num <= clock' * arrival'[a].den
  <2>1. a \in Range(ready) \/ a \in full
    BY <1>3, ConcatRange DEF Gauged
  <2>2. CASE a \in full
    BY <1>1, <1>5, <2>2
  <2>3. CASE a \in Range(ready)
    <3> DEFINE d == arrival[a].den
               n == arrival[a].num
    <3>1. d \in Nat /\ n \in Nat /\ n <= clock * d
      BY <1>6, <2>3
    <3>2. arrival'[a].num = n /\ arrival'[a].den = d
      BY <1>6, <2>3
    <3> HIDE DEF d, n
    <3>3. clock * d <= (clock + t) * d /\ clock * d \in Nat /\ (clock + t) * d \in Nat
      BY <1>2, <3>1, TimesMonotone
    <3>4. n <= (clock + t) * d
      BY <3>1, <3>3
    <3> QED
      BY <1>1, <3>2, <3>4
  <2> QED
    BY <2>1, <2>2, <2>3
<1>9. ASSUME NEW a \in Range(ready), NEW b \in full PROVE Earlier(arrival'[a], arrival'[b])
  <2> DEFINE n == arrival[a].num
             d == arrival[a].den
             m == moment(b).num
             p == Pace(b)
  <2>1. n \in Nat /\ d \in Nat /\ n <= clock * d
    BY <1>6
  <2>2. m \in Nat /\ p \in Nat /\ clock * p <= m
    BY <1>5
  <2>3. /\ arrival'[a].num = n /\ arrival'[a].den = d
        /\ arrival'[b].num = m /\ arrival'[b].den = p
    BY <1>5, <1>6
  <2> HIDE DEF n, d, m, p
  <2>4. n * p <= (clock * d) * p
    BY <1>2, <2>1, <2>2, TimesMonotone, TimesFacts
  <2>5. (clock * p) * d <= m * d
    BY <1>2, <2>1, <2>2, TimesMonotone, TimesFacts
  <2>6. (clock * d) * p = (clock * p) * d
    BY <1>2, <2>1, <2>2, TimesFacts
  <2>7. n * p \in Nat /\ m * d \in Nat /\ (clock * p) * d \in Nat
    BY <1>2, <2>1, <2>2, TimesFacts
  <2>8. n * p <= m * d
    BY <2>4, <2>5, <2>6, <2>7
  <2> QED
    BY <2>3, <2>8 DEF Earlier
<1>10. ASSUME NEW a \in full, NEW b \in full, Before(a, b)
       PROVE  Earlier(arrival'[a], arrival'[b])
  <2> DEFINE pa == Pace(a)
             pb == Pace(b)
             ga == Threshold - gauges[a]
             gb == Threshold - gauges[b]
  <2>1. pa \in Nat /\ pb \in Nat /\ ga \in Nat /\ gb \in Nat
    <3>1. /\ gauges[a] \in Nat /\ gauges[a] < Threshold /\ pa \in Nat
          /\ gauges[b] \in Nat /\ gauges[b] < Threshold /\ pb \in Nat
      BY <1>5
    <3> QED
      BY <1>2, <3>1
  <2>2. ga * pb <= gb * pa
    BY <1>10, <2>1 DEF Before
  <2>3. /\ arrival'[a].num = clock * pa + ga /\ arrival'[a].den = pa
        /\ arrival'[b].num = clock * pb + gb /\ arrival'[b].den = pb
    <3>1. /\ arrival'[a] = moment(a) /\ arrival'[b] = moment(b)
          /\ gauges[a] \in Nat /\ gauges[b] \in Nat
      BY <1>5
    <3>2. clock * pa \in Nat /\ clock * pb \in Nat
      BY <1>2, <2>1, TimesFacts
    <3> QED
      BY <1>2, <3>1, <3>2
  <2> HIDE DEF pa, pb, ga, gb
  <2>4. /\ (clock * pa + ga) * pb = (clock * pa) * pb + ga * pb
        /\ (clock * pb + gb) * pa = (clock * pb) * pa + gb * pa
    BY <1>2, <2>1
  <2>5. (clock * pa) * pb = (clock * pb) * pa /\ (clock * pa) * pb \in Nat
        /\ ga * pb \in Nat /\ gb * pa \in Nat
    BY <1>2, <2>1, TimesFacts
  <2>6. (clock * pa + ga) * pb <= (clock * pb + gb) * pa
    BY <2>2, <2>4, <2>5
  <2> QED
    BY <2>3, <2>6 DEF Earlier
<1>11. ASSUME NEW i \in DOMAIN ready', NEW j \in DOMAIN ready', i < j
       PROVE  Earlier(arrival'[ready'[i]], arrival'[ready'[j]])
  <2>1. \A k \in DOMAIN ready' :
           \/ k \in DOMAIN ready /\ ready'[k] = ready[k]
           \/ k \notin DOMAIN ready /\ k - Len(ready) \in DOMAIN q /\ ready'[k] = q[k - Len(ready)]
    BY <1>3, ConcatIs DEF Gauged
  <2>2. /\ DOMAIN ready = 1..Len(ready) /\ Len(ready) \in Nat /\ i \in Nat \ {0} /\ j \in Nat
    BY <1>3, ConcatIs, LenProperties DEF Gauged
  <2>3. CASE i \in DOMAIN ready /\ j \in DOMAIN ready
    <3>1. ready[i] \in Range(ready) /\ ready[j] \in Range(ready)
      BY <2>3 DEF Range
    <3>2. Earlier(arrival[ready[i]], arrival[ready[j]])
      BY <1>11, <2>3 DEF Arrived, FirstComeFirstServed
    <3> QED
      BY <1>6, <2>1, <2>3, <3>1, <3>2
  <2>4. CASE i \in DOMAIN ready /\ j \notin DOMAIN ready
    <3>1. ready[i] \in Range(ready) /\ q[j - Len(ready)] \in full
      BY <1>3, <2>1, <2>4 DEF Range
    <3> QED
      BY <1>9, <2>1, <2>4, <3>1
  <2>5. CASE i \notin DOMAIN ready /\ j \notin DOMAIN ready
    <3>1. /\ i - Len(ready) \in DOMAIN q /\ j - Len(ready) \in DOMAIN q
          /\ i - Len(ready) < j - Len(ready)
      BY <1>11, <2>1, <2>2, <2>5
    <3>2. /\ q[i - Len(ready)] \in full /\ q[j - Len(ready)] \in full
          /\ Before(q[i - Len(ready)], q[j - Len(ready)])
      BY <1>3, <3>1 DEF Range
    <3> QED
      BY <1>10, <2>1, <2>5, <3>2
  <2>6. CASE i \notin DOMAIN ready /\ j \in DOMAIN ready
    BY <1>11, <2>2, <2>6
  <2> QED
    BY <2>3, <2>4, <2>5, <2>6
<1> QED
  BY <1>7, <1>8, <1>11 DEF Arrived, FirstComeFirstServed, Earlier

LEMMA UseGaugeArrived ==
    ASSUME Gauged, Arrived, clock \in Nat, NEW a \in Actors, UseGauge(a),
           living' \subseteq Actors, UNCHANGED <<config, clock>>,
           arrival' = IF a \in Range(ready')
                      THEN [arrival EXCEPT ![a] = [num |-> clock, den |-> 1]] ELSE arrival
    PROVE  Arrived'
<1> DEFINE rest == Others(a)
<1>1. /\ rest \in Seq(Actors) /\ Range(rest) = Range(ready) \ {a}
      /\ \E at \in [DOMAIN rest -> DOMAIN ready] :
            \A k, l \in DOMAIN rest : rest[k] = ready[at[k]] /\ (k < l => at[k] < at[l])
  BY OthersAre
<1>2. PICK at \in [DOMAIN rest -> DOMAIN ready] :
         \A k, l \in DOMAIN rest : rest[k] = ready[at[k]] /\ (k < l => at[k] < at[l])
  BY <1>1
<1>3. ready' = IF a \in Range(ready') THEN Append(rest, a) ELSE rest
  BY UseGaugeGauged
<1> HIDE DEF rest
<1>4. /\ Range(Append(rest, a)) = Range(rest) \cup {a}
      /\ DOMAIN Append(rest, a) = DOMAIN rest \cup {Len(rest) + 1}
      /\ \A i \in DOMAIN rest : Append(rest, a)[i] = rest[i] /\ i < Len(rest) + 1
      /\ Append(rest, a)[Len(rest) + 1] = a
  BY <1>1, AppendRange
<1>5. arrival' \in [Actors -> [num : Nat, den : Nat \ {0}]]
  <2>1. [num |-> clock, den |-> 1] \in [num : Nat, den : Nat \ {0}]
    OBVIOUS
  <2> QED
    BY <2>1 DEF Arrived
<1>6. ASSUME NEW b \in Range(rest)
      PROVE  /\ b \in Actors /\ b \in Range(ready) /\ arrival'[b] = arrival[b]
             /\ arrival[b].num <= clock * arrival[b].den
             /\ arrival[b].num \in Nat /\ arrival[b].den \in Nat
  <2>1. b \in Range(ready) /\ b # a
    BY <1>1
  <2>2. b \in Actors
    BY <2>1, LenProperties DEF Gauged, Range
  <2> QED
    BY <2>1, <2>2 DEF Arrived
<1>7. a \in Range(ready') => arrival'[a] = [num |-> clock, den |-> 1]
  BY DEF Arrived
<1>8. ASSUME NEW b \in Range(ready') PROVE arrival'[b].num <= clock' * arrival'[b].den
  <2>1. b \in Range(rest) \/ (b = a /\ a \in Range(ready'))
    BY <1>3, <1>4
  <2>2. CASE b \in Range(rest)
    BY <1>6, <2>2
  <2>3. CASE b = a /\ a \in Range(ready')
    BY <1>7, <2>3
  <2> QED
    BY <2>1, <2>2, <2>3
<1>9. ASSUME NEW i \in DOMAIN rest, NEW j \in DOMAIN rest, i < j
      PROVE  Earlier(arrival'[rest[i]], arrival'[rest[j]])
  <2>1. rest[i] \in Range(rest) /\ rest[j] \in Range(rest)
    BY DEF Range
  <2>2. Earlier(arrival[ready[at[i]]], arrival[ready[at[j]]])
    BY <1>2, <1>9 DEF Arrived, FirstComeFirstServed
  <2> QED
    BY <1>2, <1>6, <2>1, <2>2
<1>10. ASSUME NEW i \in DOMAIN ready', NEW j \in DOMAIN ready', i < j
       PROVE  Earlier(arrival'[ready'[i]], arrival'[ready'[j]])
  <2>1. CASE a \notin Range(ready')
    BY <1>3, <1>9, <1>10, <2>1
  <2>2. CASE a \in Range(ready')
    <3>1. DOMAIN rest = 1..Len(rest) /\ Len(rest) \in Nat
      BY <1>1, LenProperties
    <3>2. CASE i \in DOMAIN rest /\ j \in DOMAIN rest
      BY <1>3, <1>4, <1>9, <1>10, <2>2, <3>2
    <3>3. CASE i \in DOMAIN rest /\ j = Len(rest) + 1
      <4>1. rest[i] \in Range(rest) /\ ready'[i] = rest[i] /\ ready'[j] = a
        BY <1>3, <1>4, <2>2, <3>3 DEF Range
      <4>2. arrival[rest[i]].num * 1 <= clock * arrival[rest[i]].den
        BY <1>6, <4>1
      <4> QED
        BY <1>6, <1>7, <2>2, <4>1, <4>2 DEF Earlier
    <3>4. CASE i = Len(rest) + 1
      BY <1>3, <1>4, <1>10, <2>2, <3>1, <3>4
    <3> QED
      BY <1>3, <1>4, <2>2, <3>2, <3>3, <3>4
  <2> QED
    BY <2>1, <2>2
<1> QED
  BY <1>5, <1>8, <1>10 DEF Arrived, FirstComeFirstServed, Earlier

LEMMA IdleArrived == Arrived /\ UNCHANGED <<clock, ready, arrival>> => Arrived'
BY DEF Arrived, FirstComeFirstServed, Earlier

LEMMA InitArrived == LInit => Arrived
<1> SUFFICES ASSUME LInit PROVE Arrived
  OBVIOUS
<1>1. arrival \in [Actors -> [num : Nat, den : Nat \ {0}]]
  BY DEF LInit
<1>2. Range(ready) = {} /\ DOMAIN ready = {}
  BY EmptySeq DEF LInit, Init, Range
<1> QED
  BY <1>1, <1>2 DEF Arrived, FirstComeFirstServed

LEMMA NextArrived == Gauged /\ Booked /\ Arrived /\ [LNext]_lvars => Arrived'
<1> SUFFICES ASSUME Gauged, Booked, Arrived, [LNext]_lvars PROVE Arrived'
  OBVIOUS
<1>1. CASE TimeMoves
  BY <1>1, TimeMovesArrived
<1>2. CASE TurnMoves
  BY <1>2, IdleArrived DEF TurnMoves, MoveTurn, bars
<1>3. CASE Narrated
  BY <1>3, IdleArrived DEF Narrated, Fall, Rise, bars
<1>4. ASSUME NEW a \in Actors, NEW target \in Actors, NEW kind \in Effects,
             ActorActs(a, target, kind)
      PROVE  Arrived'
  <2>1. Act(a, target, kind) /\ clock' = clock /\ clock \in Nat
    BY <1>4 DEF ActorActs, Booked
  <2>2. living' \subseteq Actors /\ UNCHANGED <<config, started>>
    BY <2>1, ActGauged
  <2>3. CASE started /\ config.kind = "threshold"
    <3>1. UseGauge(a)
      BY <2>1, <2>3, ActGauged
    <3>2. arrival' = IF a \in Range(ready')
                     THEN [arrival EXCEPT ![a] = [num |-> clock, den |-> 1]] ELSE arrival
      BY <1>4, <2>3 DEF ActorActs
    <3> QED
      BY <2>1, <2>2, <3>1, <3>2, UseGaugeArrived
  <2>4. CASE ~(started /\ config.kind = "threshold")
    BY <1>4, <2>1, <2>4, ActGauged, IdleArrived DEF ActorActs, bars
  <2> QED
    BY <2>3, <2>4
<1>5. CASE UNCHANGED lvars
  BY <1>5, IdleArrived DEF lvars, vars, bars, books
<1> QED
  BY <1>1, <1>2, <1>3, <1>4, <1>5 DEF LNext

\* Whoever was first to fill his gauge is first in the queue, to the fraction of
\* a moment, however speeds change and whoever runs further over.
THEOREM QueueInOrderOfArrival == LSpec => []FirstComeFirstServed
<1> DEFINE Inv == Booked /\ TurnsAreEarned
<1>1. LInit => Inv /\ Arrived
  BY InitBooked, InitArrived
<1>2. Gauged /\ Inv /\ [LNext]_lvars => Inv'
  BY NextBooked
<1>3. Gauged /\ Inv /\ Arrived /\ [LNext]_lvars => Arrived'
  BY NextArrived
<1>4. Arrived => FirstComeFirstServed
  BY DEF Arrived
<1> QED
  BY <1>1, <1>2, <1>3, <1>4, LedgerGauged, PTL DEF LSpec

----------------------------------------------------------------------------
(***************************************************************************)
(* "ordered": the turn goes round.                                         *)
(***************************************************************************)

LEMMA OnceAround ==
    ASSUME NEW n \in Nat \ {0}, NEW x \in 0..(2 * n - 1)
    PROVE  x % n = IF x < n THEN x ELSE x - n
<1>1. CASE x < n
  BY <1>1
<1>2. CASE ~(x < n)
  <2>1. x - n \in 0..(n - 1)
    BY <1>2
  <2> QED
    BY <1>2, <2>1
<1> QED
  BY <1>1, <1>2

LEMMA LeastExists ==
    ASSUME NEW S \in SUBSET Nat, S # {}
    PROVE  Min(S) \in S /\ \A y \in S : Min(S) <= y
<1>1. PICK x \in S : \A y \in S : ~(<<y, x>> \in OpToRel(<, Nat))
  BY NatLessThanWellFounded, WFMin
<1>2. ASSUME NEW y \in S PROVE x <= y
  <2>1. <<y, x>> \in Nat \X Nat
    OBVIOUS
  <2>2. ~(y < x)
    BY <1>1, <2>1 DEF OpToRel
  <2> QED
    BY <2>2
<1> QED
  BY <1>2 DEF Min

\* Who has had his turn in the round that is under way.
Had(a) == IF a <= order[turn] THEN 1 ELSE 0

(***************************************************************************)
(* Those who were there all along have had equally many turns, apart from  *)
(* the round under way, in which those up to the one who has the turn are  *)
(* one ahead.                                                              *)
(***************************************************************************)
Rotating ==
    /\ steady \subseteq Fighting
    /\ ~started => \A a \in Actors : taken[a] = 0
    /\ config.kind = "ordered" /\ started =>
          /\ turn \in DOMAIN order /\ order[turn] \in Actors
          /\ ~cut => /\ order[turn] \in Fighting
                     /\ \A a, b \in steady : taken[a] + Had(b) = taken[b] + Had(a)

\* The next place is one of the round, and nobody alive stands between.
LEMMA NextPlaceIs ==
    ASSUME NEW S \in SUBSET Nat, IsFiniteSet(S), S # {},
           NEW q, q = Sorted(S), NEW i \in 0..Len(q), NEW alive
    PROVE  /\ NextPlace(q, i, alive) \in DOMAIN q /\ q[NextPlace(q, i, alive)] \in S
           /\ i \in DOMAIN q =>
                 \A b \in alive \cap S :
                    /\ q[i] < q[NextPlace(q, i, alive)]
                          => b <= q[i] \/ q[NextPlace(q, i, alive)] <= b
                    /\ q[NextPlace(q, i, alive)] <= q[i]
                          => b <= q[i] /\ q[NextPlace(q, i, alive)] <= b
<1> DEFINE n == Cardinality(S)
           Place(k) == ((i + k - 1) % n) + 1
           steps == {k \in 1..n : q[Place(k)] \in alive}
           k == IF steps = {} THEN n ELSE Min(steps)
           p == Place(k)
<1>1. /\ n \in Nat /\ q \in [1..n -> S] /\ DOMAIN q = 1..n
      /\ \A x, y \in 1..n : x < y => q[x] < q[y]
      /\ \A b \in S : \E x \in 1..n : q[x] = b
  BY SortedIs
<1>2. n # 0
  BY FS_EmptySet
<1>3. Len(q) = n
  <2>1. q \in Seq(S)
    BY <1>1, SeqDef
  <2> QED
    BY <1>1, <2>1, LenProperties
<1>4. NextPlace(q, i, alive) = p
  BY <1>3 DEF NextPlace
<1>5. ASSUME NEW j \in 1..n
      PROVE  /\ Place(j) \in 1..n
             /\ i \in 1..n => Place(j) = IF i + j <= n THEN i + j ELSE i + j - n
  <2> DEFINE x == i + j - 1
  <2>1. x \in 0..(2 * n - 1) /\ n \in Nat \ {0}
    BY <1>1, <1>2, <1>3
  <2>2. Place(j) = (x % n) + 1
    OBVIOUS
  <2> HIDE DEF n, x, Place
  <2>3. x % n = IF x < n THEN x ELSE x - n
    BY <2>1, OnceAround
  <2>4. Place(j) \in 1..n /\ Place(j) = IF x < n THEN x + 1 ELSE x - n + 1
    BY <2>1, <2>2, <2>3
  <2> QED
    BY <1>3, <2>1, <2>4 DEF x
<1>6. k \in 1..n /\ \A j \in steps : k <= j
  <2>1. CASE steps = {}
    <3>1. k = n /\ \A j \in steps : FALSE
      BY <2>1
    <3> HIDE DEF k, steps, n
    <3> QED
      BY <1>1, <1>2, <3>1
  <2>2. CASE steps # {}
    <3>1. steps \subseteq 1..n /\ 1..n \subseteq Nat
      BY <1>1
    <3>2. k = Min(steps)
      BY <2>2
    <3> HIDE DEF k, steps
    <3> QED
      BY <2>2, <3>1, <3>2, LeastExists
  <2> QED
    BY <2>1, <2>2
<1> HIDE DEF k, n
<1>7. p \in 1..n /\ q[p] \in S
  BY <1>1, <1>5, <1>6
<1>8. ASSUME i \in 1..n, NEW b \in alive \cap S
      PROVE  /\ q[i] < q[p] => b <= q[i] \/ q[p] <= b
             /\ q[p] <= q[i] => b <= q[i] /\ q[p] <= b
  <2>1. PICK m \in 1..n : q[m] = b
    BY <1>1
  <2> DEFINE j == IF m > i THEN m - i ELSE m - i + n
  <2>2. j \in 1..n
    BY <1>1, <1>8
  <2>3. Place(j) = m
    <3>1. Place(j) = IF i + j <= n THEN i + j ELSE i + j - n
      BY <1>5, <1>8, <2>2
    <3> HIDE DEF Place
    <3> QED
      BY <1>1, <1>8, <3>1
  <2>4. j \in steps
    BY <1>8, <2>1, <2>2, <2>3
  <2>5. k <= j /\ k \in 1..n
    BY <1>6, <2>4
  <2>6. p = IF i + k <= n THEN i + k ELSE i + k - n
    BY <1>5, <1>6, <1>8
  <2> HIDE DEF p, steps, Place
  <2>7. /\ i < p => m <= i \/ p <= m
        /\ p <= i => m <= i /\ p <= m
    BY <1>1, <1>8, <2>2, <2>5, <2>6
  <2>8. ASSUME NEW x \in 1..n, NEW y \in 1..n
        PROVE  (x <= y => q[x] <= q[y]) /\ (q[x] <= q[y] => x <= y)
    <3>1. q[x] \in Nat /\ q[y] \in Nat /\ x \in Int /\ y \in Int
      <4>1. q[x] \in S /\ q[y] \in S
        BY <1>1
      <4>2. x \in Int /\ y \in Int
        BY <1>1
      <4>3. S \subseteq Nat
        OBVIOUS
      <4> QED
        BY <4>1, <4>2, <4>3
    <3>2. x < y \/ x = y \/ y < x
      BY <3>1
    <3> QED
      BY <1>1, <3>1, <3>2
  <2>9. p \in 1..n /\ i \in Int /\ p \in Int
    BY <1>1, <1>7, <1>8
  <2>10. q[i] \in Nat /\ q[p] \in Nat
    BY <1>1, <1>7, <1>8
  <2>11. (i <= p => q[i] <= q[p]) /\ (q[p] <= q[i] => p <= i)
    BY <1>8, <2>8, <2>9
  <2>12. q[i] < q[p] => i < p
    <3>1. p <= i => q[p] <= q[i]
      BY <1>8, <2>8, <2>9
    <3> QED
      BY <2>9, <2>10, <3>1
  <2>13. m <= i => b <= q[i]
    BY <1>8, <2>1, <2>8
  <2>14. p <= m => q[p] <= b
    BY <2>1, <2>8, <2>9
  <2> QED
    BY <2>7, <2>11, <2>12, <2>13, <2>14
<1> QED
  BY <1>1, <1>4, <1>7, <1>8

\* The turn goes on from one who is alive, or is given for the first time.
LEMMA TurnGivenRotates ==
    ASSUME Gauged, Booked, Rotating, config.kind = "ordered", started,
           UNCHANGED <<config, started>>,
           NEW S \in SUBSET Actors, Fighting \subseteq S, order[turn] \in S, ~cut,
           NEW alive, steady' \subseteq steady, steady' \subseteq alive,
           order' = Sorted(S), turn' = NextPlace(order', PlaceOf(order'), alive),
           Counts(order'[turn'])
    PROVE  /\ turn' \in DOMAIN order' /\ order'[turn'] \in Actors
           /\ \A a, b \in steady' : taken'[a] + Had(b)' = taken'[b] + Had(a)'
<1> DEFINE q == order'
           i == PlaceOf(q)
           h == order[turn]
           g == q[turn']
<1>1. /\ S \in SUBSET Nat /\ IsFiniteSet(S) /\ S # {}
  BY ActorsAssumption, FS_Subset DEF Actors
<1>2. /\ q \in [1..Cardinality(S) -> S] /\ Cardinality(S) \in Nat
      /\ \A b \in S : \E x \in 1..Cardinality(S) : q[x] = b
  BY <1>1, SortedIs
<1>3. i \in DOMAIN q /\ q[i] = h
  <2>1. h \in Range(q) /\ \E x \in DOMAIN q : q[x] = h
    BY <1>2 DEF Range
  <2>2. turn \in DOMAIN order
    BY DEF Rotating
  <2>3. i = CHOOSE x \in DOMAIN q : q[x] = h
    BY <2>1, <2>2 DEF PlaceOf
  <2> HIDE DEF i, q, h
  <2> QED
    BY <2>1, <2>3
<1>4. i \in 0..Len(q)
  <2>1. q \in Seq(S)
    BY <1>2, SeqDef
  <2> QED
    BY <1>3, <2>1, LenProperties
<1>5. /\ turn' \in DOMAIN q /\ g \in S
      /\ \A b \in alive \cap S :
            /\ h < g => b <= h \/ g <= b
            /\ g <= h => b <= h /\ g <= b
  <2> HIDE DEF i, q
  <2> QED
    BY <1>1, <1>3, <1>4, NextPlaceIs DEF q, i
<1>6. ASSUME NEW a \in steady'
      PROVE  /\ a \in steady /\ a \in alive \cap S /\ a \in Actors /\ a \in Nat
             /\ taken[a] \in Nat
             /\ taken'[a] = IF a = g THEN taken[a] + 1 ELSE taken[a]
  <2>1. a \in steady /\ a \in alive \cap S /\ a \in Actors
    BY DEF Rotating
  <2>2. a \in Nat /\ taken[a] \in Nat
    BY <2>1, ActorsAssumption DEF Actors, Booked
  <2>3. taken'[a] = IF a = g THEN taken[a] + 1 ELSE taken[a]
    BY <2>1, CountsBooked
  <2> QED
    BY <2>1, <2>2, <2>3
<1>7. h \in Nat /\ g \in Nat
  BY <1>1, <1>5
<1>8. ASSUME NEW a \in steady', NEW b \in steady'
      PROVE  taken'[a] + Had(b)' = taken'[b] + Had(a)'
  <2>1. taken[a] + Had(b) = taken[b] + Had(a)
    BY <1>6 DEF Rotating
  <2>2. /\ Had(a) = IF a <= h THEN 1 ELSE 0
        /\ Had(b) = IF b <= h THEN 1 ELSE 0
        /\ Had(a)' = IF a <= g THEN 1 ELSE 0
        /\ Had(b)' = IF b <= g THEN 1 ELSE 0
    BY DEF Had
  <2>3. /\ h < g => (a <= h \/ g <= a) /\ (b <= h \/ g <= b)
        /\ g <= h => a <= h /\ g <= a /\ b <= h /\ g <= b
    <3>1. a \in alive \cap S /\ b \in alive \cap S
      BY <1>6
    <3>2. (h < g => a <= h \/ g <= a) /\ (g <= h => a <= h /\ g <= a)
      BY <1>5, <3>1
    <3>3. (h < g => b <= h \/ g <= b) /\ (g <= h => b <= h /\ g <= b)
      BY <1>5, <3>1
    <3> QED
      BY <3>2, <3>3
  <2>4. /\ a \in Nat /\ taken[a] \in Nat
        /\ taken'[a] = IF a = g THEN taken[a] + 1 ELSE taken[a]
        /\ b \in Nat /\ taken[b] \in Nat
        /\ taken'[b] = IF b = g THEN taken[b] + 1 ELSE taken[b]
    BY <1>6
  <2> HIDE DEF h, g
  <2> QED
    BY <1>7, <2>1, <2>2, <2>3, <2>4
<1> QED
  BY <1>5, <1>8

LEMMA MoveTurnRotates ==
    ASSUME Gauged, Booked, Rotating, MoveTurn, Counts(order'[turn']),
           steady' = (IF started THEN steady ELSE engaged') \cap living',
           cut' = (cut \/ HolderFallen')
    PROVE  Rotating'
<1> DEFINE q == Sorted(Fighting)
<1>1. /\ config.kind = "ordered" /\ Fighting # {} /\ started' = TRUE
      /\ order' = q /\ UNCHANGED <<config, living, engaged>>
      /\ started => turn' = NextPlace(q, PlaceOf(q), Fighting)
      /\ ~started => turn' = 1
  BY DEF MoveTurn, table
<1>2. /\ Fighting \in SUBSET Nat /\ IsFiniteSet(Fighting) /\ Fighting \subseteq Actors
      /\ Fighting' = Fighting
  <2>1. Fighting \subseteq Actors /\ Fighting' = Fighting
    BY <1>1 DEF Gauged, Fighting
  <2> QED
    BY <2>1, ActorsAssumption, FS_Subset DEF Actors
<1>3. /\ q \in [1..Cardinality(Fighting) -> Fighting] /\ Cardinality(Fighting) \in Nat
      /\ \A k, l \in 1..Cardinality(Fighting) : k < l => q[k] < q[l]
      /\ \A b \in Fighting : \E x \in 1..Cardinality(Fighting) : q[x] = b
  BY <1>2, SortedIs
<1>4. steady' \subseteq Fighting'
  BY <1>1, <1>2 DEF Rotating, Fighting
<1>5. CASE ~started
  <2>1. Cardinality(Fighting) # 0
    BY <1>1, <1>2, FS_EmptySet
  <2>2. 1 \in DOMAIN q /\ turn' = 1 /\ q[1] \in Fighting
    BY <1>1, <1>3, <1>5, <2>1
  <2>3. ASSUME NEW a \in steady'
        PROVE  /\ a \in Actors /\ a \in Nat /\ q[1] <= a
               /\ taken'[a] = IF a = q[1] THEN 1 ELSE 0
    <3>1. a \in Fighting /\ a \in Actors /\ a \in Nat
      BY <1>2, <1>4
    <3>2. PICK x \in 1..Cardinality(Fighting) : q[x] = a
      BY <1>3, <3>1
    <3>3. q[1] <= q[x]
      <4>1. q[1] \in Nat /\ q[x] \in Nat
        BY <1>2, <2>2, <3>1, <3>2
      <4>2. 1 < x => q[1] < q[x]
        BY <1>3, <2>2
      <4>3. x = 1 \/ 1 < x
        BY <1>3
      <4> HIDE DEF q
      <4> QED
        BY <4>1, <4>2, <4>3
    <3>4. taken[a] = 0
      BY <1>5, <3>1 DEF Rotating
    <3>5. taken'[a] = IF a = q[1] THEN taken[a] + 1 ELSE taken[a]
      BY <1>1, <2>2, <3>1, CountsBooked
    <3> QED
      BY <3>1, <3>2, <3>3, <3>4, <3>5
  <2>4. \A a \in steady' : Had(a)' = IF a <= q[1] THEN 1 ELSE 0
    BY <1>1, <2>2 DEF Had
  <2>5. ASSUME NEW a \in steady' PROVE taken'[a] = Had(a)'
    <3>1. q[1] \in Nat
      BY <1>2, <2>2
    <3> HIDE DEF q
    <3> QED
      BY <2>3, <2>4, <3>1
  <2>6. ASSUME NEW a \in steady', NEW b \in steady'
        PROVE  taken'[a] + Had(b)' = taken'[b] + Had(a)'
    <3>1. Had(a)' \in Nat /\ Had(b)' \in Nat
      BY DEF Had
    <3> QED
      BY <2>5, <3>1
  <2>7. turn' \in DOMAIN order' /\ order'[turn'] \in Actors /\ order'[turn'] \in Fighting'
    BY <1>1, <1>2, <2>2
  <2> QED
    BY <1>1, <1>4, <2>6, <2>7 DEF Rotating
<1>6. CASE started
  <2>1. turn' \in DOMAIN order' /\ order'[turn'] \in Fighting'
    <3>1. PlaceOf(q) \in 0..Len(q)
      <4>1. q \in Seq(Fighting)
        BY <1>3, SeqDef
      <4>2. DOMAIN q = 1..Len(q) /\ Len(q) \in Nat
        BY <4>1, LenProperties
      <4>3. turn \in DOMAIN order /\ order[turn] \in Range(q) =>
               \E x \in DOMAIN q : q[x] = order[turn]
        BY DEF Range
      <4>4. PlaceOf(q) \in DOMAIN q \cup {0}
        <5> HIDE DEF q
        <5> QED
          BY <4>3 DEF PlaceOf
      <4> QED
        BY <4>2, <4>4
    <3> HIDE DEF q
    <3> QED
      BY <1>1, <1>2, <1>6, <3>1, NextPlaceIs DEF q
  <2>2. steady' \subseteq steady /\ steady' \subseteq Fighting
    BY <1>2, <1>4, <1>6
  <2>3. order'[turn'] \in Actors
    BY <1>2, <2>1
  <2>4. ASSUME ~cut
        PROVE  \A a, b \in steady' : taken'[a] + Had(b)' = taken'[b] + Had(a)'
    <3>1. order[turn] \in Fighting
      BY <1>1, <1>6, <2>4 DEF Rotating
    <3> HIDE DEF q
    <3> QED
      BY <1>1, <1>2, <1>6, <2>2, <2>4, <3>1, TurnGivenRotates DEF q
  <2>5. ~cut' => ~cut
    OBVIOUS
  <2> QED
    BY <1>1, <1>4, <2>1, <2>3, <2>4, <2>5 DEF Rotating
<1> QED
  BY <1>5, <1>6

\* Only who has the turn acts, and it goes on from him.
LEMMA UsePlaceRotates ==
    ASSUME Gauged, Booked, Rotating, config.kind = "ordered", started,
           NEW a \in Actors, NEW target \in Actors, NEW kind, Act(a, target, kind),
           Counts(order'[turn']),
           steady' = steady \cap living', cut' = (cut \/ HolderFallen')
    PROVE  Rotating'
<1> DEFINE S == living \cap engaged'
           q == Sorted(S)
           alive == living' \cap engaged'
<1>1. /\ UNCHANGED <<config, started>> /\ living' \subseteq Actors
      /\ engaged' = engaged \cup {a, target}
  BY ActGauged DEF Act
<1>2. /\ PlaceOf(q) # 0 /\ q[PlaceOf(q)] = a
      /\ order' = q /\ turn' = NextPlace(q, PlaceOf(q), alive)
  BY DEF Act, UsePlace
<1>3. /\ S \in SUBSET Actors /\ S \in SUBSET Nat /\ IsFiniteSet(S) /\ Fighting \subseteq S
  <2>1. S \subseteq Actors /\ Fighting \subseteq S
    BY <1>1 DEF Gauged, Fighting
  <2> QED
    BY <2>1, ActorsAssumption, FS_Subset DEF Actors
<1>4. q \in [1..Cardinality(S) -> S] /\ Cardinality(S) \in Nat
  BY <1>3, SortedIs
<1>5. turn \in DOMAIN order /\ order[turn] \in Range(q) /\ Range(q) \subseteq S
  <2>1. Range(q) \subseteq S
    <3> HIDE DEF q, S
    <3> QED
      BY <1>4 DEF Range
  <2> HIDE DEF q
  <2> QED
    BY <1>2, <2>1 DEF PlaceOf
<1>6. PlaceOf(q) \in DOMAIN q /\ S # {}
  <2>1. \E x \in DOMAIN q : q[x] = order[turn]
    BY <1>5 DEF Range
  <2>2. PlaceOf(q) = CHOOSE x \in DOMAIN q : q[x] = order[turn]
    BY <1>5 DEF PlaceOf
  <2> HIDE DEF q
  <2> QED
    BY <1>5, <2>1, <2>2
<1>7. PlaceOf(q) \in 0..Len(q)
  <2>1. q \in Seq(S)
    BY <1>4, SeqDef
  <2> HIDE DEF q
  <2> QED
    BY <1>6, <2>1, LenProperties
<1>8. turn' \in DOMAIN order' /\ order'[turn'] \in Actors
  <2> HIDE DEF S, alive
  <2> QED
    BY <1>2, <1>3, <1>6, <1>7, NextPlaceIs
<1>9. steady' \subseteq steady /\ steady' \subseteq alive /\ steady' \subseteq Fighting'
  BY <1>1 DEF Rotating, Fighting
<1>10. ASSUME ~cut
       PROVE  \A b, c \in steady' : taken'[b] + Had(c)' = taken'[c] + Had(b)'
  <2>1. order[turn] \in S
    BY <1>5
  <2> HIDE DEF S, alive
  <2> QED
    BY <1>1, <1>2, <1>3, <1>9, <1>10, <2>1, TurnGivenRotates
<1>11. ~cut' => ~cut /\ order'[turn'] \in Fighting'
  BY <1>8 DEF HolderFallen
<1> QED
  BY <1>1, <1>8, <1>9, <1>10, <1>11 DEF Rotating

\* Turns are neither given nor counted.
LEMMA IdleRotates ==
    ASSUME Gauged, Rotating, UNCHANGED <<config, started, rotation>>, taken' = taken,
           engaged \subseteq engaged',
           steady' = (IF started THEN steady ELSE engaged') \cap living',
           cut' = (cut \/ HolderFallen')
    PROVE  Rotating'
<1>1. steady' \subseteq Fighting'
  BY DEF Rotating, Fighting
<1>2. started => steady' \subseteq steady
  OBVIOUS
<1>3. turn' = turn /\ order' = order
  BY DEF rotation
<1>4. config.kind = "ordered" /\ started /\ ~cut' => order'[turn'] \in Fighting'
  BY <1>3 DEF Rotating, HolderFallen
<1>5. \A a : Had(a)' = Had(a)
  BY <1>3 DEF Had
<1> QED
  BY <1>1, <1>2, <1>3, <1>4, <1>5 DEF Rotating

LEMMA InitRotates == LInit => Rotating
BY DEF LInit, Init, Rotating, Fighting, Actors

LEMMA NextRotates == Gauged /\ Booked /\ Rotating /\ [LNext]_lvars => Rotating'
<1> SUFFICES ASSUME Gauged, Booked, Rotating, [LNext]_lvars PROVE Rotating'
  OBVIOUS
<1>1. CASE UNCHANGED lvars
  BY <1>1 DEF lvars, vars, books, table, rotation, Rotating, Fighting, Had
<1> SUFFICES ASSUME LNext PROVE Rotating'
  BY <1>1
<1>2. /\ cut' = (cut \/ HolderFallen')
      /\ steady' = (IF started THEN steady ELSE engaged') \cap living'
  BY DEF LNext
<1>3. CASE TimeMoves
  <2>1. /\ config.kind = "threshold" /\ UNCHANGED <<config, living, engaged, taken>>
        /\ started' = TRUE
    BY <1>3 DEF TimeMoves, MoveTime, table
  <2>2. steady' \subseteq Fighting'
    BY <1>2, <2>1 DEF Rotating, Fighting
  <2> QED
    BY <2>1, <2>2 DEF Rotating
<1>4. CASE TurnMoves
  BY <1>2, <1>4, MoveTurnRotates DEF TurnMoves
<1>5. CASE Narrated
  <2>1. UNCHANGED <<config, started, rotation, taken, engaged>>
    BY <1>5 DEF Narrated, Fall, Rise
  <2> QED
    BY <1>2, <2>1, IdleRotates
<1>6. ASSUME NEW a \in Actors, NEW target \in Actors, NEW kind \in Effects,
             ActorActs(a, target, kind)
      PROVE  Rotating'
  <2>1. Act(a, target, kind) /\ engaged \subseteq engaged' /\ UNCHANGED <<config, started>>
    BY <1>6 DEF ActorActs, Act
  <2>2. CASE ~started
    <3>1. UNCHANGED <<rotation, taken>>
      BY <1>6, <2>2 DEF ActorActs, Act
    <3> QED
      BY <1>2, <2>1, <3>1, IdleRotates
  <2>3. CASE started /\ config.kind = "threshold"
    <3>1. steady' \subseteq Fighting'
      BY <1>2, <2>1 DEF Rotating, Fighting
    <3> QED
      BY <2>1, <2>3, <3>1 DEF Rotating
  <2>4. CASE started /\ config.kind = "ordered"
    <3>1. Counts(order'[turn'])
      BY <1>6, <2>4 DEF ActorActs
    <3>2. steady' = steady \cap living'
      BY <1>2, <2>4
    <3> QED
      BY <1>2, <2>1, <2>4, <3>1, <3>2, UsePlaceRotates
  <2> QED
    BY <2>1, <2>2, <2>3, <2>4 DEF Act
<1> QED
  BY <1>3, <1>4, <1>5, <1>6 DEF LNext

\* In a fixed order that goes round, those who were there all along have had the
\* turn equally often but for the round under way, whoever else joins or dies.
THEOREM TurnsGoRound == LSpec => []EvenTurns
<1> DEFINE Inv == Booked /\ TurnsAreEarned
<1>1. LInit => Inv /\ Rotating
  BY InitBooked, InitRotates
<1>2. Gauged /\ Inv /\ [LNext]_lvars => Inv'
  BY NextBooked
<1>3. Gauged /\ Inv /\ Rotating /\ [LNext]_lvars => Rotating'
  BY NextRotates
<1>4. Gauged /\ Inv /\ Rotating => EvenTurns
  <2> SUFFICES ASSUME Gauged, Booked, Rotating, config.kind = "ordered", ~cut,
                      NEW a \in steady, NEW b \in steady
               PROVE  taken[a] <= taken[b] + 1
    BY DEF EvenTurns
  <2>1. a \in Actors /\ b \in Actors /\ taken[a] \in Nat /\ taken[b] \in Nat
    BY DEF Rotating, Fighting, Gauged, Booked
  <2>2. CASE ~started
    BY <2>1, <2>2 DEF Rotating
  <2>3. CASE started
    <3>1. taken[a] + Had(b) = taken[b] + Had(a)
      BY <2>3 DEF Rotating
    <3>2. Had(a) \in {0, 1} /\ Had(b) \in {0, 1}
      BY DEF Had
    <3> QED
      BY <2>1, <3>1, <3>2
  <2> QED
    BY <2>2, <2>3
<1> QED
  BY <1>1, <1>2, <1>3, <1>4, LedgerGauged, PTL DEF LSpec

=============================================================================
