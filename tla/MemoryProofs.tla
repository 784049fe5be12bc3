---------------------------- MODULE MemoryProofs ----------------------------
(***************************************************************************)
(* What MemoryOutbox promises of a table's memory, proved for any effect   *)
(* groups and events, any window of the outbox and any number of rewinds,  *)
(* failures and crashes.                                                   *)
(*                                                                         *)
(* Both promises relate the aggregate to the store, and are kept only if   *)
(* the save on disk and a swipe's copy keep them, too: either may become   *)
(* the aggregate while the store stays as it is.                           *)
(***************************************************************************)
EXTENDS MemoryOutbox, WellFoundedInduction

Call == [id : Sources, undo : BOOLEAN]

\* An aggregate, as MemoryTypeOK has it; that no identity is in its box twice
\* is apart (Single).
Aggregates ==
    [round : 1..MaxRound, judging : BOOLEAN, prepared : BOOLEAN,
     world : SUBSET Events, entry : SUBSET Events,
     settled : [Settlements -> Erased..MaxRound],
     log : Seq([round : 1..MaxRound, world : SUBSET Events]),
     box : Seq(Delivery)]

\* The outbox of aggregate a fits the journal j.  An effect group that is not
\* settled is unknown.  One that is, has been told of in the round of its
\* delivery, which is not taken back as long as that round stands, and is
\* waiting if it is not journaled.
Sound(a, j) ==
    /\ a \in Aggregates
    /\ \A d \in ToSet(a.box) :
          d.status \in {"delivered", "reversal_pending", "reversed"} => j[d.id] # None
    /\ \A s \in Settlements :
          /\ a.settled[s] = Open => \A d \in ToSet(a.box) : d.id # s
          /\ a.settled[s] > Open =>
                /\ \A d \in ToSet(a.box) :
                      d.id = s => /\ d.round = a.settled[s]
                                  /\ d.status \in {"pending", "delivered"}
                /\ j[s] = None =>
                      \E d \in ToSet(a.box) : d.id = s /\ d.status = "pending"

\* A delivery brings back no row but its own.
Stored ==
    /\ rows \in [Sources -> Row]
    /\ DOMAIN journal = Sources /\ journal = [s \in Sources |-> journal[s]]
    /\ \A s \in Sources : journal[s] \in Receipt(s) \cup {None}
    /\ \A s \in Sources : journal[s] # None =>
          \A t \in Peers(s) :
             t # s /\ journal[s].before[t] = "absent" => journal[s].after[t] = "absent"

\* What the store knows of the effect groups.
Remembered ==
    \A s \in Settlements :
        /\ live.settled[s] = Open => journal[s] = None
        /\ live.settled[s] > Open /\ journal[s] # None =>
              journal[s].status = "applied" /\ rows[s] # "absent"

\* Story a may take the place of story b.
Retold(a, b) ==
    \A s \in Settlements : \/ a.settled[s] = b.settled[s]
                           \/ b.settled[s] > Open /\ a.settled[s] = Erased

Agreed == disk.settled = live.settled /\ (staged # None => Retold(staged, live))

\* What the running drain has yet to do of effect groups.
Asked ==
    drain # None =>
        /\ drain \in Seq(Call)
        /\ \A c \in ToSet(drain) :
              c.id \in Settlements => /\ live.settled[c.id] # Open
                                      /\ c.undo => live.settled[c.id] = Erased

MemoryInv ==
    /\ Sound(live, journal) /\ Sound(disk, journal)
    /\ staged # None => Sound(staged, journal)
    /\ Stored /\ Remembered /\ Agreed /\ Asked

----------------------------------------------------------------------------
(***************************************************************************)
(* The outbox as a list.                                                   *)
(***************************************************************************)
LEMMA LeastOf ==
    ASSUME NEW S \in SUBSET Nat, S # {}
    PROVE  \E x \in S : \A y \in S : x <= y
<1>1. PICK x \in S : \A y \in S : ~(<<y, x>> \in OpToRel(<, Nat))
  BY NatLessThanWellFounded, WFMin
<1>2. ASSUME NEW y \in S PROVE x <= y
  <2>1. <<y, x>> \in Nat \X Nat
    OBVIOUS
  <2>2. ~(y < x)
    BY <1>1, <2>1 DEF OpToRel
  <2> QED
    BY <2>2
<1> QED
  BY <1>2

LEMMA ListOf ==
    ASSUME NEW T, NEW s \in Seq(T)
    PROVE  /\ Len(s) \in Nat /\ DOMAIN s = 1..Len(s)
           /\ \A i \in DOMAIN s : s[i] \in T /\ s[i] \in ToSet(s)
           /\ \A x \in ToSet(s) : x \in T /\ \E i \in DOMAIN s : x = s[i]
BY LenProperties, ElementOfSeq DEF ToSet

\* A filter leaves the entries that were picked.
LEMMA Picked ==
    ASSUME NEW T, NEW s \in Seq(T), NEW I \in SUBSET DOMAIN s
    PROVE  /\ Subsequence(s, I) \in Seq(T)
           /\ \A x : x \in ToSet(Subsequence(s, I)) <=> \E i \in I : x = s[i]
<1> DEFINE part == Subsequence(s, I)
<1>1. part \in Seq(T) /\ \A i \in I : \E k \in DOMAIN part : part[k] = s[i]
  BY SubsequenceIs
<1>2. \A k \in DOMAIN part : \E i \in I : part[k] = s[i]
  BY SubsequenceIs
<1> HIDE DEF part
<1> QED
  BY <1>1, <1>2 DEF ToSet, part

LEMMA Joined ==
    ASSUME NEW T, NEW s \in Seq(T), NEW t \in Seq(T)
    PROVE  s \o t \in Seq(T) /\ \A x : x \in ToSet(s \o t) <=> x \in ToSet(s) \cup ToSet(t)
<1>1. /\ Len(s) \in Nat /\ DOMAIN s = 1..Len(s)
      /\ Len(t) \in Nat /\ DOMAIN t = 1..Len(t)
  BY LenProperties
<1>2. /\ s \o t \in Seq(T) /\ DOMAIN (s \o t) = 1..(Len(s) + Len(t))
      /\ \A i \in 1..(Len(s) + Len(t)) :
            (s \o t)[i] = IF i <= Len(s) THEN s[i] ELSE t[i - Len(s)]
  BY ConcatProperties, LenProperties
<1>3. ASSUME NEW i \in DOMAIN (s \o t) PROVE (s \o t)[i] \in ToSet(s) \cup ToSet(t)
  <2>1. CASE i <= Len(s)
    BY <1>1, <1>2, <2>1 DEF ToSet
  <2>2. CASE ~(i <= Len(s))
    <3>1. i - Len(s) \in 1..Len(t)
      BY <1>1, <1>2, <2>2
    <3> QED
      BY <1>1, <1>2, <2>2, <3>1 DEF ToSet
  <2> QED
    BY <2>1, <2>2
<1>4. ASSUME NEW i \in DOMAIN s PROVE s[i] \in ToSet(s \o t)
  <2>1. i \in DOMAIN (s \o t) /\ (s \o t)[i] = s[i]
    BY <1>1, <1>2
  <2> QED
    BY <2>1 DEF ToSet
<1>5. ASSUME NEW j \in DOMAIN t PROVE t[j] \in ToSet(s \o t)
  <2>1. /\ Len(s) + j \in 1..(Len(s) + Len(t)) /\ ~(Len(s) + j <= Len(s))
        /\ Len(s) + j - Len(s) = j
    BY <1>1
  <2>2. Len(s) + j \in DOMAIN (s \o t) /\ (s \o t)[Len(s) + j] = t[j]
    BY <1>2, <2>1
  <2> QED
    BY <2>2 DEF ToSet
<1> QED
  BY <1>2, <1>3, <1>4, <1>5 DEF ToSet

LEMMA Appended ==
    ASSUME NEW T, NEW s \in Seq(T), NEW e \in T
    PROVE  Append(s, e) \in Seq(T) /\ \A x : x \in ToSet(Append(s, e)) <=> x \in ToSet(s) \/ x = e
<1>1. /\ Append(s, e) \in Seq(T) /\ Len(s) \in Nat
      /\ DOMAIN s = 1..Len(s) /\ DOMAIN Append(s, e) = 1..Len(s) + 1
      /\ \A i \in 1..Len(s) : Append(s, e)[i] = s[i]
      /\ Append(s, e)[Len(s) + 1] = e
  OBVIOUS
<1> QED
  BY <1>1 DEF ToSet

\* Part of a list.
LEMMA Piece ==
    ASSUME NEW T, NEW s \in Seq(T), NEW m \in 1..Len(s) + 1, NEW n \in 0..Len(s)
    PROVE  SubSeq(s, m, n) \in Seq(T) /\ ToSet(SubSeq(s, m, n)) \subseteq ToSet(s)
<1>1. /\ SubSeq(s, m, n) \in Seq(T)
      /\ \A i \in DOMAIN SubSeq(s, m, n) : /\ i + m - 1 \in DOMAIN s
                                           /\ SubSeq(s, m, n)[i] = s[i + m - 1]
  OBVIOUS
<1> QED
  BY <1>1 DEF ToSet

----------------------------------------------------------------------------
(***************************************************************************)
(* One entry for each identity.                                            *)
(***************************************************************************)
Single(box) == \A i, j \in DOMAIN box : box[i].id = box[j].id => i = j

\* Part of an outbox has no identity twice, nor have two parts without a
\* position in common an identity in common.
LEMMA SinglePicked ==
    ASSUME NEW box \in Seq(Delivery), Single(box), NEW I \in SUBSET DOMAIN box
    PROVE  /\ Single(Subsequence(box, I))
           /\ \A k \in DOMAIN Subsequence(box, I) :
                 \E i \in I : Subsequence(box, I)[k] = box[i]
<1> DEFINE part == Subsequence(box, I)
<1>1. part \in Seq(Delivery)
  BY SubsequenceIs
<1>2. PICK at \in [DOMAIN part -> I] :
         \A k, l \in DOMAIN part : /\ part[k] = box[at[k]]
                                   /\ k < l => at[k] < at[l]
  BY SubsequenceIs
<1>3. DOMAIN part \in SUBSET Nat /\ DOMAIN box \in SUBSET Nat
  <2> HIDE DEF part
  <2> QED
    BY <1>1, LenProperties
<1> HIDE DEF part
<1>4. ASSUME NEW k \in DOMAIN part, NEW l \in DOMAIN part, part[k].id = part[l].id
      PROVE  k = l
  <2>1. at[k] \in I /\ at[l] \in I /\ at[k] = at[l]
    BY <1>2, <1>4 DEF Single
  <2>2. k \in Nat /\ l \in Nat /\ at[k] \in Nat /\ ~(at[k] < at[l]) /\ ~(at[l] < at[k])
    BY <1>3, <2>1
  <2>3. ~(k < l) /\ ~(l < k)
    BY <1>2, <2>2
  <2> QED
    BY <2>2, <2>3
<1> QED
  BY <1>2, <1>4 DEF Single, part

LEMMA SinglePiece ==
    ASSUME NEW box \in Seq(Delivery), Single(box),
           NEW m \in 1..Len(box) + 1, NEW n \in 0..Len(box)
    PROVE  Single(SubSeq(box, m, n))
<1> DEFINE part == SubSeq(box, m, n)
<1>1. \A i \in DOMAIN part : /\ i \in Nat /\ i + m - 1 \in DOMAIN box
                             /\ part[i] = box[i + m - 1]
  OBVIOUS
<1> HIDE DEF part
<1>2. ASSUME NEW i \in DOMAIN part, NEW j \in DOMAIN part, part[i].id = part[j].id
      PROVE  i = j
  <2>1. i + m - 1 = j + m - 1
    BY <1>1, <1>2 DEF Single
  <2> QED
    BY <1>1, <2>1
<1> QED
  BY <1>2 DEF Single, part

LEMMA SingleJoined ==
    ASSUME NEW s \in Seq(Delivery), NEW t \in Seq(Delivery), Single(s), Single(t),
           \A i \in DOMAIN s, j \in DOMAIN t : s[i].id # t[j].id
    PROVE  Single(s \o t)
<1>1. /\ Len(s) \in Nat /\ DOMAIN s = 1..Len(s)
      /\ Len(t) \in Nat /\ DOMAIN t = 1..Len(t)
  BY LenProperties
<1>2. /\ DOMAIN (s \o t) = 1..(Len(s) + Len(t))
      /\ \A i \in 1..(Len(s) + Len(t)) :
            (s \o t)[i] = IF i <= Len(s) THEN s[i] ELSE t[i - Len(s)]
  BY ConcatProperties, LenProperties
<1>3. ASSUME NEW i \in DOMAIN (s \o t), NEW j \in DOMAIN (s \o t),
             (s \o t)[i].id = (s \o t)[j].id
      PROVE  i = j
  <2>1. \A k \in DOMAIN (s \o t) :
           /\ k \in Nat
           /\ k <= Len(s) => k \in DOMAIN s /\ (s \o t)[k] = s[k]
           /\ ~(k <= Len(s)) => /\ k - Len(s) \in DOMAIN t
                                /\ (s \o t)[k] = t[k - Len(s)]
    BY <1>1, <1>2
  <2>2. CASE i <= Len(s) /\ j <= Len(s)
    BY <1>3, <2>1, <2>2 DEF Single
  <2>3. CASE ~(i <= Len(s)) /\ ~(j <= Len(s))
    <3>1. i - Len(s) = j - Len(s)
      BY <1>3, <2>1, <2>3 DEF Single
    <3> QED
      BY <1>1, <2>1, <3>1
  <2>4. CASE (i <= Len(s)) # (j <= Len(s))
    BY <1>3, <2>1, <2>4
  <2> QED
    BY <2>2, <2>3, <2>4
<1> QED
  BY <1>3 DEF Single

LEMMA SingleAppended ==
    ASSUME NEW box \in Seq(Delivery), Single(box), NEW d \in Delivery,
           \A i \in DOMAIN box : box[i].id # d.id
    PROVE  Single(Append(box, d))
<1> DEFINE longer == Append(box, d)
<1>1. /\ Len(box) \in Nat /\ DOMAIN box = 1..Len(box)
      /\ DOMAIN longer = 1..Len(box) + 1
      /\ \A i \in 1..Len(box) : longer[i] = box[i]
      /\ longer[Len(box) + 1] = d
  OBVIOUS
<1> HIDE DEF longer
<1>2. \A i \in DOMAIN longer : i \in DOMAIN box \/ i = Len(box) + 1
  BY <1>1
<1> QED
  BY <1>1, <1>2 DEF Single, longer

\* An outbox whose entries keep their identities.
LEMMA SingleRenewed ==
    ASSUME NEW old, NEW new, Single(old), DOMAIN new = DOMAIN old,
           \A i \in DOMAIN old : new[i].id = old[i].id
    PROVE  Single(new)
BY DEF Single

----------------------------------------------------------------------------
(***************************************************************************)
(* The operations of the outbox.                                           *)
(***************************************************************************)

\* What a trim keeps was there, and whatever is active is kept.
LEMMA TrimmedIs ==
    ASSUME NEW box \in Seq(Delivery)
    PROVE  /\ Trimmed(box) \in Seq(Delivery)
           /\ ToSet(Trimmed(box)) \subseteq ToSet(box)
           /\ \A d \in ToSet(box) : IsActive(d) => d \in ToSet(Trimmed(box))
<1> DEFINE act    == {i \in DOMAIN box : IsActive(box[i])}
           res    == {i \in DOMAIN box : ~IsActive(box[i])}
           active == Subsequence(box, act)
           rest   == Subsequence(box, res)
           budget == Window - Len(active)
           from   == IF Len(rest) > budget THEN Len(rest) - budget + 1 ELSE 1
           late   == SubSeq(rest, from, Len(rest))
<1>1. Trimmed(box) = IF Len(box) <= Window THEN box
                     ELSE IF budget <= 0 THEN active ELSE active \o late
  BY DEF Trimmed
<1>2. act \in SUBSET DOMAIN box /\ res \in SUBSET DOMAIN box
  OBVIOUS
<1>3. active \in Seq(Delivery) /\ rest \in Seq(Delivery)
  BY <1>2, Picked
<1>4. ToSet(active) \subseteq ToSet(box) /\ ToSet(rest) \subseteq ToSet(box)
  BY <1>2, Picked, ListOf
<1>5. \A d \in ToSet(box) : IsActive(d) => d \in ToSet(active)
  <2>1. ASSUME NEW d \in ToSet(box), IsActive(d) PROVE \E i \in act : d = box[i]
    BY <2>1, ListOf
  <2> QED
    BY <1>2, <2>1, Picked
<1> HIDE DEF act, res, active, rest
<1>6. CASE budget > 0
  <2>1. /\ Len(active) \in Nat /\ Len(rest) \in Nat /\ budget \in Nat
        /\ from \in 1..Len(rest) + 1 /\ Len(rest) \in 0..Len(rest)
    BY <1>3, <1>6, LenProperties, BoundsAssumption
  <2> HIDE DEF from
  <2>2. late \in Seq(Delivery) /\ ToSet(late) \subseteq ToSet(rest)
    BY <1>3, <2>1, Piece
  <2> HIDE DEF late, budget
  <2>3. /\ active \o late \in Seq(Delivery)
        /\ \A x : x \in ToSet(active \o late) <=> x \in ToSet(active) \cup ToSet(late)
    BY <1>3, <2>2, Joined
  <2> QED
    BY <1>1, <1>3, <1>4, <1>5, <2>2, <2>3
<1>7. CASE ~(budget > 0)
  <2>1. budget <= 0
    BY <1>3, <1>7, LenProperties, BoundsAssumption
  <2> HIDE DEF budget
  <2> QED
    BY <1>1, <1>3, <1>4, <1>5, <2>1
<1> QED
  BY <1>6, <1>7

LEMMA SingleTrimmed ==
    ASSUME NEW box \in Seq(Delivery), Single(box)
    PROVE  Single(Trimmed(box))
<1> DEFINE act    == {i \in DOMAIN box : IsActive(box[i])}
           res    == {i \in DOMAIN box : ~IsActive(box[i])}
           active == Subsequence(box, act)
           rest   == Subsequence(box, res)
           budget == Window - Len(active)
           from   == IF Len(rest) > budget THEN Len(rest) - budget + 1 ELSE 1
           late   == SubSeq(rest, from, Len(rest))
<1>1. Trimmed(box) = IF Len(box) <= Window THEN box
                     ELSE IF budget <= 0 THEN active ELSE active \o late
  BY DEF Trimmed
<1>2. act \in SUBSET DOMAIN box /\ res \in SUBSET DOMAIN box
  OBVIOUS
<1>3. active \in Seq(Delivery) /\ rest \in Seq(Delivery)
  BY <1>2, Picked
<1>4. /\ Single(active) /\ Single(rest)
      /\ \A k \in DOMAIN active : \E i \in act : active[k] = box[i]
      /\ \A k \in DOMAIN rest : \E i \in res : rest[k] = box[i]
  BY <1>2, SinglePicked
<1>5. \A i \in act, j \in res : box[i].id # box[j].id
  BY DEF Single
<1> HIDE DEF act, res, active, rest
<1>6. CASE budget > 0
  <2>1. /\ Len(active) \in Nat /\ Len(rest) \in Nat /\ budget \in Nat
        /\ from \in 1..Len(rest) + 1 /\ Len(rest) \in 0..Len(rest)
    BY <1>3, <1>6, LenProperties, BoundsAssumption
  <2> HIDE DEF from
  <2>2. late \in Seq(Delivery) /\ Single(late)
    BY <1>3, <1>4, <2>1, Piece, SinglePiece
  <2>3. \A k \in DOMAIN late : \E j \in res : late[k] = box[j]
    <3>1. \A k \in DOMAIN late : k + from - 1 \in DOMAIN rest /\ late[k] = rest[k + from - 1]
      BY <1>3, <2>1
    <3> HIDE DEF late
    <3> QED
      BY <1>4, <3>1
  <2> HIDE DEF late, budget
  <2>4. ASSUME NEW k \in DOMAIN active, NEW l \in DOMAIN late PROVE active[k].id # late[l].id
    BY <1>4, <1>5, <2>3
  <2>5. Single(active \o late)
    BY <1>3, <1>4, <2>2, <2>4, SingleJoined
  <2> QED
    BY <1>1, <1>4, <2>5
<1>7. CASE ~(budget > 0)
  <2>1. budget <= 0
    BY <1>3, <1>7, LenProperties, BoundsAssumption
  <2> HIDE DEF budget
  <2> QED
    BY <1>1, <1>4, <2>1
<1> QED
  BY <1>6, <1>7

\* Outbox new is what old is after sources of S were queued in round r.
Grown(old, new, S, r) ==
    /\ new \in Seq(Delivery)
    /\ \A d \in ToSet(new) :
          d \in ToSet(old) \/ (d.id \in S /\ d.round = r /\ d.status = "pending")
    /\ \A d \in ToSet(old) : IsActive(d) => d \in ToSet(new)
    /\ Single(old) => Single(new)

LEMMA QueuedIs ==
    ASSUME NEW box \in Seq(Delivery), NEW s \in Sources, NEW r \in 1..MaxRound
    PROVE  /\ Grown(box, Queued(box, s, r), {s}, r)
           /\ (\A d \in ToSet(box) : d.id # s) =>
                 [id |-> s, round |-> r, status |-> "pending"] \in ToSet(Queued(box, s, r))
<1> DEFINE new == [id |-> s, round |-> r, status |-> "pending"]
<1>1. new \in Delivery /\ new.id = s /\ new.round = r /\ new.status = "pending" /\ IsActive(new)
  BY DEF Delivery, Statuses, IsActive
<1>2. /\ Len(box) \in Nat /\ DOMAIN box = 1..Len(box)
      /\ \A i \in DOMAIN box : box[i] \in Delivery /\ box[i] \in ToSet(box)
      /\ \A d \in ToSet(box) : \E i \in DOMAIN box : d = box[i]
  BY ListOf
<1>3. CASE \E i \in DOMAIN box : box[i].id = s
  <2> DEFINE revived == [i \in DOMAIN box |->
                            IF box[i].id = s /\ box[i].status = "superseded"
                            THEN new ELSE box[i]]
  <2>1. Queued(box, s, r) = revived
    BY <1>3 DEF Queued
  <2> HIDE DEF new
  <2>2. revived \in [1..Len(box) -> Delivery]
    BY <1>1, <1>2
  <2>3. revived \in Seq(Delivery)
    <3> HIDE DEF revived
    <3> QED
      BY <1>2, <2>2, SeqDef
  <2>4. ASSUME NEW d \in ToSet(revived) PROVE d \in ToSet(box) \/ d = new
    <3>1. PICK i \in DOMAIN revived : d = revived[i]
      BY DEF ToSet
    <3> QED
      BY <1>2, <3>1
  <2>5. ASSUME NEW d \in ToSet(box), IsActive(d) PROVE d \in ToSet(revived)
    <3>1. PICK i \in DOMAIN box : d = box[i]
      BY <1>2
    <3>2. i \in DOMAIN revived /\ revived[i] = d
      BY <2>5, <3>1 DEF IsActive
    <3> QED
      BY <3>2 DEF ToSet
  <2>6. ~(\A d \in ToSet(box) : d.id # s)
    BY <1>2, <1>3
  <2>7. DOMAIN revived = DOMAIN box /\ \A i \in DOMAIN box : revived[i].id = box[i].id
    BY <1>1
  <2> HIDE DEF revived
  <2>8. Single(box) => Single(revived)
    BY <2>7, SingleRenewed
  <2>9. Grown(box, revived, {s}, r)
    BY <1>1, <2>3, <2>4, <2>5, <2>8 DEF Grown
  <2> QED
    BY <2>1, <2>6, <2>9
<1>4. CASE ~(\E i \in DOMAIN box : box[i].id = s)
  <2> DEFINE longer == Append(box, new)
  <2>1. Queued(box, s, r) = Trimmed(longer)
    BY <1>4 DEF Queued
  <2> HIDE DEF new
  <2>2. longer \in Seq(Delivery) /\ \A x : x \in ToSet(longer) <=> x \in ToSet(box) \/ x = new
    BY <1>1, Appended
  <2>3. Single(box) => Single(longer)
    BY <1>1, <1>4, SingleAppended
  <2> HIDE DEF longer
  <2>4. /\ Trimmed(longer) \in Seq(Delivery)
        /\ ToSet(Trimmed(longer)) \subseteq ToSet(longer)
        /\ \A d \in ToSet(longer) : IsActive(d) => d \in ToSet(Trimmed(longer))
        /\ Single(longer) => Single(Trimmed(longer))
    BY <2>2, TrimmedIs, SingleTrimmed
  <2>5. Grown(box, Trimmed(longer), {s}, r)
    BY <1>1, <2>2, <2>3, <2>4 DEF Grown
  <2>6. new \in ToSet(Trimmed(longer))
    BY <1>1, <2>2, <2>4
  <2> QED
    BY <2>1, <2>5, <2>6 DEF new
<1> QED
  BY <1>3, <1>4

\* Of several things that can happen at once, in any order.
LEMMA BatchIs ==
    ASSUME NEW E \in SUBSET Events, NEW es \in Batches(E)
    PROVE  es \in Seq(Events)
<1>1. PICK S \in SUBSET E : es \in SetToSeqs(S)
  BY DEF Batches
<1>2. IsFiniteSet(S)
  BY NamesAssumption, FS_Subset
<1>3. Cardinality(S) \in Nat /\ es \in [1..Cardinality(S) -> S]
  BY <1>1, <1>2, FS_CardinalityType DEF SetToSeqs
<1>4. es \in [1..Cardinality(S) -> Events]
  BY <1>3
<1> QED
  BY <1>3, <1>4, SeqDef

LEMMA GrownOnce ==
    ASSUME NEW box \in Seq(Delivery), NEW s \in Events, NEW r \in 1..MaxRound,
           NEW mid, Grown(box, mid, Events, r)
    PROVE  Grown(box, Queued(mid, s, r), Events, r)
<1>1. mid \in Seq(Delivery) /\ s \in Sources
  BY DEF Grown, Sources
<1>2. Grown(mid, Queued(mid, s, r), {s}, r)
  BY <1>1, QueuedIs
<1> QED
  BY <1>2 DEF Grown

\* The function by which QueuedAll works through its list exists, whatever the
\* list, and each of its values has grown out of the outbox.
LEMMA QueuedAllIs ==
    ASSUME NEW box \in Seq(Delivery), NEW es \in Seq(Events), NEW r \in 1..MaxRound
    PROVE  Grown(box, QueuedAll(box, es, r), Events, r)
<1> DEFINE n     == Len(es)
           Built(f, m) == [k \in 0..m |-> IF k = 0 THEN box ELSE Queued(f[k - 1], es[k], r)]
           after == CHOOSE f : f = Built(f, n)
           Without == {m \in Nat : ~(\E f : f = Built(f, m))}
           Off     == {k \in Nat : k <= n /\ ~Grown(box, after[k], Events, r)}
<1>1. QueuedAll(box, es, r) = after[n]
  BY DEF QueuedAll
<1>2. Without = {}
  <2>1. SUFFICES ASSUME Without # {} PROVE FALSE
    OBVIOUS
  <2>2. PICK m \in Without : \A p \in Without : m <= p
    <3>1. Without \in SUBSET Nat
      OBVIOUS
    <3> HIDE DEF Without
    <3> QED
      BY <2>1, <3>1, LeastOf
  <2>3. m \in Nat /\ ~(\E f : f = Built(f, m))
    OBVIOUS
  <2>4. CASE m = 0
    <3> DEFINE f == [k \in 0..m |-> box]
    <3>1. f = Built(f, m)
      BY <2>3, <2>4
    <3> QED
      BY <2>3, <3>1
  <2>5. CASE m # 0
    <3>1. m \in Nat /\ m - 1 \in Nat /\ ~(m <= m - 1)
      BY <2>3, <2>5
    <3>2. PICK f : f = Built(f, m - 1)
      BY <2>2, <3>1
    <3> HIDE DEF Without
    <3> DEFINE g == [k \in 0..m |-> IF k = 0 THEN box
                                    ELSE IF k = m THEN Queued(f[m - 1], es[m], r) ELSE f[k]]
    <3>3. ASSUME NEW k \in 0..(m - 1) PROVE g[k] = f[k]
      <4>1. f[k] = IF k = 0 THEN box ELSE Queued(f[k - 1], es[k], r)
        BY <3>2
      <4>2. k \in 0..m /\ k # m
        BY <3>1
      <4> QED
        BY <4>1, <4>2
    <3>4. ASSUME NEW k \in 0..m
          PROVE  g[k] = IF k = 0 THEN box ELSE Queued(g[k - 1], es[k], r)
      <4>1. CASE k = 0
        BY <4>1
      <4>2. CASE k = m /\ k # 0
        <5>1. m - 1 \in 0..(m - 1)
          BY <3>1
        <5> QED
          BY <3>3, <4>2, <5>1
      <4>3. CASE k # 0 /\ k # m
        <5>1. k \in 0..(m - 1) /\ k - 1 \in 0..(m - 1)
          BY <3>1, <4>3
        <5>2. f[k] = Queued(f[k - 1], es[k], r)
          BY <3>2, <4>3, <5>1
        <5>3. g[k] = f[k] /\ g[k - 1] = f[k - 1]
          BY <3>3, <5>1
        <5> HIDE DEF g
        <5> QED
          BY <4>3, <5>2, <5>3
      <4> QED
        BY <4>1, <4>2, <4>3
    <3>5. g = [k \in 0..m |-> g[k]]
      OBVIOUS
    <3> HIDE DEF g
    <3>6. g = Built(g, m)
      BY <3>4, <3>5
    <3> HIDE DEF Built
    <3> QED
      BY <2>3, <3>6
  <2> QED
    BY <2>4, <2>5
<1>3. n \in Nat /\ \A k \in 1..n : es[k] \in Events
  BY LenProperties, ElementOfSeq
<1>4. after = Built(after, n)
  <2>1. \E f : f = Built(f, n)
    BY <1>2, <1>3
  <2> HIDE DEF Built, n
  <2> QED
    BY <2>1
<1> HIDE DEF after, Without
<1>5. after[0] = box /\ \A k \in 1..n : after[k] = Queued(after[k - 1], es[k], r)
  <2> HIDE DEF n
  <2> QED
    BY <1>3, <1>4
<1> HIDE DEF n
<1>6. Off = {}
  <2>1. SUFFICES ASSUME Off # {} PROVE FALSE
    OBVIOUS
  <2>2. PICK k \in Off : \A p \in Off : k <= p
    <3>1. Off \in SUBSET Nat
      OBVIOUS
    <3> HIDE DEF Off
    <3> QED
      BY <2>1, <3>1, LeastOf
  <2>3. k \in Nat /\ k <= n /\ ~Grown(box, after[k], Events, r)
    OBVIOUS
  <2>4. CASE k = 0
    <3>1. Grown(box, box, Events, r)
      BY DEF Grown
    <3> QED
      BY <1>5, <2>3, <2>4, <3>1
  <2>5. CASE k # 0
    <3>1. k \in 1..n /\ k - 1 \in Nat /\ k - 1 <= n /\ ~(k <= k - 1)
      BY <1>3, <2>3, <2>5
    <3>2. Grown(box, after[k - 1], Events, r)
      BY <2>2, <3>1
    <3>3. after[k] = Queued(after[k - 1], es[k], r) /\ es[k] \in Events
      BY <1>3, <1>5, <3>1
    <3> HIDE DEF Off
    <3>4. Grown(box, after[k], Events, r)
      BY <3>2, <3>3, GrownOnce
    <3> QED
      BY <2>3, <3>4
  <2> QED
    BY <2>4, <2>5
<1> QED
  <2>1. n \notin Off
    BY <1>6
  <2> QED
    BY <1>1, <1>3, <2>1

\* A rewind changes the status of entries, and of nothing before its round.
LEMMA RewoundBoxIs ==
    ASSUME NEW box \in Seq(Delivery), NEW r \in 1..MaxRound
    PROVE  /\ RewoundBox(box, r) \in Seq(Delivery)
           /\ \A d \in ToSet(RewoundBox(box, r)) : \E e \in ToSet(box) :
                 /\ d.id = e.id /\ d.round = e.round
                 /\ d.status # e.status =>
                       \/ e.status = "pending" /\ d.status = "superseded"
                       \/ e.status = "delivered" /\ d.status = "reversal_pending"
                 /\ e.round < r => d = e
           /\ \A e \in ToSet(box) : e.round < r => e \in ToSet(RewoundBox(box, r))
<1> DEFINE Back(d) == IF d.round < r THEN d
                      ELSE IF d.status = "pending"
                           THEN [d EXCEPT !.status = "superseded"]
                      ELSE IF d.status = "delivered"
                           THEN [d EXCEPT !.status = "reversal_pending"]
                      ELSE d
<1>1. /\ Len(box) \in Nat /\ DOMAIN box = 1..Len(box)
      /\ \A i \in DOMAIN box : box[i] \in Delivery /\ box[i] \in ToSet(box)
      /\ \A d \in ToSet(box) : d \in Delivery /\ \E i \in DOMAIN box : d = box[i]
  BY ListOf
<1>2. ASSUME NEW e \in Delivery
      PROVE  /\ Back(e) \in Delivery /\ Back(e).id = e.id /\ Back(e).round = e.round
             /\ Back(e).status # e.status =>
                   \/ e.status = "pending" /\ Back(e).status = "superseded"
                   \/ e.status = "delivered" /\ Back(e).status = "reversal_pending"
             /\ e.round < r => Back(e) = e
  BY DEF Delivery, Statuses
<1>3. RewoundBox(box, r) = [i \in DOMAIN box |-> Back(box[i])]
  BY DEF RewoundBox
<1> HIDE DEF Back
<1> DEFINE new == [i \in DOMAIN box |-> Back(box[i])]
<1>4. new \in [1..Len(box) -> Delivery]
  BY <1>1, <1>2
<1>5. new \in Seq(Delivery)
  <2> HIDE DEF new
  <2> QED
    BY <1>1, <1>4, SeqDef
<1>6. ASSUME NEW d \in ToSet(new) PROVE \E e \in ToSet(box) : d = Back(e)
  <2>1. PICK i \in DOMAIN new : d = new[i]
    BY DEF ToSet
  <2> QED
    BY <1>1, <2>1
<1>7. ASSUME NEW e \in ToSet(box) PROVE Back(e) \in ToSet(new)
  <2>1. PICK i \in DOMAIN box : e = box[i]
    BY <1>1
  <2>2. i \in DOMAIN new /\ new[i] = Back(e)
    BY <2>1
  <2> QED
    BY <2>2 DEF ToSet
<1> HIDE DEF new
<1>8. \A d \in ToSet(new) : \E e \in ToSet(box) :
         /\ d.id = e.id /\ d.round = e.round
         /\ d.status # e.status =>
               \/ e.status = "pending" /\ d.status = "superseded"
               \/ e.status = "delivered" /\ d.status = "reversal_pending"
         /\ e.round < r => d = e
  BY <1>1, <1>2, <1>6
<1>9. \A e \in ToSet(box) : e.round < r => e \in ToSet(new)
  BY <1>1, <1>2, <1>7
<1> QED
  BY <1>3, <1>5, <1>8, <1>9 DEF new

\* A receipt changes the status of the entry it is for.
LEMMA CompletedIs ==
    ASSUME NEW box \in Seq(Delivery), NEW s \in Sources, NEW undo \in BOOLEAN
    PROVE  /\ Completed(box, s, undo) \in Seq(Delivery)
           /\ \A d \in ToSet(Completed(box, s, undo)) : \E e \in ToSet(box) :
                 /\ d.id = e.id /\ d.round = e.round /\ (e.id # s => d = e)
                 /\ d.status # e.status =>
                       \/ undo /\ e.status = "reversal_pending" /\ d.status = "reversed"
                       \/ ~undo /\ e.status = "pending" /\ d.status = "delivered"
           /\ \A e \in ToSet(box) : e.id # s => e \in ToSet(Completed(box, s, undo))
<1> DEFINE Noted(d) == IF d.id # s THEN d
                       ELSE IF undo /\ d.status = "reversal_pending"
                            THEN [d EXCEPT !.status = "reversed"]
                       ELSE IF ~undo /\ d.status = "pending"
                            THEN [d EXCEPT !.status = "delivered"]
                       ELSE d
<1>1. /\ Len(box) \in Nat /\ DOMAIN box = 1..Len(box)
      /\ \A i \in DOMAIN box : box[i] \in Delivery /\ box[i] \in ToSet(box)
      /\ \A d \in ToSet(box) : d \in Delivery /\ \E i \in DOMAIN box : d = box[i]
  BY ListOf
<1>2. ASSUME NEW e \in Delivery
      PROVE  /\ Noted(e) \in Delivery /\ Noted(e).id = e.id /\ Noted(e).round = e.round
             /\ Noted(e).status # e.status =>
                   \/ undo /\ e.status = "reversal_pending" /\ Noted(e).status = "reversed"
                   \/ ~undo /\ e.status = "pending" /\ Noted(e).status = "delivered"
             /\ e.id # s => Noted(e) = e
  BY DEF Delivery, Statuses
<1>3. Completed(box, s, undo) = [i \in DOMAIN box |-> Noted(box[i])]
  BY DEF Completed
<1> HIDE DEF Noted
<1> DEFINE new == [i \in DOMAIN box |-> Noted(box[i])]
<1>4. new \in [1..Len(box) -> Delivery]
  BY <1>1, <1>2
<1>5. new \in Seq(Delivery)
  <2> HIDE DEF new
  <2> QED
    BY <1>1, <1>4, SeqDef
<1>6. ASSUME NEW d \in ToSet(new) PROVE \E e \in ToSet(box) : d = Noted(e)
  <2>1. PICK i \in DOMAIN new : d = new[i]
    BY DEF ToSet
  <2> QED
    BY <1>1, <2>1
<1>7. ASSUME NEW e \in ToSet(box) PROVE Noted(e) \in ToSet(new)
  <2>1. PICK i \in DOMAIN box : e = box[i]
    BY <1>1
  <2>2. i \in DOMAIN new /\ new[i] = Noted(e)
    BY <2>1
  <2> QED
    BY <2>2 DEF ToSet
<1> HIDE DEF new
<1>8. \A d \in ToSet(new) : \E e \in ToSet(box) :
         /\ d.id = e.id /\ d.round = e.round /\ (e.id # s => d = e)
         /\ d.status # e.status =>
               \/ undo /\ e.status = "reversal_pending" /\ d.status = "reversed"
               \/ ~undo /\ e.status = "pending" /\ d.status = "delivered"
  BY <1>1, <1>2, <1>6
<1>9. \A e \in ToSet(box) : e.id # s => e \in ToSet(new)
  BY <1>1, <1>2, <1>7
<1> QED
  BY <1>3, <1>5, <1>8, <1>9 DEF new

\* What a drain works off was waiting in the outbox.
LEMMA WaitingIs ==
    ASSUME live.box \in Seq(Delivery), NEW status \in Statuses, NEW undo \in BOOLEAN
    PROVE  /\ Waiting(status, undo) \in Seq(Call)
           /\ \A c \in ToSet(Waiting(status, undo)) :
                 /\ c.undo = undo
                 /\ \E d \in ToSet(live.box) : d.id = c.id /\ d.status = status
<1> DEFINE box  == live.box
           I    == {i \in DOMAIN box : box[i].status = status}
           ds   == Subsequence(box, I)
           asks == [i \in DOMAIN ds |-> [id |-> ds[i].id, undo |-> undo]]
<1>1. Waiting(status, undo) = asks
  BY DEF Waiting
<1>2. \A i \in DOMAIN box : box[i] \in ToSet(box)
  BY ListOf
<1>3. I \in SUBSET DOMAIN box
  OBVIOUS
<1>4. ds \in Seq(Delivery) /\ \A d \in ToSet(ds) : \E i \in I : d = box[i]
  <2> HIDE DEF I, box
  <2> QED
    BY <1>3, Picked DEF box
<1>5. \A d \in ToSet(ds) : d \in ToSet(box) /\ d.status = status
  BY <1>2, <1>4
<1> HIDE DEF ds, I, box
<1>6. /\ Len(ds) \in Nat /\ DOMAIN ds = 1..Len(ds)
      /\ \A i \in DOMAIN ds : ds[i] \in Delivery /\ ds[i] \in ToSet(ds)
  BY <1>4, ListOf
<1>7. asks \in [1..Len(ds) -> Call]
  BY <1>6 DEF Call, Delivery
<1>8. asks \in Seq(Call)
  <2> HIDE DEF asks
  <2> QED
    BY <1>6, <1>7, SeqDef
<1>9. ASSUME NEW c \in ToSet(asks)
      PROVE  c.undo = undo /\ \E d \in ToSet(box) : d.id = c.id /\ d.status = status
  <2>1. PICK i \in DOMAIN asks : c = asks[i]
    BY DEF ToSet
  <2> QED
    BY <1>5, <1>6, <2>1
<1> HIDE DEF asks
<1> QED
  BY <1>1, <1>8, <1>9 DEF box

----------------------------------------------------------------------------
(***************************************************************************)
(* The aggregate and the journal.                                          *)
(***************************************************************************)

LEMMA SourceKinds ==
    /\ \A s \in Settlements : s \in Sources /\ s \notin Events
    /\ \A e \in Events : e \in Sources /\ e \notin Settlements
BY NamesAssumption DEF Sources

\* The store forgets nothing it has a record of.
LEMMA SoundAfter ==
    ASSUME NEW a, NEW j, NEW k, Sound(a, j),
           \A s \in Sources : j[s] # None => k[s] # None
    PROVE  Sound(a, k)
<1>1. \A d \in ToSet(a.box) : d.id \in Sources
  <2>1. a.box \in Seq(Delivery)
    BY DEF Sound, Aggregates
  <2>2. \A d \in ToSet(a.box) : d \in Delivery
    BY <2>1, ListOf
  <2> QED
    BY <2>2 DEF Delivery
<1> QED
  BY <1>1, SourceKinds DEF Sound

\* What happens to the world may be queued, if what waits goes on waiting.
LEMMA SoundGrown ==
    ASSUME NEW a, NEW b \in Aggregates, NEW j, Sound(a, j),
           b.settled = a.settled,
           \A d \in ToSet(b.box) :
              d \in ToSet(a.box) \/ (d.id \in Events /\ d.status = "pending"),
           \A d \in ToSet(a.box) : d.status = "pending" => d \in ToSet(b.box)
    PROVE  Sound(b, j)
<1>1. \A d \in ToSet(b.box) :
         d.status \in {"delivered", "reversal_pending", "reversed"} => j[d.id] # None
  BY DEF Sound
<1>2. ASSUME NEW s \in Settlements
      PROVE  /\ b.settled[s] = Open => \A d \in ToSet(b.box) : d.id # s
             /\ b.settled[s] > Open =>
                   /\ \A d \in ToSet(b.box) :
                         d.id = s => /\ d.round = b.settled[s]
                                     /\ d.status \in {"pending", "delivered"}
                   /\ j[s] = None =>
                         \E d \in ToSet(b.box) : d.id = s /\ d.status = "pending"
  <2>1. s \notin Events
    BY SourceKinds
  <2>2. \A d \in ToSet(b.box) : d.id = s => d \in ToSet(a.box)
    BY <2>1
  <2>3. a.settled[s] > Open /\ j[s] = None =>
           \E d \in ToSet(b.box) : d.id = s /\ d.status = "pending"
    BY DEF Sound
  <2> QED
    BY <2>2, <2>3 DEF Sound
<1> QED
  BY <1>1, <1>2 DEF Sound

\* A settlement is queued in the round it is told of.
LEMMA SoundSettled ==
    ASSUME NEW a, NEW b \in Aggregates, NEW j, Sound(a, j),
           NEW s \in Settlements, NEW r \in 1..MaxRound,
           a.settled[s] = Open, b.settled = [a.settled EXCEPT ![s] = r],
           b.box = Queued(a.box, s, r)
    PROVE  Sound(b, j)
<1> DEFINE new == [id |-> s, round |-> r, status |-> "pending"]
<1>1. a.settled \in [Settlements -> Erased..MaxRound] /\ a.box \in Seq(Delivery)
  BY DEF Sound, Aggregates
<1>2. \A d \in ToSet(a.box) : d.id # s
  BY DEF Sound
<1>3. /\ \A d \in ToSet(b.box) :
            d \in ToSet(a.box) \/ (d.id = s /\ d.round = r /\ d.status = "pending")
      /\ \A d \in ToSet(a.box) : IsActive(d) => d \in ToSet(b.box)
      /\ new \in ToSet(b.box)
  BY <1>1, <1>2, SourceKinds, QueuedIs DEF Grown
<1>4. \A d \in ToSet(b.box) :
         d.status \in {"delivered", "reversal_pending", "reversed"} => j[d.id] # None
  BY <1>3 DEF Sound
<1>5. ASSUME NEW t \in Settlements
      PROVE  /\ b.settled[t] = Open => \A d \in ToSet(b.box) : d.id # t
             /\ b.settled[t] > Open =>
                   /\ \A d \in ToSet(b.box) :
                         d.id = t => /\ d.round = b.settled[t]
                                     /\ d.status \in {"pending", "delivered"}
                   /\ j[t] = None =>
                         \E d \in ToSet(b.box) : d.id = t /\ d.status = "pending"
  <2>1. CASE t = s
    <3>1. b.settled[s] = r /\ r \in Nat /\ r # 0 /\ new.id = s /\ new.status = "pending"
      BY <1>1, BoundsAssumption
    <3> HIDE DEF new
    <3> QED
      BY <1>2, <1>3, <2>1, <3>1 DEF Open
  <2>2. CASE t # s
    <3>1. b.settled[t] = a.settled[t]
      BY <1>1, <2>2
    <3>2. \A d \in ToSet(b.box) : d.id = t => d \in ToSet(a.box)
      BY <1>3, <2>2
    <3>3. a.settled[t] > Open /\ j[t] = None =>
             \E d \in ToSet(b.box) : d.id = t /\ d.status = "pending"
      BY <1>3 DEF Sound, IsActive
    <3> HIDE DEF new
    <3> QED
      BY <3>1, <3>2, <3>3 DEF Sound
  <2> QED
    BY <2>1, <2>2
<1> QED
  BY <1>4, <1>5 DEF Sound

\* A rewind erases the settlements told of in the rounds it takes back.
LEMMA SoundRewound ==
    ASSUME NEW a, NEW j, Sound(a, j), NEW i \in DOMAIN a.log, NEW n \in 0..Len(a.log)
    PROVE  /\ Sound(Rewound(a, i, n), j)
           /\ Retold(Rewound(a, i, n), a)
           /\ Rewound(a, i, n).judging = a.judging
<1> DEFINE r       == a.log[i].round
           Entries == [round : 1..MaxRound, world : SUBSET Events]
           settled == [s \in Settlements |-> IF a.settled[s] >= r THEN Erased ELSE a.settled[s]]
           kept    == SubSeq(a.log, 1, n)
           box     == RewoundBox(a.box, r)
           b       == [a EXCEPT !.round = r, !.world = a.log[i].world, !.log = kept,
                                !.settled = settled, !.box = box]
<1>1. a \in Aggregates
  BY DEF Sound
<1>2. Rewound(a, i, n) = b
  BY <1>1 DEF Rewound, Aggregates
<1>3. /\ a.settled \in [Settlements -> Erased..MaxRound] /\ a.box \in Seq(Delivery)
      /\ a.log \in Seq(Entries)
  BY <1>1 DEF Aggregates
<1>4. a.log[i] \in Entries /\ r \in 1..MaxRound /\ a.log[i].world \in SUBSET Events
  <2>1. a.log[i] \in Entries
    BY <1>3, ElementOfSeq, LenProperties
  <2> QED
    BY <2>1
<1>5. kept \in Seq(Entries)
  <2>1. Len(a.log) \in Nat /\ 1 \in 1..Len(a.log) + 1
    BY <1>3, LenProperties
  <2> HIDE DEF Entries
  <2> QED
    BY <1>3, <2>1, Piece
<1>6. settled \in [Settlements -> Erased..MaxRound]
  BY <1>3, BoundsAssumption DEF Erased
<1>7. /\ box \in Seq(Delivery)
      /\ \A d \in ToSet(box) : \E e \in ToSet(a.box) :
            /\ d.id = e.id /\ d.round = e.round
            /\ d.status # e.status =>
                  \/ e.status = "pending" /\ d.status = "superseded"
                  \/ e.status = "delivered" /\ d.status = "reversal_pending"
            /\ e.round < r => d = e
      /\ \A e \in ToSet(a.box) : e.round < r => e \in ToSet(box)
  BY <1>3, <1>4, RewoundBoxIs
<1> HIDE DEF kept, box, settled, r
<1>8. /\ b \in Aggregates /\ b.settled = settled /\ b.box = box /\ b.judging = a.judging
  BY <1>1, <1>4, <1>5, <1>6, <1>7 DEF Aggregates
<1> HIDE DEF b
<1>9. \A d \in ToSet(box) :
         d.status \in {"delivered", "reversal_pending", "reversed"} => j[d.id] # None
  BY <1>7 DEF Sound
<1>10. \A s \in Settlements :
          /\ a.settled[s] >= r => settled[s] = Erased /\ a.settled[s] > Open
          /\ ~(a.settled[s] >= r) => settled[s] = a.settled[s] /\ a.settled[s] < r
  BY <1>3, <1>4, BoundsAssumption DEF settled, Open, Erased
<1>11. ASSUME NEW s \in Settlements
       PROVE  /\ settled[s] = Open => \A d \in ToSet(box) : d.id # s
              /\ settled[s] > Open =>
                    /\ \A d \in ToSet(box) :
                          d.id = s => /\ d.round = settled[s]
                                      /\ d.status \in {"pending", "delivered"}
                    /\ j[s] = None =>
                          \E d \in ToSet(box) : d.id = s /\ d.status = "pending"
  <2>1. CASE a.settled[s] >= r
    BY <1>10, <2>1 DEF Open, Erased
  <2>2. CASE ~(a.settled[s] >= r)
    <3>1. settled[s] = a.settled[s] /\ a.settled[s] < r
      BY <1>10, <2>2
    <3>2. a.settled[s] = Open => \A d \in ToSet(box) : d.id # s
      BY <1>7 DEF Sound
    <3>3. ASSUME a.settled[s] > Open, NEW d \in ToSet(box), d.id = s
          PROVE  d.round = a.settled[s] /\ d.status \in {"pending", "delivered"}
      <4>1. PICK e \in ToSet(a.box) : e.id = s /\ (e.round < r => d = e)
        BY <1>7, <3>3
      <4>2. e.round = a.settled[s] /\ e.status \in {"pending", "delivered"}
        BY <3>3, <4>1 DEF Sound
      <4> QED
        BY <3>1, <4>1, <4>2
    <3>4. ASSUME a.settled[s] > Open, j[s] = None
          PROVE  \E d \in ToSet(box) : d.id = s /\ d.status = "pending"
      <4>1. PICK e \in ToSet(a.box) : e.id = s /\ e.status = "pending"
        BY <3>4 DEF Sound
      <4>2. e.round = a.settled[s]
        BY <3>4, <4>1 DEF Sound
      <4> QED
        BY <1>7, <3>1, <4>1, <4>2
    <3> QED
      BY <3>1, <3>2, <3>3, <3>4
  <2> QED
    BY <2>1, <2>2
<1>12. Retold(b, a)
  BY <1>8, <1>10 DEF Retold
<1> QED
  BY <1>2, <1>8, <1>9, <1>11, <1>12 DEF Sound

\* A receipt fits what the store has done before it was given.
LEMMA SoundCompleted ==
    ASSUME NEW a, NEW b \in Aggregates, NEW j, Sound(a, j),
           NEW s \in Sources, NEW undo \in BOOLEAN, j[s] # None,
           s \in Settlements /\ undo => a.settled[s] = Erased,
           b.settled = a.settled, b.box = Completed(a.box, s, undo)
    PROVE  Sound(b, j)
<1>1. /\ \A d \in ToSet(b.box) : \E e \in ToSet(a.box) :
            /\ d.id = e.id /\ d.round = e.round /\ (e.id # s => d = e)
            /\ d.status # e.status =>
                  \/ undo /\ e.status = "reversal_pending" /\ d.status = "reversed"
                  \/ ~undo /\ e.status = "pending" /\ d.status = "delivered"
      /\ \A e \in ToSet(a.box) : e.id # s => e \in ToSet(b.box)
  <2>1. a.box \in Seq(Delivery)
    BY DEF Sound, Aggregates
  <2> QED
    BY <2>1, CompletedIs
<1>2. \A d \in ToSet(b.box) :
         d.status \in {"delivered", "reversal_pending", "reversed"} => j[d.id] # None
  BY <1>1 DEF Sound
<1>3. ASSUME NEW t \in Settlements
      PROVE  /\ b.settled[t] = Open => \A d \in ToSet(b.box) : d.id # t
             /\ b.settled[t] > Open =>
                   /\ \A d \in ToSet(b.box) :
                         d.id = t => /\ d.round = b.settled[t]
                                     /\ d.status \in {"pending", "delivered"}
                   /\ j[t] = None =>
                         \E d \in ToSet(b.box) : d.id = t /\ d.status = "pending"
  <2>1. a.settled[t] = Open => \A d \in ToSet(b.box) : d.id # t
    BY <1>1 DEF Sound
  <2>2. ASSUME a.settled[t] > Open, NEW d \in ToSet(b.box), d.id = t
        PROVE  d.round = a.settled[t] /\ d.status \in {"pending", "delivered"}
    <3>1. PICK e \in ToSet(a.box) :
             /\ d.id = e.id /\ d.round = e.round
             /\ d.status # e.status =>
                   \/ undo /\ e.status = "reversal_pending" /\ d.status = "reversed"
                   \/ ~undo /\ e.status = "pending" /\ d.status = "delivered"
      BY <1>1
    <3>2. e.round = a.settled[t] /\ e.status \in {"pending", "delivered"}
      BY <2>2, <3>1 DEF Sound
    <3> QED
      BY <3>1, <3>2
  <2>3. ASSUME a.settled[t] > Open, j[t] = None
        PROVE  \E d \in ToSet(b.box) : d.id = t /\ d.status = "pending"
    <3>1. PICK e \in ToSet(a.box) : e.id = t /\ e.status = "pending"
      BY <2>3 DEF Sound
    <3> QED
      BY <1>1, <2>3, <3>1
  <2> QED
    BY <2>1, <2>2, <2>3
<1> QED
  BY <1>2, <1>3 DEF Sound

----------------------------------------------------------------------------
(***************************************************************************)
(* The steps of the table.                                                 *)
(***************************************************************************)

\* Steps that settle nothing and take nothing back, and leave the store alone.
LEMMA StoryKept ==
    ASSUME MemoryInv, UNCHANGED store,
           Sound(live', journal), Sound(disk', journal),
           live'.settled = live.settled, disk'.settled = live.settled,
           staged' \in {staged, None}, drain' \in {drain, None}
    PROVE  MemoryInv'
<1>1. rows' = rows /\ journal' = journal
  BY DEF store
<1>2. Sound(live', journal') /\ Sound(disk', journal')
  BY <1>1
<1>3. staged' # None => staged' = staged /\ Sound(staged', journal')
  BY <1>1 DEF MemoryInv
<1>4. Stored'
  BY <1>1 DEF MemoryInv, Stored
<1>5. Remembered'
  BY <1>1 DEF MemoryInv, Remembered
<1>6. Agreed'
  BY <1>3 DEF MemoryInv, Agreed, Retold
<1>7. Asked'
  BY DEF MemoryInv, Asked
<1> QED
  BY <1>2, <1>3, <1>4, <1>5, <1>6, <1>7 DEF MemoryInv

\* The story is retold: what is erased by it need not be remembered.
LEMMA StoryRetold ==
    ASSUME MemoryInv, UNCHANGED store,
           NEW a, Sound(a, journal), Retold(a, live),
           live' = a, disk' = a, staged' = None, drain' = drain
    PROVE  MemoryInv'
<1>1. rows' = rows /\ journal' = journal
  BY DEF store
<1>2. Sound(live', journal') /\ Sound(disk', journal')
  BY <1>1
<1>3. Stored'
  BY <1>1 DEF MemoryInv, Stored
<1>4. \A s \in Settlements : /\ a.settled[s] = Open => live.settled[s] = Open
                             /\ a.settled[s] > Open => live.settled[s] = a.settled[s]
                             /\ live.settled[s] # Open => a.settled[s] # Open
                             /\ live.settled[s] = Erased => a.settled[s] = Erased
  BY DEF Retold, Open, Erased
<1>5. Remembered'
  BY <1>1, <1>4 DEF MemoryInv, Remembered
<1>6. Agreed'
  BY DEF Agreed
<1>7. Asked'
  BY <1>4 DEF MemoryInv, Asked
<1> QED
  BY <1>2, <1>3, <1>5, <1>6, <1>7 DEF MemoryInv

LEMMA InitMemory == Init => MemoryInv
<1> SUFFICES ASSUME Init PROVE MemoryInv
  OBVIOUS
<1>1. live \in Aggregates /\ live.box = <<>>
  BY BoundsAssumption DEF Init, Aggregates, Open, Erased
<1>2. \A s \in Settlements : live.settled[s] = Open
  BY DEF Init
<1>3. ToSet(live.box) = {}
  BY <1>1 DEF ToSet
<1>4. Sound(live, journal) /\ disk = live /\ staged = None /\ drain = None
  BY <1>1, <1>2, <1>3 DEF Sound, Init, Open
<1>5. Stored
  BY DEF Stored, Init, Row
<1>6. Remembered
  BY <1>2, SourceKinds DEF Remembered, Init, Open
<1> QED
  BY <1>4, <1>5, <1>6 DEF MemoryInv, Agreed, Asked

LEMMA SettleKeeps ==
    ASSUME MemoryInv, NEW s \in Settlements, NEW i \in DOMAIN live.log, Settle(s, i)
    PROVE  MemoryInv'
<1> DEFINE r == live.log[i].round
           b == [live EXCEPT !.settled[s] = r, !.box = Queued(@, s, r)]
<1>1. /\ Sound(live, journal) /\ live \in Aggregates
      /\ live.log \in Seq([round : 1..MaxRound, world : SUBSET Events])
      /\ live.box \in Seq(Delivery)
      /\ live.settled \in [Settlements -> Erased..MaxRound]
  BY DEF MemoryInv, Sound, Aggregates
<1>2. r \in 1..MaxRound
  <2>1. live.log[i] \in [round : 1..MaxRound, world : SUBSET Events]
    BY <1>1, ElementOfSeq, LenProperties
  <2> QED
    BY <2>1
<1> HIDE DEF r
<1>3. /\ live.settled[s] = Open /\ live' = b /\ disk' = b
      /\ staged = None /\ staged' = None /\ drain = None /\ drain' = None
      /\ rows' = rows /\ journal' = journal
  BY DEF Settle, StateLockFree, GateFree, store, r
<1>4. Queued(live.box, s, r) \in Seq(Delivery)
  BY <1>1, <1>2, SourceKinds, QueuedIs DEF Grown
<1>5. /\ b \in Aggregates /\ b.settled = [live.settled EXCEPT ![s] = r]
      /\ b.box = Queued(live.box, s, r)
  <2> DEFINE settled == [live.settled EXCEPT ![s] = r]
             box     == Queued(live.box, s, r)
  <2>1. settled \in [Settlements -> Erased..MaxRound]
    BY <1>1, <1>2, BoundsAssumption DEF Erased
  <2>2. b = [live EXCEPT !.settled = settled, !.box = box]
    BY <1>1 DEF Aggregates
  <2> HIDE DEF settled, box, b
  <2>3. b \in Aggregates /\ b.settled = settled /\ b.box = box
    BY <1>1, <1>4, <2>1, <2>2 DEF Aggregates, box
  <2> QED
    BY <2>3 DEF settled, box
<1> HIDE DEF b
<1>6. Sound(b, journal)
  BY <1>1, <1>2, <1>3, <1>5, SoundSettled
<1>7. Stored'
  BY <1>3 DEF MemoryInv, Stored
<1>8. Remembered'
  BY <1>1, <1>2, <1>3, <1>5 DEF MemoryInv, Remembered, Open
<1>9. Agreed' /\ Asked'
  BY <1>3 DEF Agreed, Asked
<1> QED
  BY <1>3, <1>6, <1>7, <1>8, <1>9 DEF MemoryInv

\* What the world, the round and the log of a table are is no matter to its box.
LEMMA SoundElsewhere ==
    ASSUME NEW a, NEW b \in Aggregates, NEW j, Sound(a, j),
           b.settled = a.settled, b.box = a.box
    PROVE  Sound(b, j)
BY SoundGrown

LEMMA BeginJudgmentKeeps == MemoryInv /\ BeginJudgment => MemoryInv'
<1> SUFFICES ASSUME MemoryInv, BeginJudgment PROVE MemoryInv'
  OBVIOUS
<1>1. Sound(live, journal) /\ Sound(disk, journal) /\ disk.settled = live.settled
  BY DEF MemoryInv, Agreed
<1>2. live' \in Aggregates /\ live'.settled = live.settled /\ live'.box = live.box
  BY <1>1 DEF BeginJudgment, Sound, Aggregates
<1>3. Sound(live', journal)
  BY <1>1, <1>2, SoundElsewhere
<1> QED
  BY <1>1, <1>2, <1>3, StoryKept DEF BeginJudgment

LEMMA ObserveKeeps ==
    ASSUME MemoryInv, NEW es \in Batches(Events \ live.world), Observe(es)
    PROVE  MemoryInv'
<1>1. /\ Sound(live, journal) /\ Sound(disk, journal) /\ disk.settled = live.settled
      /\ live \in Aggregates /\ live.box \in Seq(Delivery) /\ live.round \in 1..MaxRound
      /\ live.world \subseteq Events
  BY DEF MemoryInv, Agreed, Sound, Aggregates
<1>2. es \in Seq(Events)
  BY BatchIs
<1>3. ToSet(es) \subseteq Events
  BY <1>2, ListOf
<1> DEFINE box == QueuedAll(live.box, es, live.round)
<1>4. Grown(live.box, box, Events, live.round)
  BY <1>1, <1>2, QueuedAllIs
<1> HIDE DEF box
<1>5. live' = [live EXCEPT !.world = live.world \cup ToSet(es), !.box = box,
                           !.prepared = TRUE]
  BY DEF Observe, box
<1>6. box \in Seq(Delivery)
  BY <1>4 DEF Grown
<1>7. live' \in Aggregates /\ live'.settled = live.settled /\ live'.box = box
  BY <1>1, <1>3, <1>5, <1>6 DEF Aggregates
<1>8. /\ \A d \in ToSet(live'.box) :
            d \in ToSet(live.box) \/ (d.id \in Events /\ d.status = "pending")
      /\ \A d \in ToSet(live.box) : d.status = "pending" => d \in ToSet(live'.box)
  BY <1>4, <1>7 DEF Grown, IsActive
<1>9. Sound(live', journal)
  BY <1>1, <1>7, <1>8, SoundGrown
<1> QED
  BY <1>1, <1>7, <1>9, StoryKept DEF Observe

LEMMA FinishJudgmentKeeps == MemoryInv /\ FinishJudgment => MemoryInv'
<1> SUFFICES ASSUME MemoryInv, FinishJudgment PROVE MemoryInv'
  OBVIOUS
<1> DEFINE Entries == [round : 1..MaxRound, world : SUBSET Events]
           told    == [round |-> live.round, world |-> live.entry]
           log     == Append(live.log, told)
<1>1. /\ Sound(live, journal) /\ Sound(disk, journal) /\ disk.settled = live.settled
      /\ live \in Aggregates
  BY DEF MemoryInv, Agreed, Sound
<1>2. log \in Seq(Entries)
  <2>1. live.log \in Seq(Entries) /\ told \in Entries
    BY <1>1 DEF Aggregates
  <2> HIDE DEF Entries, told
  <2> QED
    BY <2>1, Appended
<1> HIDE DEF log
<1>3. live.round + 1 \in 1..MaxRound
  BY <1>1, BoundsAssumption DEF FinishJudgment, Aggregates
<1>4. live' = [live EXCEPT !.log = log, !.round = live.round + 1, !.judging = FALSE,
                           !.entry = {}]
  BY DEF FinishJudgment, log
<1>5. live' \in Aggregates /\ live'.settled = live.settled /\ live'.box = live.box
  BY <1>1, <1>2, <1>3, <1>4 DEF Aggregates
<1>6. Sound(live', journal)
  BY <1>1, <1>5, SoundElsewhere
<1> QED
  BY <1>1, <1>5, <1>6, StoryKept DEF FinishJudgment

LEMMA AbortJudgmentKeeps == MemoryInv /\ AbortJudgment => MemoryInv'
<1> SUFFICES ASSUME MemoryInv, AbortJudgment PROVE MemoryInv'
  OBVIOUS
<1>1. Sound(live, journal) /\ Sound(disk, journal) /\ disk.settled = live.settled
  BY DEF MemoryInv, Agreed
<1>2. live' \in Aggregates /\ live'.settled = live.settled /\ live'.box = live.box
  BY <1>1 DEF AbortJudgment, Sound, Aggregates
<1>3. Sound(live', journal)
  BY <1>1, <1>2, SoundElsewhere
<1> QED
  BY <1>1, <1>2, <1>3, StoryKept DEF AbortJudgment

LEMMA RollbackKeeps == MemoryInv /\ RollbackLastRound => MemoryInv'
<1> SUFFICES ASSUME MemoryInv, RollbackLastRound PROVE MemoryInv'
  OBVIOUS
<1> DEFINE n == Len(live.log)
           a == Rewound(live, n, n - 1)
<1>1. Sound(live, journal) /\ live.log \in Seq([round : 1..MaxRound, world : SUBSET Events])
  BY DEF MemoryInv, Sound, Aggregates
<1>2. n \in DOMAIN live.log /\ n - 1 \in 0..n
  <2>1. Len(live.log) \in Nat /\ DOMAIN live.log = 1..Len(live.log) /\ Len(live.log) # 0
    BY <1>1, LenProperties, EmptySeq DEF RollbackLastRound
  <2> QED
    BY <2>1
<1>3. Sound(a, journal) /\ Retold(a, live)
  BY <1>1, <1>2, SoundRewound
<1>4. /\ live' = [a EXCEPT !.judging = FALSE, !.prepared = FALSE, !.entry = {}]
      /\ disk' = live' /\ staged' = None /\ drain' = drain /\ UNCHANGED store
  BY DEF RollbackLastRound, GateFree
<1> HIDE DEF a
<1>5. live' \in Aggregates /\ live'.settled = a.settled /\ live'.box = a.box
  BY <1>3, <1>4 DEF Sound, Aggregates
<1>6. Sound(live', journal) /\ Retold(live', live)
  BY <1>3, <1>5, SoundElsewhere DEF Retold
<1> DEFINE b == live'
<1>7. live' = b /\ disk' = b /\ Sound(b, journal) /\ Retold(b, live)
  BY <1>4, <1>6
<1> HIDE DEF b
<1> QED
  BY <1>4, <1>7, StoryRetold

LEMMA StageSwipeKeeps ==
    ASSUME MemoryInv, NEW i \in DOMAIN live.log, StageSwipe(i)
    PROVE  MemoryInv'
<1> DEFINE earlier == {j \in DOMAIN live.log : live.log[j].round <= live.log[i].round}
           n       == Cardinality(earlier)
<1>1. Sound(live, journal) /\ live.log \in Seq([round : 1..MaxRound, world : SUBSET Events])
  BY DEF MemoryInv, Sound, Aggregates
<1>2. n \in 0..Len(live.log)
  <2>1. Len(live.log) \in Nat /\ DOMAIN live.log = 1..Len(live.log)
    BY <1>1, LenProperties
  <2>2. /\ IsFiniteSet(1..Len(live.log)) /\ Cardinality(1..Len(live.log)) = Len(live.log)
        /\ earlier \in SUBSET (1..Len(live.log))
    BY <2>1, FS_Interval
  <2> HIDE DEF earlier
  <2>3. IsFiniteSet(earlier) /\ Cardinality(earlier) <= Len(live.log)
    BY <2>2, FS_Subset
  <2> QED
    BY <2>1, <2>3, FS_CardinalityType
<1>3. staged' = Rewound(live, i, n) /\ UNCHANGED <<live, disk, drain, store>>
  BY DEF StageSwipe
<1>4. rows' = rows /\ journal' = journal
  BY <1>3 DEF store
<1> HIDE DEF n
<1>5. Sound(staged', journal') /\ Retold(staged', live)
  BY <1>1, <1>2, <1>3, <1>4, SoundRewound
<1>6. Sound(live', journal') /\ Sound(disk', journal')
  BY <1>3, <1>4 DEF MemoryInv
<1>7. Stored'
  BY <1>4 DEF MemoryInv, Stored
<1>8. Remembered'
  BY <1>3, <1>4 DEF MemoryInv, Remembered
<1>9. Agreed' /\ Asked'
  BY <1>3, <1>5 DEF MemoryInv, Agreed, Asked
<1> QED
  BY <1>5, <1>6, <1>7, <1>8, <1>9 DEF MemoryInv

LEMMA PublishSwipeKeeps == MemoryInv /\ PublishSwipe => MemoryInv'
<1> SUFFICES ASSUME MemoryInv, PublishSwipe PROVE MemoryInv'
  OBVIOUS
<1> DEFINE a == staged
<1>1. live' = a /\ disk' = a /\ staged' = None /\ drain' = drain /\ UNCHANGED store
  BY DEF PublishSwipe
<1>2. Sound(a, journal) /\ Retold(a, live)
  BY DEF PublishSwipe, MemoryInv, Agreed
<1> HIDE DEF a
<1> QED
  BY <1>1, <1>2, StoryRetold

\* The steps that change nothing of the story.
LEMMA IdleKeeps ==
    /\ MemoryInv
    /\ Plan \/ PlanFails \/ DropSwipe \/ Save \/ DrainFail \/ DrainEnd \/ UNCHANGED vars
    => MemoryInv'
<1> SUFFICES ASSUME MemoryInv,
                    \/ Plan \/ PlanFails \/ DropSwipe \/ Save \/ DrainFail \/ DrainEnd
                    \/ UNCHANGED vars
             PROVE  MemoryInv'
  OBVIOUS
<1>1. /\ Sound(live, journal) /\ Sound(disk, journal) /\ disk.settled = live.settled
  BY DEF MemoryInv, Agreed
<1>2. /\ live' = live /\ disk' \in {live, disk} /\ UNCHANGED store
      /\ staged' \in {staged, None} /\ drain' \in {drain, None}
  BY DEF Plan, PlanFails, DropSwipe, Save, DrainFail, DrainEnd, vars, store
<1>3. /\ Sound(live', journal) /\ Sound(disk', journal)
      /\ live'.settled = live.settled /\ disk'.settled = live.settled
  BY <1>1, <1>2
<1> QED
  BY <1>2, <1>3, StoryKept

LEMMA CrashKeeps == MemoryInv /\ Crash => MemoryInv'
<1> SUFFICES ASSUME MemoryInv, Crash PROVE MemoryInv'
  OBVIOUS
<1>1. Sound(disk, journal) /\ disk \in Aggregates /\ disk.settled = live.settled
  BY DEF MemoryInv, Agreed, Sound
<1>2. PICK j \in BOOLEAN : live' = [disk EXCEPT !.judging = j]
  BY <1>1 DEF Crash, Aggregates
<1>3. live' \in Aggregates /\ live'.settled = disk.settled /\ live'.box = disk.box
  BY <1>1, <1>2 DEF Aggregates
<1>4. Sound(live', journal)
  BY <1>1, <1>3, SoundElsewhere
<1> QED
  BY <1>1, <1>3, <1>4, StoryKept DEF Crash

LEMMA DrainBeginKeeps == MemoryInv /\ DrainBegin => MemoryInv'
<1> SUFFICES ASSUME MemoryInv, DrainBegin PROVE MemoryInv'
  OBVIOUS
<1> DEFINE back  == Waiting("reversal_pending", TRUE)
           forth == Waiting("pending", FALSE)
<1>1. /\ Sound(live, journal) /\ live.box \in Seq(Delivery)
      /\ live.settled \in [Settlements -> Erased..MaxRound]
  BY DEF MemoryInv, Sound, Aggregates
<1>2. /\ back \in Seq(Call)
      /\ \A c \in ToSet(back) : /\ c.undo = TRUE
                                /\ \E d \in ToSet(live.box) : /\ d.id = c.id
                                                              /\ d.status = "reversal_pending"
  BY <1>1, WaitingIs DEF Statuses
<1>3. /\ forth \in Seq(Call)
      /\ \A c \in ToSet(forth) : /\ c.undo = FALSE
                                 /\ \E d \in ToSet(live.box) : /\ d.id = c.id
                                                               /\ d.status = "pending"
  BY <1>1, WaitingIs DEF Statuses
<1>4. drain' = back \o forth /\ UNCHANGED <<live, disk, staged, rows, journal>>
  BY DEF DrainBegin, store
<1> HIDE DEF back, forth
<1>5. drain' \in Seq(Call) /\ \A c : c \in ToSet(drain') => c \in ToSet(back) \cup ToSet(forth)
  <2> DEFINE all == back \o forth
  <2>1. all \in Seq(Call) /\ \A c : c \in ToSet(all) <=> c \in ToSet(back) \cup ToSet(forth)
    BY <1>2, <1>3, Joined
  <2> HIDE DEF all
  <2> QED
    BY <1>4, <2>1 DEF all
<1>6. ASSUME NEW s \in Settlements
      PROVE  /\ live.settled[s] = Open => \A d \in ToSet(live.box) : d.id # s
             /\ live.settled[s] > Open => \A d \in ToSet(live.box) :
                                             d.id = s => d.status # "reversal_pending"
             /\ live.settled[s] = Open \/ live.settled[s] > Open \/ live.settled[s] = Erased
  <2>1. live.settled[s] = Open \/ live.settled[s] > Open \/ live.settled[s] = Erased
    BY <1>1, BoundsAssumption DEF Open, Erased
  <2> QED
    BY <1>1, <2>1 DEF Sound
<1>7. ASSUME NEW c \in ToSet(drain'), c.id \in Settlements
      PROVE  live.settled[c.id] # Open /\ (c.undo => live.settled[c.id] = Erased)
  <2>1. CASE c \in ToSet(back)
    <3>1. PICK d \in ToSet(live.box) : d.id = c.id /\ d.status = "reversal_pending"
      BY <1>2, <2>1
    <3> QED
      BY <1>6, <1>7, <3>1
  <2>2. CASE c \in ToSet(forth)
    <3>1. PICK d \in ToSet(live.box) : d.id = c.id /\ c.undo = FALSE
      BY <1>3, <2>2
    <3> QED
      BY <1>6, <1>7, <3>1
  <2> QED
    BY <1>5, <1>7, <2>1, <2>2
<1>8. Asked'
  BY <1>4, <1>5, <1>7 DEF Asked
<1> QED
  BY <1>4, <1>8 DEF MemoryInv, Stored, Remembered, Agreed

----------------------------------------------------------------------------
(***************************************************************************)
(* The steps of the store.                                                 *)
(***************************************************************************)

\* What a delivery was told, and what it told the store of others, stands.
LEMMA ApplyIs ==
    ASSUME Stored, NEW s \in Sources, Apply(s)
    PROVE  /\ Stored'
           /\ journal'[s] # None
           /\ \A t \in Sources : /\ journal[t] # None => journal'[t] = journal[t]
                                 /\ t # s => journal'[t] = journal[t]
                                 /\ rows[t] # "absent" => rows'[t] # "absent"
           /\ journal[s] = None => journal'[s].status = "applied" /\ rows'[s] # "absent"
<1>1. CASE journal[s] # None
  BY <1>1 DEF Apply, store, Stored
<1>2. CASE journal[s] = None
  <2>1. PICK rs \in Inserted(s) :
           /\ rows' = rs
           /\ journal' = [journal EXCEPT ![s] = [status |-> "applied",
                                                 before |-> Snapshot(rows, s),
                                                 after  |-> Snapshot(rs, s)]]
    BY <1>2 DEF Apply
  <2> DEFINE new == [status |-> "applied", before |-> Snapshot(rows, s),
                     after |-> Snapshot(rs, s)]
  <2>2. rows \in [Sources -> Row] /\ journal = [t \in Sources |-> journal[t]]
    BY DEF Stored
  <2>3. /\ rs \in [Sources -> Row] /\ rs[s] = "active"
        /\ \A t \in Sources : /\ rows[t] # "absent" => rs[t] # "absent"
                              /\ t # s /\ rows[t] = "absent" => rs[t] = "absent"
    <3>1. CASE rs = [rows EXCEPT ![s] = "active"]
      BY <2>2, <3>1 DEF Row
    <3>2. CASE \E t \in Peers(s) : /\ rows[t] = "active"
                                   /\ rs = [rows EXCEPT ![t] = "forgotten", ![s] = "active"]
      <4>1. PICK t \in Sources : /\ rows[t] = "active"
                                 /\ rs = [rows EXCEPT ![t] = "forgotten", ![s] = "active"]
        BY <3>2 DEF Peers
      <4> QED
        BY <2>2, <4>1 DEF Row
    <3> QED
      BY <3>1, <3>2 DEF Inserted
  <2>4. /\ new \in Receipt(s) /\ new # None /\ new.status = "applied"
        /\ \A t \in Peers(s) : /\ new.before[t] = rows[t] /\ new.after[t] = rs[t]
                               /\ t \in Sources
    <3>1. Peers(s) \subseteq Sources
      BY DEF Peers
    <3>2. Snapshot(rows, s) \in [Peers(s) -> Row] /\ Snapshot(rs, s) \in [Peers(s) -> Row]
      BY <2>2, <2>3, <3>1 DEF Snapshot
    <3>3. new \in Receipt(s)
      BY <3>2 DEF Receipt
    <3> QED
      BY <3>1, <3>3, NamesAssumption DEF Snapshot
  <2> HIDE DEF new
  <2>5. /\ journal' = [t \in Sources |-> IF t = s THEN new ELSE journal[t]]
        /\ rows' = rs
    BY <2>1, <2>2 DEF new
  <2>6. ASSUME NEW t \in Sources
        PROVE  /\ journal'[t] \in Receipt(t) \cup {None}
               /\ journal'[t] # None =>
                     \A u \in Peers(t) : u # t /\ journal'[t].before[u] = "absent"
                                            => journal'[t].after[u] = "absent"
    <3>1. CASE t = s
      BY <2>3, <2>4, <2>5, <3>1
    <3>2. CASE t # s
      BY <2>5, <3>2 DEF Stored
    <3> QED
      BY <3>1, <3>2
  <2>7. Stored'
    <3>1. DOMAIN journal' = Sources /\ journal' = [t \in Sources |-> journal'[t]]
      BY <2>5
    <3>2. rows' \in [Sources -> Row]
      BY <2>3, <2>5
    <3> QED
      BY <2>6, <3>1, <3>2 DEF Stored
  <2> QED
    BY <1>2, <2>3, <2>4, <2>5, <2>7
<1> QED
  BY <1>1, <1>2

\* A reversal makes no row absent but that of its own source.
LEMMA TakeBackIs ==
    ASSUME Stored, NEW s \in Sources, journal[s] # None, TakeBack(s)
    PROVE  /\ Stored'
           /\ journal'[s] # None
           /\ \A t \in Sources : t # s => /\ journal'[t] = journal[t]
                                          /\ rows[t] # "absent" => rows'[t] # "absent"
<1>1. CASE journal[s].status = "reversed"
  BY <1>1 DEF TakeBack, store, Stored
<1>2. CASE journal[s].status # "reversed"
  <2> DEFINE old == journal[s]
             new == [old EXCEPT !.status = "reversed"]
  <2>1. /\ rows \in [Sources -> Row] /\ journal = [t \in Sources |-> journal[t]]
        /\ old \in Receipt(s)
        /\ \A t \in Peers(s) : t # s /\ old.before[t] = "absent" => old.after[t] = "absent"
    BY DEF Stored
  <2>2. /\ rows' = [t \in Sources |->
                       IF t \in Peers(s) /\ old.after[t] # "absent" /\ rows[t] = old.after[t]
                       THEN old.before[t] ELSE rows[t]]
        /\ journal' = [journal EXCEPT ![s] = new]
    BY <1>2 DEF TakeBack
  <2>3. journal' = [t \in Sources |-> IF t = s THEN new ELSE journal[t]]
    BY <2>1, <2>2
  <2> HIDE DEF old
  <2>4. /\ new \in Receipt(s) /\ new # None
        /\ new.before = old.before /\ new.after = old.after
        /\ old.before \in [Peers(s) -> Row]
    <3>1. new \in Receipt(s) /\ new.before = old.before /\ new.after = old.after
      BY <2>1 DEF Receipt
    <3> QED
      BY <2>1, <3>1, NamesAssumption DEF Receipt
  <2> HIDE DEF new
  <2>5. rows' \in [Sources -> Row]
    BY <2>1, <2>2, <2>4
  <2>6. ASSUME NEW t \in Sources
        PROVE  /\ journal'[t] \in Receipt(t) \cup {None}
               /\ journal'[t] # None =>
                     \A u \in Peers(t) : u # t /\ journal'[t].before[u] = "absent"
                                            => journal'[t].after[u] = "absent"
    <3>1. CASE t = s
      BY <2>1, <2>3, <2>4, <3>1
    <3>2. CASE t # s
      BY <2>3, <3>2 DEF Stored
    <3> QED
      BY <3>1, <3>2
  <2>7. Stored'
    <3>1. DOMAIN journal' = Sources /\ journal' = [t \in Sources |-> journal'[t]]
      BY <2>3
    <3> QED
      BY <2>5, <2>6, <3>1 DEF Stored
  <2>8. ASSUME NEW t \in Sources, t # s, rows[t] # "absent" PROVE rows'[t] # "absent"
    BY <2>1, <2>2, <2>8
  <2> QED
    BY <2>3, <2>4, <2>7, <2>8
<1> QED
  BY <1>1, <1>2

LEMMA DrainStepKeeps == MemoryInv /\ DrainStep => MemoryInv'
<1> SUFFICES ASSUME MemoryInv, DrainStep PROVE MemoryInv'
  OBVIOUS
<1> DEFINE c == Head(drain)
<1>1. /\ Sound(live, journal) /\ Sound(disk, journal) /\ disk.settled = live.settled
      /\ live \in Aggregates /\ live.box \in Seq(Delivery)
      /\ live.settled \in [Settlements -> Erased..MaxRound]
  BY DEF MemoryInv, Agreed, Sound, Aggregates
<1>2. /\ drain # None /\ drain \in Seq(Call) /\ drain # <<>>
      /\ \A d \in ToSet(drain) :
            d.id \in Settlements => /\ live.settled[d.id] # Open
                                    /\ d.undo => live.settled[d.id] = Erased
  BY DEF DrainStep, MemoryInv, Asked
<1>3. /\ c \in ToSet(drain) /\ c \in Call /\ Tail(drain) \in Seq(Call)
      /\ ToSet(Tail(drain)) \subseteq ToSet(drain)
  <2>1. /\ Len(drain) \in Nat /\ Len(drain) # 0 /\ DOMAIN drain = 1..Len(drain)
        /\ Tail(drain) \in Seq(Call) /\ c = drain[1]
        /\ \A i \in DOMAIN Tail(drain) : /\ i + 1 \in 1..Len(drain)
                                         /\ Tail(drain)[i] = drain[i + 1]
    BY <1>2
  <2>2. 1 \in DOMAIN drain
    BY <2>1
  <2>3. c \in ToSet(drain) /\ c \in Call
    BY <1>2, <2>1, <2>2, ListOf
  <2> QED
    BY <2>1, <2>3 DEF ToSet
<1>4. c.id \in Sources /\ c.undo \in BOOLEAN
  BY <1>3 DEF Call
<1> DEFINE s   == c.id
           box == Completed(live.box, s, c.undo)
<1>5. CASE c.undo /\ journal[s] = None
  <2>1. live' = live /\ disk' = disk /\ staged' = staged /\ drain' = None /\ UNCHANGED store
    BY <1>5 DEF DrainStep, Verifiable
  <2>2. /\ Sound(live', journal) /\ Sound(disk', journal)
        /\ live'.settled = live.settled /\ disk'.settled = live.settled
    BY <1>1, <2>1
  <2> QED
    BY <2>1, <2>2, StoryKept
<1>6. CASE ~(c.undo /\ journal[s] = None)
  <2>1. /\ IF c.undo THEN TakeBack(s) ELSE Apply(s)
        /\ live' = [live EXCEPT !.box = box]
        /\ drain' = Tail(drain) /\ disk' = disk /\ staged' = staged
    BY <1>6 DEF DrainStep, Verifiable
  <2> HIDE DEF c
  <2>2. /\ Stored' /\ journal'[s] # None
        /\ \A t \in Sources : journal[t] # None => journal'[t] # None
        /\ \A t \in Sources : t # s => /\ journal'[t] = journal[t]
                                       /\ rows[t] # "absent" => rows'[t] # "absent"
        /\ ~c.undo /\ journal[s] # None => /\ journal'[s] = journal[s]
                                           /\ rows[s] # "absent" => rows'[s] # "absent"
        /\ ~c.undo /\ journal[s] = None => /\ journal'[s].status = "applied"
                                           /\ rows'[s] # "absent"
    <3>1. CASE c.undo
      <4>1. Stored /\ TakeBack(s) /\ journal[s] # None
        BY <1>6, <2>1, <3>1 DEF MemoryInv
      <4>2. /\ Stored' /\ journal'[s] # None
            /\ \A t \in Sources : t # s => /\ journal'[t] = journal[t]
                                           /\ rows[t] # "absent" => rows'[t] # "absent"
        BY <1>4, <4>1, TakeBackIs
      <4> QED
        BY <3>1, <4>2
    <3>2. CASE ~c.undo
      <4>1. Stored /\ Apply(s)
        BY <2>1, <3>2 DEF MemoryInv
      <4>2. /\ Stored' /\ journal'[s] # None
            /\ \A t \in Sources : /\ journal[t] # None => journal'[t] = journal[t]
                                  /\ t # s => journal'[t] = journal[t]
                                  /\ rows[t] # "absent" => rows'[t] # "absent"
            /\ journal[s] = None => journal'[s].status = "applied" /\ rows'[s] # "absent"
        BY <1>4, <4>1, ApplyIs
      <4> QED
        BY <1>4, <3>2, <4>2
    <3> QED
      BY <3>1, <3>2
  <2>3. Sound(live, journal') /\ Sound(disk, journal') /\ (staged # None => Sound(staged, journal'))
    BY <1>1, <2>2, SoundAfter DEF MemoryInv
  <2>4. box \in Seq(Delivery)
    BY <1>1, <1>4, CompletedIs
  <2> HIDE DEF box
  <2>5. live' \in Aggregates /\ live'.settled = live.settled /\ live'.box = box
    BY <1>1, <2>1, <2>4 DEF Aggregates
  <2>6. s \in Settlements => live.settled[s] # Open /\ (c.undo => live.settled[s] = Erased)
    BY <1>2, <1>3
  <2>7. Sound(live', journal')
    BY <1>4, <2>2, <2>3, <2>5, <2>6, SoundCompleted DEF box
  <2>8. Remembered'
    <3>1. ASSUME NEW t \in Settlements, t # s
          PROVE  /\ live'.settled[t] = Open => journal'[t] = None
                 /\ live'.settled[t] > Open /\ journal'[t] # None =>
                       journal'[t].status = "applied" /\ rows'[t] # "absent"
      BY <2>2, <2>5, <3>1, SourceKinds DEF MemoryInv, Remembered
    <3>2. ASSUME s \in Settlements
          PROVE  /\ live'.settled[s] = Open => journal'[s] = None
                 /\ live'.settled[s] > Open /\ journal'[s] # None =>
                       journal'[s].status = "applied" /\ rows'[s] # "absent"
      <4>1. CASE c.undo
        BY <2>5, <2>6, <3>2, <4>1 DEF Open, Erased
      <4>2. CASE ~c.undo
        BY <2>2, <2>5, <2>6, <3>2, <4>2 DEF MemoryInv, Remembered
      <4> QED
        BY <4>1, <4>2
    <3> QED
      BY <3>1, <3>2 DEF Remembered
  <2>9. Agreed'
    BY <2>1, <2>5 DEF MemoryInv, Agreed, Retold
  <2>10. Asked'
    <3>1. drain' \in Seq(Call) /\ ToSet(drain') \subseteq ToSet(drain)
      BY <1>3, <2>1
    <3> QED
      BY <1>2, <2>5, <3>1 DEF Asked
  <2> QED
    BY <2>1, <2>2, <2>3, <2>7, <2>8, <2>9, <2>10 DEF MemoryInv
<1> QED
  BY <1>5, <1>6

----------------------------------------------------------------------------
(***************************************************************************)
(* What the table's memory promises.                                       *)
(***************************************************************************)

\* The aggregate, the save, a swipe's copy, the running drain and the store
\* agree on every effect group, whatever happens in whatever order.
THEOREM MemoryIsKept == Spec => []MemoryInv
<1>1. MemoryInv /\ [Next]_vars => MemoryInv'
  <2> SUFFICES ASSUME MemoryInv, [Next]_vars PROVE MemoryInv'
    OBVIOUS
  <2>1. CASE UNCHANGED vars
    BY <2>1, IdleKeeps
  <2>2. CASE \E s \in Settlements, i \in DOMAIN live.log : Settle(s, i)
    BY <2>2, SettleKeeps
  <2>3. CASE Plan \/ PlanFails \/ DropSwipe \/ Save \/ DrainFail \/ DrainEnd
    BY <2>3, IdleKeeps
  <2>4. CASE \E es \in Batches(Events \ live.world) : Observe(es)
    BY <2>4, ObserveKeeps
  <2>5. CASE BeginJudgment
    BY <2>5, BeginJudgmentKeeps
  <2>6. CASE FinishJudgment
    BY <2>6, FinishJudgmentKeeps
  <2>7. CASE AbortJudgment
    BY <2>7, AbortJudgmentKeeps
  <2>8. CASE RollbackLastRound
    BY <2>8, RollbackKeeps
  <2>9. CASE PublishSwipe
    BY <2>9, PublishSwipeKeeps
  <2>10. CASE \E i \in DOMAIN live.log : StageSwipe(i)
    BY <2>10, StageSwipeKeeps
  <2>11. CASE DrainBegin
    BY <2>11, DrainBeginKeeps
  <2>12. CASE DrainStep
    BY <2>12, DrainStepKeeps
  <2>13. CASE Crash
    BY <2>13, CrashKeeps
  <2> QED
    BY <2>1, <2>2, <2>3, <2>4, <2>5, <2>6, <2>7, <2>8, <2>9, <2>10, <2>11, <2>12, <2>13
       DEF Next
<1> QED
  BY InitMemory, <1>1, PTL DEF Spec

\* No copy of the aggregate has an identity in its outbox twice.
EachOnce ==
    Single(live.box) /\ Single(disk.box) /\ (staged # None => Single(staged.box))

LEMMA SingleRewound ==
    ASSUME NEW box, NEW r, Single(box)
    PROVE  Single(RewoundBox(box, r))
<1> DEFINE back == RewoundBox(box, r)
<1>1. DOMAIN back = DOMAIN box
  BY DEF RewoundBox
<1>2. \A i \in DOMAIN box : back[i].id = box[i].id
  BY DEF RewoundBox
<1> QED
  BY <1>1, <1>2, SingleRenewed

LEMMA SingleCompleted ==
    ASSUME NEW box, NEW s, NEW undo, Single(box)
    PROVE  Single(Completed(box, s, undo))
<1> DEFINE noted == Completed(box, s, undo)
<1>1. DOMAIN noted = DOMAIN box
  BY DEF Completed
<1>2. \A i \in DOMAIN box : noted[i].id = box[i].id
  BY DEF Completed
<1> QED
  BY <1>1, <1>2, SingleRenewed

\* Each step queues, rewinds or completes, or leaves the outbox alone, and puts
\* an aggregate in the place of another.
LEMMA EachStaysOnce == MemoryInv /\ EachOnce /\ [Next]_vars => EachOnce'
<1> SUFFICES ASSUME MemoryInv, EachOnce, [Next]_vars PROVE EachOnce'
  OBVIOUS
<1>1. /\ live \in Aggregates /\ disk \in Aggregates
      /\ live.box \in Seq(Delivery) /\ live.round \in 1..MaxRound
      /\ Single(live.box) /\ Single(disk.box) /\ (staged # None => Single(staged.box))
  BY DEF MemoryInv, Sound, Aggregates, EachOnce
<1>2. CASE \E s \in Settlements, i \in DOMAIN live.log : Settle(s, i)
  <2>1. PICK s \in Settlements, i \in DOMAIN live.log : Settle(s, i)
    BY <1>2
  <2> DEFINE r == live.log[i].round
  <2>2. r \in 1..MaxRound
    <3>1. live.log \in Seq([round : 1..MaxRound, world : SUBSET Events])
      BY <1>1 DEF Aggregates
    <3>2. live.log[i] \in [round : 1..MaxRound, world : SUBSET Events]
      BY <3>1, ElementOfSeq, LenProperties
    <3> QED
      BY <3>2
  <2>3. live' = [live EXCEPT !.settled[s] = r, !.box = Queued(live.box, s, r)]
    BY <2>1 DEF Settle
  <2> HIDE DEF r
  <2>4. Single(Queued(live.box, s, r))
    BY <1>1, <2>2, SourceKinds, QueuedIs DEF Grown
  <2>5. live'.box = Queued(live.box, s, r)
    BY <1>1, <2>3 DEF Aggregates
  <2>6. disk' = live' /\ staged' = None
    BY <2>1 DEF Settle, GateFree
  <2> QED
    BY <2>4, <2>5, <2>6 DEF EachOnce
<1>3. CASE \E es \in Batches(Events \ live.world) : Observe(es)
  <2>1. PICK es \in Batches(Events \ live.world) : Observe(es)
    BY <1>3
  <2>2. es \in Seq(Events)
    BY BatchIs
  <2>3. Single(QueuedAll(live.box, es, live.round))
    BY <1>1, <2>2, QueuedAllIs DEF Grown
  <2>4. live'.box = QueuedAll(live.box, es, live.round) /\ disk' = disk /\ staged' = staged
    BY <1>1, <2>1 DEF Observe, Aggregates
  <2> QED
    BY <1>1, <2>3, <2>4 DEF EachOnce
<1>4. CASE RollbackLastRound
  <2>1. live'.box = RewoundBox(live.box, live.log[Len(live.log)].round)
    BY <1>1, <1>4 DEF RollbackLastRound, Rewound, Aggregates
  <2>2. disk' = live' /\ staged' = None
    BY <1>4 DEF RollbackLastRound, GateFree
  <2> QED
    BY <1>1, <2>1, <2>2, SingleRewound DEF EachOnce
<1>5. CASE \E i \in DOMAIN live.log : StageSwipe(i)
  <2>1. PICK i \in DOMAIN live.log : StageSwipe(i)
    BY <1>5
  <2>2. staged'.box = RewoundBox(live.box, live.log[i].round)
    BY <1>1, <2>1 DEF StageSwipe, Rewound, Aggregates
  <2>3. live' = live /\ disk' = disk
    BY <2>1 DEF StageSwipe
  <2> QED
    BY <1>1, <2>2, <2>3, SingleRewound DEF EachOnce
<1>6. CASE DrainStep
  <2>1. /\ \/ live' = live
           \/ \E s, undo : live' = [live EXCEPT !.box = Completed(live.box, s, undo)]
        /\ disk' = disk /\ staged' = staged
    BY <1>6 DEF DrainStep
  <2>2. Single(live'.box)
    <3>1. CASE live' = live
      BY <1>1, <3>1
    <3>2. ASSUME NEW s, NEW undo, live' = [live EXCEPT !.box = Completed(live.box, s, undo)]
          PROVE  Single(live'.box)
      <4>1. live'.box = Completed(live.box, s, undo)
        BY <1>1, <3>2 DEF Aggregates
      <4> QED
        BY <1>1, <4>1, SingleCompleted
    <3> QED
      BY <2>1, <3>1, <3>2
  <2> QED
    BY <1>1, <2>1, <2>2 DEF EachOnce
<1>7. CASE PublishSwipe
  BY <1>1, <1>7 DEF PublishSwipe, EachOnce
<1>8. CASE BeginJudgment \/ FinishJudgment \/ AbortJudgment
  <2>1. live'.box = live.box /\ disk' = disk /\ staged' = staged
    BY <1>1, <1>8 DEF BeginJudgment, FinishJudgment, AbortJudgment, Aggregates
  <2> QED
    BY <1>1, <2>1 DEF EachOnce
<1>9. CASE Crash
  <2>1. live'.box = disk.box /\ disk' = disk /\ staged' = None
    BY <1>1, <1>9 DEF Crash, Aggregates
  <2> QED
    BY <1>1, <2>1 DEF EachOnce
<1>10. CASE Plan \/ PlanFails \/ DropSwipe \/ DrainBegin \/ DrainFail \/ DrainEnd \/ Save
            \/ UNCHANGED vars
  <2>1. live' = live /\ disk' \in {disk, live} /\ staged' \in {staged, None}
    BY <1>10 DEF Plan, PlanFails, DropSwipe, DrainBegin, DrainFail, DrainEnd, Save, vars
  <2> QED
    BY <1>1, <2>1 DEF EachOnce
<1> QED
  BY <1>2, <1>3, <1>4, <1>5, <1>6, <1>7, <1>8, <1>9, <1>10 DEF Next

\* Memory, disk and a swipe's copy are well-formed aggregates, the store's
\* records are records, and no outbox ever has two entries of one identity
\* (queue_memory_delivery looks for one first): a receipt finds its entry.
THEOREM MemoryTypes == Spec => []MemoryTypeOK
<1> DEFINE Planned == planning \in BOOLEAN
<1>1. Init => EachOnce /\ Planned
  <2> SUFFICES ASSUME Init PROVE EachOnce /\ Planned
    OBVIOUS
  <2>1. DOMAIN live.box = {} /\ disk = live /\ staged = None /\ planning = FALSE
    BY DEF Init
  <2> QED
    BY <2>1 DEF EachOnce, Single
<1>2. Planned /\ [Next]_vars => Planned'
  <2>1. CASE RollbackLastRound \/ PublishSwipe
    <3>1. \/ planning' = StillPlanned(live')
          \/ planning' = StillPlanned(staged)
      BY <2>1 DEF RollbackLastRound, PublishSwipe
    <3> QED
      BY <3>1 DEF StillPlanned
  <2>2. CASE \E s \in Settlements, i \in DOMAIN live.log : Settle(s, i)
    <3>1. planning' = planning
      BY <2>2 DEF Settle
    <3> QED
      BY <3>1
  <2>3. CASE \E i \in DOMAIN live.log : StageSwipe(i)
    <3>1. planning' = planning
      BY <2>3 DEF StageSwipe
    <3> QED
      BY <3>1
  <2>4. CASE Plan \/ PlanFails \/ Crash \/ \E es \in Batches(Events \ live.world) : Observe(es)
    <3>1. planning' = TRUE \/ planning' = FALSE
      BY <2>4 DEF Plan, PlanFails, Crash, Observe
    <3> QED
      BY <3>1
  <2>5. CASE BeginJudgment \/ FinishJudgment \/ AbortJudgment \/ DropSwipe \/ DrainBegin
             \/ DrainStep \/ DrainFail \/ DrainEnd \/ Save \/ UNCHANGED vars
    <3>1. planning' = planning
      BY <2>5 DEF BeginJudgment, FinishJudgment, AbortJudgment, DropSwipe, DrainBegin,
                  DrainStep, DrainFail, DrainEnd, Save, vars
    <3> QED
      BY <3>1
  <2> QED
    BY <2>1, <2>2, <2>3, <2>4, <2>5 DEF Next
<1>3. MemoryInv /\ EachOnce /\ Planned => MemoryTypeOK
  <2> SUFFICES ASSUME MemoryInv, EachOnce, Planned PROVE MemoryTypeOK
    OBVIOUS
  <2>1. ASSUME NEW a \in Aggregates, Single(a.box) PROVE Aggregate(a)
    BY <2>1 DEF Aggregates, Aggregate, Single
  <2>2. Aggregate(live) /\ Aggregate(disk) /\ (staged # None => Aggregate(staged))
    BY <2>1 DEF MemoryInv, Sound, EachOnce
  <2>3. drain # None => drain \in Seq([id : Sources, undo : BOOLEAN])
    BY DEF MemoryInv, Asked, Call
  <2>4. rows \in [Sources -> Row] /\ \A s \in Sources : journal[s] \in Receipt(s) \cup {None}
    BY DEF MemoryInv, Stored
  <2> QED
    BY <2>2, <2>3, <2>4 DEF MemoryTypeOK
<1> HIDE DEF Planned
<1> QED
  BY MemoryIsKept, EachStaysOnce, <1>1, <1>2, <1>3, PTL DEF Spec
\* No reversal is asked for, in memory, on disk or in a swipe's copy, that the
\* store would refuse for want of a record (memory/delta.py), so no barrier
\* stays closed because of one.
THEOREM ReversalsCanBeMade == Spec => []ReversalsAreVerifiable
<1>1. MemoryInv => ReversalsAreVerifiable
  <2> SUFFICES ASSUME MemoryInv, NEW a \in {live, disk} \cup ({staged} \ {None}),
                      NEW i \in DOMAIN a.box, a.box[i].status = "reversal_pending"
               PROVE  journal[a.box[i].id] # None
    BY DEF ReversalsAreVerifiable
  <2>1. Sound(a, journal)
    BY DEF MemoryInv
  <2>2. a.box[i] \in ToSet(a.box)
    BY DEF ToSet
  <2> QED
    BY <2>1, <2>2 DEF Sound
<1> QED
  BY MemoryIsKept, <1>1, PTL

\* Once the outbox is clear, every settlement that stands has been written to
\* the store and not been taken back: what the table paid for is remembered
\* (engine/memory_outbox.py), although the story may have gone back before,
\* the process died or the store failed, and entries fallen out of the window.
THEOREM SettlementsAreRemembered == Spec => []SettledIsRemembered
<1>1. MemoryInv => SettledIsRemembered
  <2> SUFFICES ASSUME MemoryInv, Quiet, NEW s \in Settlements, live.settled[s] > Open
               PROVE  /\ journal[s] # None /\ journal[s].status = "applied"
                      /\ rows[s] # "absent"
    BY DEF SettledIsRemembered
  <2>1. ASSUME journal[s] = None PROVE FALSE
    <3>1. PICK d \in ToSet(live.box) : d.id = s /\ d.status = "pending"
      BY <2>1 DEF MemoryInv, Sound
    <3>2. \E i \in DOMAIN live.box : live.box[i].status = "pending"
      BY <3>1 DEF ToSet
    <3> QED
      BY <3>2 DEF Quiet, Unresolved, IsActive
  <2> QED
    BY <2>1 DEF MemoryInv, Remembered
<1> QED
  BY MemoryIsKept, <1>1, PTL
=============================================================================
