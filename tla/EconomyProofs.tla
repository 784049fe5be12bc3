--------------------------- MODULE EconomyProofs ---------------------------
(***************************************************************************)
(* The types and the safety of Economy, and of the overlapping rounds of   *)
(* RoundTable, proved for any number of players, offers, groups and        *)
(* coroutines, any terms and any bounds.                                   *)
(*                                                                         *)
(* First lemmas on the operators, and that TypeOK is an invariant.  Then   *)
(* what a decision and a rewind do to each record, as facts about its      *)
(* fields; and one inductive invariant per section: the story, the effect  *)
(* groups, the memory they send out, the ledger, and what the sheets carry *)
(* of it.  Last, that these outlast the rounds that come too late, and     *)
(* what the gate adds.                                                     *)
(***************************************************************************)
EXTENDS RoundTable, FiniteSetTheorems, WellFoundedInduction, TLAPS

----------------------------------------------------------------------------
(***************************************************************************)
(* Lemmas on sets and sequences.                                           *)
(***************************************************************************)

\* FirstOf finds the least element of any nonempty set of positions.
LEMMA FirstOfIs ==
    ASSUME NEW S \in SUBSET Nat, S # {}
    PROVE  FirstOf(S) \in S /\ \A i \in S : FirstOf(S) <= i
<1>1. PICK x \in S : \A y \in S : ~(<<y, x>> \in OpToRel(<, Nat))
  BY NatLessThanWellFounded, WFMin
<1>2. ASSUME NEW y \in S PROVE x <= y
  <2>1. <<y, x>> \in Nat \X Nat
    OBVIOUS
  <2>2. ~(y < x)
    BY <1>1, <2>1 DEF OpToRel
  <2> QED
    BY <2>2
<1> QED
  BY <1>2 DEF FirstOf

\* A set of the first positions is what its cardinality says.
LEMMA InitialSegment ==
    ASSUME NEW n \in Nat, NEW S \in SUBSET (1..n),
           \A i \in S : \A j \in 1..i : j \in S
    PROVE  /\ Cardinality(S) \in 0..n
           /\ S = 1..Cardinality(S)
<1>1. /\ IsFiniteSet(S) /\ Cardinality(S) \in Nat
      /\ Cardinality(S) <= n
  <2>1. IsFiniteSet(1..n) /\ Cardinality(1..n) = n
    BY FS_Interval
  <2>2. IsFiniteSet(S) /\ Cardinality(S) <= Cardinality(1..n)
    BY <2>1, FS_Subset, Zenon
  <2> QED
    BY <2>1, <2>2, FS_CardinalityType
<1>2. ASSUME NEW j \in S PROVE j <= Cardinality(S)
  <2>1. (1..j) \subseteq S
    OBVIOUS
  <2>2. Cardinality(1..j) = j
    BY FS_Interval
  <2>3. Cardinality(1..j) <= Cardinality(S)
    BY <1>1, <2>1, FS_Subset, Zenon
  <2> QED
    BY <2>2, <2>3
<1>3. S \in SUBSET (1..Cardinality(S))
  BY <1>1, <1>2
<1>4. IsFiniteSet(1..Cardinality(S)) /\ Cardinality(1..Cardinality(S)) = Cardinality(S)
  BY <1>1, FS_Interval
<1>5. 1..Cardinality(S) = S
  BY <1>3, <1>4, FS_Subset, Zenon
<1> QED
  BY <1>1, <1>5

\* A prefix of a sequence over S is one too.
LEMMA PrefixType ==
    ASSUME NEW S, NEW s \in Seq(S), NEW n \in 0..Len(s)
    PROVE  SubSeq(s, 1, n) \in Seq(S)
OBVIOUS

\* A finite set, as a sequence, is a sequence of its elements.
LEMMA SetToSeqType ==
    ASSUME NEW S, IsFiniteSet(S)
    PROVE  SetToSeq(S) \in Seq(S)
<1>1. Cardinality(S) \in Nat /\ ExistsBijection(1..Cardinality(S), S)
  BY FS_CardinalityType
<1>2. \E f \in [1..Cardinality(S) -> S] : IsInjective(f)
  BY <1>1 DEF ExistsBijection, Bijection, Injection
<1>3. SetToSeq(S) \in [1..Cardinality(S) -> S]
  BY <1>2 DEF SetToSeq
<1> QED
  BY <1>1, <1>3

----------------------------------------------------------------------------
(***************************************************************************)
(* Types.  TypeOK is not inductive alone: settling an offer edits its      *)
(* effect group, which must be there.                                      *)
(***************************************************************************)

GroupsExist ==
    \A o \in Known : proposals[o].group # None => groups[proposals[o].group] # None

TypeInv == TypeOK /\ GroupsExist

ProposalMap == [Offers -> Proposal \cup {None}]
GroupMap    == [Groups -> Group \cup {None}]

LEMMA ProposalEdit ==
    ASSUME NEW p \in Proposal
    PROVE  /\ \A s \in OfferStatus : [p EXCEPT !.status = s] \in Proposal
           /\ \A s \in {"full", "deposit_pending", "deposit_paid"} :
                 [p EXCEPT !.stage = s] \in Proposal
BY DEF Proposal

LEMMA GroupEdit ==
    ASSUME NEW g \in Group,
           NEW s \in {"pending", "committed", "discarded", "superseded"}
    PROVE  [g EXCEPT !.status = s] \in Group
BY DEF Group

LEMMA NewProposalType ==
    ASSUME NEW t \in Terms, NEW g \in Groups \cup {None}, NEW r \in Nat
    PROVE  NewProposal(t, g, r) \in Proposal
BY DEF NewProposal, Proposal, OfferStatus

\* Terms are what queue_proposal lets through.
LEMMA TermsType ==
    ASSUME NEW t \in Terms
    PROVE  /\ t.kind \in Kinds /\ t.uid \in Players
           /\ t.amount \in Nat /\ t.deposit \in Nat /\ t.goods \in BOOLEAN
BY TermsAssumption DEF ValidTerms

LEMMA ReceiptType ==
    ASSUME TypeInv, NEW o \in Known, NEW stage \in {"deposit", "final"}
    PROVE  Receipt(o, stage) \in Transaction
<1>1. proposals[o] \in Proposal /\ o \in Offers
  BY DEF TypeInv, TypeOK, Known
<1>2. proposals[o].terms \in Terms
  BY <1>1 DEF Proposal
<1>3. Due(proposals[o]) \in Int
  BY <1>2, TermsType DEF Due
<1>4. sheets \in Sheets /\ round \in Nat
  BY DEF TypeInv, TypeOK
<1>5. /\ sheets.gold[proposals[o].terms.uid] \in Int
      /\ sheets.bag[proposals[o].terms.uid] \in SUBSET Offers
  BY <1>2, <1>4, TermsType DEF Sheets
<1> QED
  BY <1>1, <1>2, <1>3, <1>4, <1>5, TermsType DEF Receipt, Transaction

LEMMA BookedType ==
    ASSUME TypeInv, NEW x \in Transaction, x.uid \in Players
    PROVE  Booked(x) \in Sheets
<1>1. /\ sheets \in Sheets
      /\ x.uid \in Players /\ x.delta \in Int /\ x.offer \in Offers
  BY DEF TypeInv, TypeOK, Transaction
<1> DEFINE gold == [sheets.gold EXCEPT ![x.uid] = @ + x.delta]
           bag  == [sheets.bag EXCEPT ![x.uid] = IF x.goods THEN @ \cup {x.offer} ELSE @]
<1>2. gold \in [Players -> Int] /\ bag \in [Players -> SUBSET Offers]
  BY <1>1 DEF Sheets
<1>3. Booked(x) = [sheets EXCEPT !.gold = gold, !.bag = bag]
  BY <1>1 DEF Booked, Sheets
<1> QED
  BY <1>1, <1>2, <1>3 DEF Sheets

\* A decision keeps the proposals, the groups and the outbox in shape.
LEMMA DecideType ==
    ASSUME TypeInv, NEW o \in Known, NEW s \in OfferStatus, Decide(o, s)
    PROVE  /\ proposals' \in ProposalMap
           /\ groups' \in GroupMap
           /\ outbox' \in [Groups -> Delivery]
           /\ GroupsExist'
           /\ Released(groups') \subseteq Groups
<1>1. proposals' \in ProposalMap
  BY ProposalEdit DEF TypeInv, TypeOK, Known, Decide, ProposalMap
<1>2. /\ proposals'[o].group = proposals[o].group
      /\ \A p \in Offers \ {o} : proposals'[p] = proposals[p]
      /\ o \in Offers /\ proposals[o] \in Proposal
  BY DEF TypeInv, TypeOK, Known, Decide, Proposal
<1>3. CASE proposals[o].group = None
  BY <1>1, <1>2, <1>3 DEF Decide, SettledGroups, TypeInv, TypeOK, GroupsExist,
     Known, GroupMap, WithMemory, Released, Delivery
<1>4. CASE proposals[o].group # None
  <2>1. PICK g \in Groups : g = proposals[o].group /\ groups[g] \in Group
    BY <1>2, <1>4 DEF TypeInv, TypeOK, GroupsExist, Proposal
  <2>2. groups' \in GroupMap /\ \A h \in Groups : groups[h] # None => groups'[h] # None
    <3>1. \/ groups' = groups
          \/ \E st \in {"discarded", "committed"} :
                groups' = [groups EXCEPT ![g].status = st]
      BY <1>2, <2>1, <1>4, Zenon DEF Decide, SettledGroups
    <3>2. groups \in GroupMap
      BY DEF TypeInv, TypeOK, GroupMap
    <3>3. ASSUME NEW st \in {"discarded", "committed"}
          PROVE  [groups[g] EXCEPT !.status = st] \in Group \ {None}
      BY <2>1, GroupEdit, NoneAssumption
    <3>4. ASSUME NEW st \in {"discarded", "committed"},
                 groups' = [groups EXCEPT ![g].status = st]
          PROVE  groups' = [groups EXCEPT ![g] = [groups[g] EXCEPT !.status = st]]
      BY <3>4
    <3> QED
      BY <2>1, <3>1, <3>2, <3>3, <3>4 DEF GroupMap
  <2>3. GroupsExist'
    BY <1>1, <1>2, <2>1, <2>2 DEF TypeInv, GroupsExist, Known, ProposalMap, Proposal
  <2> QED
    BY <1>1, <2>2, <2>3 DEF Decide, WithMemory, Released, Delivery, TypeInv, TypeOK
<1> QED
  BY <1>3, <1>4

\* The effects of a decision keep the sheets in shape.
LEMMA WithEffectsType ==
    ASSUME NEW sh \in Sheets, NEW gs, Released(gs) \subseteq Groups
    PROVE  WithEffects(sh, gs) \in Sheets
BY DEF WithEffects, Sheets

\* What a response proposes keeps the proposals and the groups in shape.
LEMMA ResponseType ==
    ASSUME NEW props \in ProposalMap, NEW gs \in GroupMap, NEW r \in Nat,
           NEW news \in Responses, NEW g \in Groups \cup {None},
           \A o \in Offers : props[o] # None /\ props[o].group # None
                                => gs[props[o].group] # None
    PROVE  /\ WithRewards(props, news, g, r) \in ProposalMap
           /\ WithGroup(gs, news, g, r) \in GroupMap
           /\ \A o \in Offers :
                 LET p == WithRewards(props, news, g, r)[o] IN
                 p # None /\ p.group # None => WithGroup(gs, news, g, r)[p.group] # None
<1>1. DOMAIN news \subseteq Offers /\ \A o \in DOMAIN news : news[o] \in Terms
  BY DEF Responses
<1>2. WithRewards(props, news, g, r) \in ProposalMap
  BY <1>1, NewProposalType DEF WithRewards, ProposalMap
<1>3. [status |-> "pending", members |-> DOMAIN news, round |-> r] \in Group
  BY <1>1 DEF Group
<1>4. WithGroup(gs, news, g, r) \in GroupMap
  BY <1>3 DEF WithGroup, GroupMap
<1>5. ASSUME NEW h \in Groups, gs[h] # None \/ h = g
      PROVE  WithGroup(gs, news, g, r)[h] # None
  BY <1>3, <1>5, NoneAssumption DEF WithGroup
<1>6. ASSUME NEW o \in Offers, WithRewards(props, news, g, r)[o] # None,
             WithRewards(props, news, g, r)[o].group # None
      PROVE  WithGroup(gs, news, g, r)[WithRewards(props, news, g, r)[o].group] # None
  <2>1. CASE o \in DOMAIN news
    <3>1. WithRewards(props, news, g, r)[o].group = g
      BY <2>1 DEF WithRewards, NewProposal
    <3> QED
      BY <1>5, <1>6, <3>1
  <2>2. CASE o \notin DOMAIN news
    <3>1. WithRewards(props, news, g, r)[o] = props[o]
      BY <2>2 DEF WithRewards
    <3>2. props[o].group \in Groups
      BY <1>6, <3>1 DEF ProposalMap, Proposal
    <3> QED
      BY <1>5, <1>6, <3>1, <3>2
  <2> QED
    BY <2>1, <2>2
<1> QED
  BY <1>2, <1>4, <1>6

----------------------------------------------------------------------------
\* Withdrawing the economy to round r keeps it in shape.
LEMMA RewindType ==
    ASSUME TypeInv, NEW r \in Nat
    PROVE  /\ ReversedLedger(r) \in Seq(Transaction)
           /\ RewoundProposals(r) \in ProposalMap
           /\ RewoundGroups(r) \in GroupMap
           /\ RewoundOutbox(r) \in [Groups -> Delivery]
           /\ \A o \in Offers :
                 LET p == RewoundProposals(r)[o] IN
                 p # None /\ p.group # None => RewoundGroups(r)[p.group] # None
<1>1. ReversedLedger(r) \in Seq(Transaction)
  <2>1. transactions \in Seq(Transaction)
    BY DEF TypeInv, TypeOK
  <2>2. ASSUME NEW i \in DOMAIN transactions
        PROVE  [transactions[i] EXCEPT !.status = "reversed"] \in Transaction
    <3>1. transactions[i] \in Transaction
      BY <2>1
    <3> QED
      BY <3>1 DEF Transaction
  <2> QED
    BY <2>1, <2>2 DEF ReversedLedger
<1>2. ASSUME NEW o \in Known
      PROVE  /\ RewoundProposal(o, r) \in Proposal
             /\ RewoundProposal(o, r).group = proposals[o].group
  <2>1. proposals[o] \in Proposal
    BY DEF TypeInv, TypeOK, Known
  <2>2. ASSUME NEW p \in Proposal, NEW txs
        PROVE  Resynced(o, p, txs) \in Proposal /\ Resynced(o, p, txs).group = p.group
    <3>1. \A s \in {"full", "deposit_pending", "deposit_paid"} :
             [p EXCEPT !.stage = s].group = p.group
      BY DEF Proposal
    <3> QED
      BY <3>1, ProposalEdit DEF Resynced
  <2>3. \A s \in OfferStatus : [proposals[o] EXCEPT !.status = s].group = proposals[o].group
    BY <2>1 DEF Proposal
  <2>4. {"reversed", "superseded", "pending"} \subseteq OfferStatus
    BY DEF OfferStatus
  <2>5. \A s \in {"reversed", "superseded", "pending"} :
           /\ [proposals[o] EXCEPT !.status = s] \in Proposal
           /\ [proposals[o] EXCEPT !.status = s].group = proposals[o].group
    BY <2>1, <2>3, <2>4, ProposalEdit
  <2>6. CASE o \in OriginIn(r)
    BY <2>1, <2>5, <2>6 DEF RewoundProposal
  <2>7. CASE o \notin OriginIn(r)
    BY <2>1, <2>2, <2>5, <2>7 DEF RewoundProposal
  <2> QED
    BY <2>6, <2>7
<1>3. RewoundProposals(r) \in ProposalMap
  BY <1>2 DEF RewoundProposals, ProposalMap
<1>4. /\ RewoundGroups(r) \in GroupMap
      /\ \A g \in Groups : groups[g] # None => RewoundGroups(r)[g] # None
  <2>1. groups \in GroupMap
    BY DEF TypeInv, TypeOK, GroupMap
  <2>2. ASSUME NEW g \in Groups, groups[g] # None
        PROVE  [groups[g] EXCEPT !.status = "superseded"] \in Group \ {None}
    BY <2>1, <2>2, GroupEdit, NoneAssumption DEF GroupMap
  <2> QED
    BY <2>1, <2>2 DEF RewoundGroups, GroupIn, GroupMap
<1>5. RewoundOutbox(r) \in [Groups -> Delivery]
  BY DEF RewoundOutbox, Delivery, TypeInv, TypeOK
<1>6. ASSUME NEW o \in Offers, RewoundProposals(r)[o] # None,
             RewoundProposals(r)[o].group # None
      PROVE  RewoundGroups(r)[RewoundProposals(r)[o].group] # None
  <2>1. o \in Known /\ RewoundProposals(r)[o] = RewoundProposal(o, r)
    BY <1>6 DEF RewoundProposals
  <2>2. proposals[o].group \in Groups \cup {None}
    BY <2>1 DEF TypeInv, TypeOK, Known, Proposal
  <2> QED
    BY <1>2, <1>4, <1>6, <2>1, <2>2 DEF TypeInv, GroupsExist
<1> QED
  BY <1>1, <1>3, <1>4, <1>5, <1>6

----------------------------------------------------------------------------
\* What a swipe does, variable by variable.
LEMMA SwipeRoundDoes ==
    ASSUME NEW i, NEW news, NEW g, SwipeRound(i, news, g)
    PROVE  /\ i \in DOMAIN log /\ rewinds < MaxRewinds
           /\ \A j \in 1..(i - 1) : log[j].round # log[i].round
           /\ log[i].pre # None
           /\ Fresh(news, g)
           /\ log' = BranchCut(log[i].round)
           /\ round' = log[i].round
           /\ proposals' = WithRewards(RewoundProposals(log[i].round), news, g, log[i].round)
           /\ transactions' = ReversedLedger(log[i].round)
           /\ groups' = WithGroup(RewoundGroups(log[i].round), news, g, log[i].round)
           /\ outbox' = RewoundOutbox(log[i].round)
           /\ sheets' = RewoundSheets(log[i].round, log[i].pre)
           /\ rewinds' = rewinds + 1
           /\ UNCHANGED <<phase, startSnapshot, seated, aborts>>
BY DEF SwipeRound, CanSwipe, Publish, Swiped

LEMMA SwipeOpeningDoes ==
    ASSUME NEW news, NEW g, SwipeOpening(news, g)
    PROVE  /\ log # <<>> /\ log[1].pre = None
           /\ rewinds < MaxRewinds
           /\ Fresh(news, g)
           /\ proposals' = WithRewards(proposals, news, g, round)
           /\ groups' = WithGroup(groups, news, g, round)
           /\ rewinds' = rewinds + 1
           /\ UNCHANGED <<progress, sheets, transactions, outbox, aborts>>
BY DEF SwipeOpening, CanSwipeOpening, Publish, SwipedOpening, Aggregate, progress

LEMMA RestoredType ==
    ASSUME NEW snap \in Sheets
    PROVE  Restored(snap) \in Sheets
BY DEF Restored, Sheets

LEMMA ReconciledType ==
    ASSUME NEW snap \in Sheets, NEW r, NEW txs \in Seq(Transaction)
    PROVE  Reconciled(snap, r, txs) \in Sheets
<1> DEFINE undone(u) == {i \in DOMAIN txs : /\ txs[i].status = "reversed"
                                            /\ txs[i].round = r
                                            /\ txs[i].uid = u}
           paid(u)  == {i \in undone(u) : txs[i].delta # 0}
           given(u) == {i \in undone(u) : txs[i].goods}
           gold == [u \in Players |-> IF paid(u) = {} THEN snap.gold[u]
                                      ELSE txs[FirstOf(paid(u))].before]
           bag  == [u \in Players |-> IF given(u) = {} THEN snap.bag[u]
                                      ELSE txs[FirstOf(given(u))].bag]
<1>1. ASSUME NEW S \in SUBSET DOMAIN txs, S # {}
      PROVE  txs[FirstOf(S)] \in Transaction
  <2>1. S \in SUBSET Nat
    OBVIOUS
  <2>2. FirstOf(S) \in S
    BY <1>1, <2>1, FirstOfIs, Zenon
  <2> QED
    BY <2>2
<1>2. gold \in [Players -> Int]
  <2>1. ASSUME NEW u \in Players, paid(u) # {}
        PROVE  txs[FirstOf(paid(u))].before \in Int
    <3>1. txs[FirstOf(paid(u))] \in Transaction
      BY <1>1, <2>1
    <3> QED
      BY <3>1 DEF Transaction
  <2> QED
    BY <2>1 DEF Sheets
<1>3. bag \in [Players -> SUBSET Offers]
  <2>1. ASSUME NEW u \in Players, given(u) # {}
        PROVE  txs[FirstOf(given(u))].bag \in SUBSET Offers
    <3>1. txs[FirstOf(given(u))] \in Transaction
      BY <1>1, <2>1
    <3> QED
      BY <3>1 DEF Transaction
  <2> QED
    BY <2>1 DEF Sheets
<1>4. Reconciled(snap, r, txs) = [snap EXCEPT !.gold = gold, !.bag = bag]
  BY DEF Reconciled
<1> QED
  BY <1>2, <1>3, <1>4 DEF Sheets

LEMMA RewoundSheetsType ==
    ASSUME TypeInv, NEW r \in Nat, NEW snap \in Sheets \cup {None}
    PROVE  RewoundSheets(r, snap) \in Sheets
BY RewindType, RestoredType, ReconciledType DEF RewoundSheets, TypeInv, TypeOK

----------------------------------------------------------------------------
(***************************************************************************)
(* Copies of the aggregate, which a swipe rewrites: what TypeInv says of   *)
(* the variables, said of a copy.                                          *)
(***************************************************************************)
CopyType(c) ==
    /\ c \in Copies
    /\ \A o \in Offers : c.proposals[o] # None /\ c.proposals[o].group # None
                              => c.groups[c.proposals[o].group] # None

LEMMA PublishType ==
    ASSUME NEW c, CopyType(c), Publish(c), rewinds' \in Nat, aborts' \in Nat
    PROVE  TypeInv'
<1>1. TypeOK'
  BY DEF CopyType, Copies, Publish, TypeOK
<1>2. GroupsExist'
  BY DEF CopyType, Publish, GroupsExist, Known
<1> QED
  BY <1>1, <1>2 DEF TypeInv

LEMMA AggregateType == TypeInv => CopyType(Aggregate)
BY DEF TypeInv, TypeOK, GroupsExist, Known, CopyType, Copies, Aggregate

LEMMA SwipedType ==
    ASSUME TypeInv, NEW news \in Responses, NEW g \in Groups \cup {None}, NEW i \in DOMAIN log
    PROVE  CopyType(Swiped(i, news, g))
<1> DEFINE r == log[i].round
<1>1. log[i] \in LogEntry /\ log \in Seq(LogEntry)
  BY DEF TypeInv, TypeOK
<1>2. r \in Nat /\ log[i].pre \in Sheets \cup {None}
  BY <1>1 DEF LogEntry
<1>3. BranchCut(r) \in Seq(LogEntry)
  <2>1. {j \in DOMAIN log : log[j].round <= r} \in SUBSET (1..Len(log))
    BY <1>1
  <2>2. IsFiniteSet(1..Len(log)) /\ Cardinality(1..Len(log)) = Len(log)
    BY <1>1, FS_Interval
  <2>3. Cardinality({j \in DOMAIN log : log[j].round <= r}) \in 0..Len(log)
    BY <1>1, <2>1, <2>2, FS_Subset, FS_CardinalityType
  <2> QED
    BY <1>1, <2>3, PrefixType DEF BranchCut
<1> DEFINE props == WithRewards(RewoundProposals(r), news, g, r)
           gs    == WithGroup(RewoundGroups(r), news, g, r)
<1>4. /\ props \in ProposalMap /\ gs \in GroupMap
      /\ \A o \in Offers : props[o] # None /\ props[o].group # None => gs[props[o].group] # None
  BY <1>2, RewindType, ResponseType
<1>5. /\ RewoundSheets(r, log[i].pre) \in Sheets
      /\ ReversedLedger(r) \in Seq(Transaction) /\ RewoundOutbox(r) \in [Groups -> Delivery]
  BY <1>2, RewindType, RewoundSheetsType
<1>6. Swiped(i, news, g) = [phase |-> phase, round |-> r, log |-> BranchCut(r),
         startSnapshot |-> startSnapshot, seated |-> seated,
         sheets |-> RewoundSheets(r, log[i].pre), proposals |-> props,
         transactions |-> ReversedLedger(r), groups |-> gs, outbox |-> RewoundOutbox(r)]
  BY DEF Swiped
<1> HIDE DEF r, props, gs
<1> QED
  BY <1>2, <1>3, <1>4, <1>5, <1>6
     DEF CopyType, Copies, TypeInv, TypeOK, ProposalMap, GroupMap

LEMMA SwipedOpeningType ==
    ASSUME TypeInv, NEW news \in Responses, NEW g \in Groups \cup {None}
    PROVE  CopyType(SwipedOpening(news, g))
<1> DEFINE props == WithRewards(proposals, news, g, round)
           gs    == WithGroup(groups, news, g, round)
<1>1. /\ proposals \in ProposalMap /\ groups \in GroupMap /\ round \in Nat
      /\ \A o \in Offers : proposals[o] # None /\ proposals[o].group # None
                              => groups[proposals[o].group] # None
  BY DEF TypeInv, TypeOK, GroupsExist, Known, ProposalMap, GroupMap
<1>2. /\ props \in ProposalMap /\ gs \in GroupMap
      /\ \A o \in Offers : props[o] # None /\ props[o].group # None => gs[props[o].group] # None
  BY <1>1, ResponseType
<1>3. SwipedOpening(news, g) = [Aggregate EXCEPT !.proposals = props, !.groups = gs]
  BY DEF SwipedOpening
<1> HIDE DEF props, gs
<1>4. CopyType(Aggregate)
  BY AggregateType
<1>5. [Aggregate EXCEPT !.proposals = props, !.groups = gs] \in Copies
  BY <1>2, <1>4 DEF CopyType, Copies, ProposalMap, GroupMap
<1>6. LET c == [Aggregate EXCEPT !.proposals = props, !.groups = gs]
      IN  c.proposals = props /\ c.groups = gs
  BY DEF Aggregate
<1> QED
  BY <1>2, <1>3, <1>5, <1>6 DEF CopyType

----------------------------------------------------------------------------
\* What there is of offers and groups at the start, the opening proposed.
LEMMA Opening ==
    ASSUME Init
    PROVE  \E news \in Responses, g \in Groups \cup {None} :
              /\ DOMAIN news \subseteq Offers /\ \A o \in DOMAIN news : news[o] \in Terms
              /\ g # None => DOMAIN news # {}
              /\ proposals = WithRewards([o \in Offers |-> None], news, g, 1)
              /\ groups = WithGroup([h \in Groups |-> None], news, g, 1)
<1>1. PICK news \in Openings, g \in Groups \cup {None} :
         /\ g # None => DOMAIN news # {}
         /\ proposals = WithRewards([o \in Offers |-> None], news, g, 1)
         /\ groups = WithGroup([h \in Groups |-> None], news, g, 1)
  BY DEF Init
<1>2. news \in Responses
  BY DEF Openings
<1>3. DOMAIN news \subseteq Offers /\ \A o \in DOMAIN news : news[o] \in Terms
  BY <1>2 DEF Responses
<1> QED
  BY <1>1, <1>2, <1>3

LEMMA InitType == Init => TypeInv
<1> SUFFICES ASSUME Init PROVE TypeInv
  OBVIOUS
<1>1. sheets \in Sheets
  BY PurseAssumption DEF Init, Sheets
<1>2. log \in Seq(LogEntry)
  <2>1. [round |-> 0, start |-> None, pre |-> None] \in LogEntry
    BY DEF LogEntry
  <2> QED
    BY <2>1 DEF Init
<1>3. PICK news \in Responses, g \in Groups \cup {None} :
         /\ proposals = WithRewards([o \in Offers |-> None], news, g, 1)
         /\ groups = WithGroup([h \in Groups |-> None], news, g, 1)
  BY Opening
<1>4. proposals \in ProposalMap /\ groups \in GroupMap /\ GroupsExist
  <2> DEFINE props == [o \in Offers |-> None]
             gs == [h \in Groups |-> None]
  <2>1. props \in ProposalMap /\ gs \in GroupMap /\ \A o \in Offers : props[o] = None
    BY DEF ProposalMap, GroupMap
  <2>2. proposals = WithRewards(props, news, g, 1) /\ groups = WithGroup(gs, news, g, 1)
    BY <1>3
  <2> HIDE DEF props, gs
  <2> QED
    BY <2>1, <2>2, ResponseType DEF GroupsExist, Known
<1> QED
  BY <1>1, <1>2, <1>4 DEF Init, TypeInv, TypeOK, ProposalMap, GroupMap, Delivery

(***************************************************************************)
(* The steps of Economy, and two of them as the round engine and the       *)
(* economy would take them if their callers asked for nothing: a quote, or *)
(* the record of a round, in any phase.  Where rounds overlap, a coroutine *)
(* can come to them so (RoundTable).                                       *)
(***************************************************************************)
UnguardedNext == \/ Next
                 \/ \E o \in Offers, t \in Terms : QueueOffer(o, t)
                 \/ \E news \in Responses, g \in Groups \cup {None} : RecordRound(news, g)

\* One step per action; each says what the action can disturb.
LEMMA UnguardedType == TypeInv /\ [UnguardedNext]_vars => TypeInv'
<1> SUFFICES ASSUME TypeInv, [UnguardedNext]_vars PROVE TypeInv'
  OBVIOUS
<1> USE DEF progress, ledger, bounds
<1>1. ASSUME NEW o \in Offers, NEW t \in Terms, QueueOffer(o, t)
      PROVE  TypeInv'
  <2>1. NewProposal(t, None, round) \in Proposal /\ NewProposal(t, None, round).group = None
    BY NewProposalType DEF TypeInv, TypeOK, NewProposal
  <2> QED
    BY <1>1, <2>1 DEF QueueOffer, TypeInv, TypeOK, GroupsExist, Known
<1>2. ASSUME NEW o \in Offers, NEW a \in Actors, PayDeposit(o, a)
      PROVE  TypeInv'
  <2>1. o \in Known /\ proposals[o] \in Proposal
    BY <1>2 DEF PayDeposit, WithStatus, TypeInv, TypeOK, Known
  <2>2. Receipt(o, "deposit") \in Transaction
    BY <2>1, ReceiptType
  <2>3. Receipt(o, "deposit").uid \in Players
    BY <2>1, TermsType DEF Receipt, Proposal
  <2>4. sheets' \in Sheets /\ transactions' \in Seq(Transaction)
    BY <1>2, <2>2, <2>3, BookedType DEF PayDeposit, TypeInv, TypeOK
  <2>5. proposals' \in ProposalMap
    BY <1>2, <2>1, ProposalEdit DEF PayDeposit, TypeInv, TypeOK, ProposalMap
  <2>6. GroupsExist'
    BY <1>2, <2>1 DEF PayDeposit, TypeInv, TypeOK, GroupsExist, Known, Proposal
  <2> QED
    BY <1>2, <2>4, <2>5, <2>6 DEF PayDeposit, TypeInv, TypeOK, ProposalMap
<1>3. ASSUME NEW o \in Offers, NEW a \in Actors, Settle(o, a)
      PROVE  TypeInv'
  <2>1. o \in Known /\ proposals[o] \in Proposal /\ "committed" \in OfferStatus
    BY <1>3 DEF Settle, WithStatus, TypeInv, TypeOK, Known, OfferStatus
  <2>2. Receipt(o, "final") \in Transaction
    BY <2>1, ReceiptType
  <2>3. Receipt(o, "final").uid \in Players
    BY <2>1, TermsType DEF Receipt, Proposal
  <2>4. Decide(o, "committed")
    BY <1>3 DEF Settle
  <2>5. /\ proposals' \in ProposalMap /\ groups' \in GroupMap
        /\ outbox' \in [Groups -> Delivery] /\ GroupsExist'
        /\ Released(groups') \subseteq Groups
    BY <2>1, <2>4, DecideType
  <2>6. sheets' \in Sheets
    BY <1>3, <2>2, <2>3, <2>5, BookedType, WithEffectsType DEF Settle
  <2> QED
    BY <1>3, <2>2, <2>5, <2>6 DEF Settle, TypeInv, TypeOK, ProposalMap, GroupMap
<1>4. ASSUME NEW o \in Offers, NEW a \in Actors, RejectForFunds(o, a) \/ Refuse(o, a)
      PROVE  TypeInv'
  <2>1. o \in Known /\ {"rejected", "cancelled", "declined"} \subseteq OfferStatus
    BY <1>4 DEF RejectForFunds, Refuse, WithStatus, OfferStatus
  <2>2. PICK s \in OfferStatus : Decide(o, s)
    BY <1>4, <2>1 DEF RejectForFunds, Refuse
  <2>3. /\ proposals' \in ProposalMap /\ groups' \in GroupMap
        /\ outbox' \in [Groups -> Delivery] /\ GroupsExist'
    BY <2>1, <2>2, DecideType
  <2> QED
    BY <1>4, <2>3 DEF RejectForFunds, Refuse, TypeInv, TypeOK, ProposalMap, GroupMap
<1>5. ASSUME NEW u \in Players, DeleteCharacter(u)
      PROVE  TypeInv'
  <2> DEFINE gone == {o \in WithStatus("pending") : proposals[o].terms.uid = u}
             refunded == {o \in gone : /\ proposals[o].stage = "deposit_paid"
                                       /\ Committed(transactions, o, {"deposit"}) # {}}
  <2>1. /\ sheets' \in Sheets
        /\ seated' \in SUBSET Players
    <3>1. /\ sheets \in Sheets /\ seated \in SUBSET Players
          /\ sheets' = [sheets EXCEPT !.gold[u] = 0, !.bag[u] = {}]
          /\ seated' = seated \ {u}
      BY <1>5 DEF DeleteCharacter, TypeInv, TypeOK
    <3>2. sheets' = [sheets EXCEPT !.gold = [sheets.gold EXCEPT ![u] = 0],
                                   !.bag  = [sheets.bag EXCEPT ![u] = {}]]
      BY <3>1 DEF Sheets
    <3>3. /\ [sheets.gold EXCEPT ![u] = 0] \in [Players -> Int]
          /\ [sheets.bag EXCEPT ![u] = {}] \in [Players -> SUBSET Offers]
      BY <3>1 DEF Sheets
    <3>4. sheets' \in Sheets
      BY <3>1, <3>2, <3>3 DEF Sheets
    <3> QED
      BY <3>1, <3>4
  <2>2. \A o \in gone : /\ o \in Known /\ proposals[o] \in Proposal
                         /\ [proposals[o] EXCEPT !.status = "cancelled"] \in Proposal
                         /\ [proposals[o] EXCEPT !.status = "cancelled"].group
                               = proposals[o].group
    <3>1. \A o \in gone : o \in Known /\ proposals[o] \in Proposal
      BY DEF WithStatus, Known, TypeInv, TypeOK
    <3>2. ASSUME NEW p \in Proposal
          PROVE  /\ [p EXCEPT !.status = "cancelled"] \in Proposal
                 /\ [p EXCEPT !.status = "cancelled"].group = p.group
      BY DEF Proposal, OfferStatus
    <3> QED
      BY <3>1, <3>2
  <2>3. proposals' = [o \in Offers |-> IF o \in gone
                                       THEN [proposals[o] EXCEPT !.status = "cancelled"]
                                       ELSE proposals[o]]
    BY <1>5 DEF DeleteCharacter
  <2>4. proposals' \in ProposalMap
    BY <2>2, <2>3 DEF ProposalMap, TypeInv, TypeOK
  <2>5. /\ groups' \in GroupMap
        /\ \A g \in Groups : groups[g] # None => groups'[g] # None
    <3>1. ASSUME NEW g \in Groups, groups[g] # None
          PROVE  [groups[g] EXCEPT !.status = "discarded"] \in Group \ {None}
      <4>1. groups[g] \in Group
        BY <3>1 DEF TypeInv, TypeOK
      <4> QED
        BY <4>1, GroupEdit, NoneAssumption
    <3>2. groups' = [g \in Groups |->
                       IF /\ groups[g] # None
                          /\ groups[g].status = "pending"
                          /\ groups[g].members \cap gone # {}
                       THEN [groups[g] EXCEPT !.status = "discarded"]
                       ELSE groups[g]]
      BY <1>5 DEF DeleteCharacter
    <3> QED
      BY <3>1, <3>2 DEF GroupMap, TypeInv, TypeOK
  <2>6. GroupsExist'
    BY <2>2, <2>3, <2>5 DEF GroupsExist, Known, Proposal, TypeInv, TypeOK
  <2>7. transactions' \in Seq(Transaction)
    <3>1. IsFiniteSet(refunded)
      BY OffersAssumption, FS_Subset DEF WithStatus, Known
    <3>2. \A o \in refunded : Refund(o) \in Transaction
      BY DEF Refund, Transaction, WithStatus, Known, TypeInv, TypeOK
    <3>3. IsFiniteSet({Refund(o) : o \in refunded})
      <4> DEFINE f == [o \in refunded |-> Refund(o)]
      <4>1. f \in Surjection(refunded, {Refund(o) : o \in refunded})
        BY DEF Surjection
      <4> QED
        BY <3>1, <4>1, FS_Surjection
    <3>4. SetToSeq({Refund(o) : o \in refunded}) \in Seq({Refund(o) : o \in refunded})
      BY <3>3, SetToSeqType
    <3>5. SetToSeq({Refund(o) : o \in refunded}) \in Seq(Transaction)
      BY <3>2, <3>4
    <3>6. transactions' = transactions \o SetToSeq({Refund(o) : o \in refunded})
      BY <1>5 DEF DeleteCharacter
    <3> QED
      BY <3>5, <3>6 DEF TypeInv, TypeOK
  <2> QED
    BY <1>5, <2>1, <2>4, <2>5, <2>6, <2>7
       DEF DeleteCharacter, TypeInv, TypeOK, ProposalMap, GroupMap
<1>6. ASSUME NEW done \in SUBSET Groups, DeliverMemory(done)
      PROVE  TypeInv'
  BY <1>6 DEF DeliverMemory, TypeInv, TypeOK, GroupsExist, Known, Delivery
<1>7. ASSUME BeginJudgment \/ RecoverJudgment \/ ResumeGame
      PROVE  TypeInv'
  BY <1>7 DEF BeginJudgment, RecoverJudgment, ResumeGame, TypeInv, TypeOK, GroupsExist, Known
<1>8. ASSUME NEW news \in Responses, NEW g \in Groups \cup {None}, RecordRound(news, g)
      PROVE  TypeInv'
  <2>1. /\ proposals' \in ProposalMap /\ groups' \in GroupMap
        /\ GroupsExist'
    <3>1. /\ proposals \in ProposalMap /\ groups \in GroupMap /\ round \in Nat
          /\ \A o \in Offers : proposals[o] # None /\ proposals[o].group # None
                                => groups[proposals[o].group] # None
      BY DEF TypeInv, TypeOK, GroupsExist, Known, ProposalMap, GroupMap
    <3>2. /\ proposals' = WithRewards(proposals, news, g, round)
          /\ groups' = WithGroup(groups, news, g, round)
      BY <1>8 DEF RecordRound
    <3> QED
      BY <3>1, <3>2, ResponseType DEF GroupsExist, Known
  <2>2. log' \in Seq(LogEntry)
    <3>1. [round |-> round, start |-> IF startSnapshot = None THEN sheets ELSE startSnapshot,
           pre |-> sheets] \in LogEntry
      BY DEF TypeInv, TypeOK, LogEntry
    <3> QED
      BY <1>8, <3>1 DEF RecordRound, TypeInv, TypeOK
  <2> QED
    BY <1>8, <2>1, <2>2 DEF RecordRound, TypeInv, TypeOK, ProposalMap, GroupMap
<1>9. ASSUME AbortJudgment
      PROVE  TypeInv'
  BY <1>9, RestoredType DEF AbortJudgment, TypeInv, TypeOK, GroupsExist, Known
<1>10. ASSUME RollbackLastRound
       PROVE  TypeInv'
  <2> DEFINE last == log[Len(log)]
             r == IF last.round = 0 THEN round ELSE last.round
  <2>1. last \in LogEntry /\ log \in Seq(LogEntry) /\ log # <<>>
    BY <1>10 DEF RollbackLastRound, TypeInv, TypeOK
  <2>2. r \in Nat /\ last.start \in Sheets \cup {None}
    BY <2>1 DEF LogEntry, TypeInv, TypeOK
  <2>3. log' \in Seq(LogEntry)
    BY <1>10, <2>1 DEF RollbackLastRound
  <2>4. /\ round' = r /\ proposals' = RewoundProposals(r)
        /\ transactions' = ReversedLedger(r) /\ groups' = RewoundGroups(r)
        /\ outbox' = RewoundOutbox(r) /\ sheets' = RewoundSheets(r, last.start)
    BY <1>10 DEF RollbackLastRound
  <2>5. GroupsExist'
    BY <2>2, <2>4, RewindType DEF GroupsExist, Known
  <2>6. sheets' \in Sheets
    BY <2>2, <2>4, RewoundSheetsType
  <2>7. /\ transactions' \in Seq(Transaction) /\ proposals' \in ProposalMap
        /\ groups' \in GroupMap /\ outbox' \in [Groups -> Delivery]
    BY <2>2, <2>4, RewindType
  <2> HIDE DEF last, r
  <2> QED
    BY <1>10, <2>2, <2>3, <2>4, <2>5, <2>6, <2>7
       DEF RollbackLastRound, TypeInv, TypeOK, ProposalMap, GroupMap
<1>11. ASSUME NEW news \in Responses, NEW g \in Groups \cup {None}, NEW i \in DOMAIN log,
              SwipeRound(i, news, g)
       PROVE  TypeInv'
  <2>1. CopyType(Swiped(i, news, g)) /\ Publish(Swiped(i, news, g))
    BY <1>11, SwipedType DEF SwipeRound
  <2>2. rewinds' \in Nat /\ aborts' \in Nat
    BY <1>11 DEF SwipeRound, TypeInv, TypeOK
  <2> QED
    BY <2>1, <2>2, PublishType
<1>12. ASSUME NEW news \in Responses, NEW g \in Groups \cup {None}, SwipeOpening(news, g)
       PROVE  TypeInv'
  <2>1. CopyType(SwipedOpening(news, g)) /\ Publish(SwipedOpening(news, g))
    BY <1>12, SwipedOpeningType DEF SwipeOpening
  <2>2. rewinds' \in Nat /\ aborts' \in Nat
    BY <1>12 DEF SwipeOpening, TypeInv, TypeOK
  <2> QED
    BY <2>1, <2>2, PublishType
<1>13. ASSUME UNCHANGED vars
       PROVE  TypeInv'
  BY <1>13 DEF vars, TypeInv, TypeOK, GroupsExist, Known
<1> QED
  BY <1>1, <1>2, <1>3, <1>4, <1>5, <1>6, <1>7, <1>8, <1>9, <1>10, <1>11, <1>12, <1>13
     DEF UnguardedNext, Next, Decision, Rewind, QueueCharge, FinishJudgment

LEMMA NextType == TypeInv /\ [Next]_vars => TypeInv'
BY UnguardedType DEF UnguardedNext

(***************************************************************************)
(* Every operation of the round engine and of the economy keeps the        *)
(* aggregate in the shape it is persisted in.                              *)
(***************************************************************************)
THEOREM TypeCorrect == Spec => []TypeOK
<1>1. TypeInv => TypeOK
  BY DEF TypeInv
<1> QED
  BY <1>1, InitType, NextType, PTL DEF Spec

----------------------------------------------------------------------------
(***************************************************************************)
(* Safety.                                                                 *)
(***************************************************************************)

Refusals == {"declined", "cancelled", "rejected"}

\* The entries of the log and of the ledger are what they should be.
LEMMA Entries ==
    ASSUME TypeInv
    PROVE  /\ \A i \in DOMAIN log : log[i] \in LogEntry /\ log[i].round \in Nat
           /\ \A i \in DOMAIN transactions :
                 transactions[i] \in Transaction /\ transactions[i].round \in Nat
<1>1. \A i \in DOMAIN log : log[i] \in LogEntry
  BY DEF TypeInv, TypeOK
<1>2. \A i \in DOMAIN transactions : transactions[i] \in Transaction
  BY DEF TypeInv, TypeOK
<1> QED
  BY <1>1, <1>2 DEF LogEntry, Transaction

LEMMA AppendParts ==
    ASSUME NEW S, NEW s \in Seq(S), NEW x \in S
    PROVE  /\ DOMAIN s = 1..Len(s) /\ Len(s) \in Nat
           /\ DOMAIN Append(s, x) = 1..(Len(s) + 1)
           /\ \A i \in 1..Len(s) : Append(s, x)[i] = s[i]
           /\ Append(s, x)[Len(s) + 1] = x
OBVIOUS

LEMMA ConcatParts ==
    ASSUME NEW S, NEW s \in Seq(S), NEW t \in Seq(S)
    PROVE  /\ DOMAIN s \subseteq DOMAIN (s \o t)
           /\ \A i \in DOMAIN s : (s \o t)[i] = s[i]
           /\ \A i \in DOMAIN (s \o t) : i \in DOMAIN s
                                        \/ \E j \in DOMAIN t : (s \o t)[i] = t[j]
OBVIOUS

----------------------------------------------------------------------------
(***************************************************************************)
(* What a decision does.                                                   *)
(***************************************************************************)

\* Only the status of the decided offer changes.
LEMMA DecideOffer ==
    ASSUME TypeInv, NEW o \in Known, NEW s \in OfferStatus, Decide(o, s)
    PROVE  /\ Known' = Known
           /\ \A p \in Offers : p # o => proposals'[p] = proposals[p]
           /\ proposals'[o].status = s
           /\ proposals'[o].round = proposals[o].round
           /\ proposals'[o].group = proposals[o].group
           /\ proposals'[o].stage = proposals[o].stage
           /\ proposals'[o].terms = proposals[o].terms
<1>1. proposals \in ProposalMap /\ o \in Offers /\ proposals[o] \in Proposal
  BY DEF TypeInv, TypeOK, Known, ProposalMap
<1>2. proposals' = [proposals EXCEPT ![o].status = s]
  BY DEF Decide
<1>3. proposals'[o] = [proposals[o] EXCEPT !.status = s]
  BY <1>1, <1>2 DEF ProposalMap
<1>4. proposals'[o] # None
  <2>1. [proposals[o] EXCEPT !.status = s] \in Proposal
    BY <1>1, ProposalEdit
  <2> QED
    BY <1>3, <2>1, NoneAssumption
<1> QED
  BY <1>1, <1>2, <1>3, <1>4 DEF Proposal, ProposalMap, Known

\* Only the offer's group can change, from pending: to discarded if the
\* decision is a refusal, to committed if it makes the last member committed.
LEMMA DecideGroup ==
    ASSUME TypeInv, NEW o \in Known, NEW s \in OfferStatus, Decide(o, s),
           NEW g \in Groups
    PROVE  /\ groups[g] = None => groups'[g] = None
           /\ groups[g] # None =>
                 /\ groups'[g] # None
                 /\ groups'[g].members = groups[g].members
                 /\ groups'[g].round = groups[g].round
                 /\ IF g = proposals[o].group /\ groups[g].status = "pending"
                    THEN groups'[g].status =
                           IF s \in Refusals THEN "discarded"
                           ELSE IF \A m \in groups[g].members :
                                      proposals'[m].status = "committed"
                           THEN "committed" ELSE "pending"
                    ELSE groups'[g].status = groups[g].status
<1>1. groups \in GroupMap /\ groups' = SettledGroups(proposals', o)
  BY DEF TypeInv, TypeOK, GroupMap, Decide
<1>2. proposals'[o].group = proposals[o].group /\ proposals'[o].status = s
  BY DecideOffer
<1>3. CASE g = proposals[o].group /\ g # None /\ groups[g] # None /\ groups[g].status = "pending"
  <2>1. groups[g] \in Group
    BY <1>1, <1>3 DEF GroupMap
  <2>2. ASSUME NEW st \in {"discarded", "committed"}
        PROVE  /\ [groups[g] EXCEPT !.status = st] # None
               /\ [groups[g] EXCEPT !.status = st].members = groups[g].members
               /\ [groups[g] EXCEPT !.status = st].round = groups[g].round
               /\ [groups[g] EXCEPT !.status = st].status = st
    <3>1. [groups[g] EXCEPT !.status = st] # None
      BY <2>1, GroupEdit, NoneAssumption
    <3> QED
      BY <2>1, <3>1 DEF Group
  <2>3. groups'[g] = IF s \in Refusals THEN [groups[g] EXCEPT !.status = "discarded"]
                     ELSE IF \A m \in groups[g].members : proposals'[m].status = "committed"
                     THEN [groups[g] EXCEPT !.status = "committed"] ELSE groups[g]
    BY <1>1, <1>2, <1>3 DEF SettledGroups, Refusals, GroupMap
  <2> QED
    BY <1>3, <2>2, <2>3
<1>4. CASE ~(g = proposals[o].group /\ groups[g] # None /\ groups[g].status = "pending")
  <2>1. groups'[g] = groups[g]
    <3>1. CASE proposals[o].group = None
      BY <1>1, <1>2, <3>1 DEF SettledGroups
    <3>2. CASE proposals[o].group # None
      <4>1. proposals[o].group \in Groups /\ groups[proposals[o].group] # None
        BY <3>2 DEF TypeInv, TypeOK, GroupsExist, Known, Proposal
      <4> QED
        BY <1>1, <1>2, <1>4, <4>1 DEF SettledGroups, GroupMap
    <3> QED
      BY <3>1, <3>2
  <2> QED
    BY <1>4, <2>1
<1> QED
  BY <1>3, <1>4, NoneAssumption

----------------------------------------------------------------------------
(***************************************************************************)
(* What a deletion does.                                                   *)
(***************************************************************************)

\* The proposals the deletion of u cancels.
Gone(u) == {o \in WithStatus("pending") : proposals[o].terms.uid = u}

LEMMA DeleteOffer ==
    ASSUME TypeInv, NEW u \in Players, DeleteCharacter(u)
    PROVE  /\ Known' = Known
           /\ \A o \in Known \ Gone(u) : proposals'[o] = proposals[o]
           /\ \A o \in Gone(u) : /\ o \in Known
                                 /\ proposals[o].status = "pending"
                                 /\ proposals'[o].status = "cancelled"
                                 /\ proposals'[o].round = proposals[o].round
                                 /\ proposals'[o].group = proposals[o].group
                                 /\ proposals'[o].stage = proposals[o].stage
<1>1. proposals' = [o \in Offers |-> IF o \in Gone(u)
                                     THEN [proposals[o] EXCEPT !.status = "cancelled"]
                                     ELSE proposals[o]]
  BY DEF DeleteCharacter, Gone
<1>2. \A o \in Gone(u) : /\ o \in Known /\ o \in Offers /\ proposals[o] \in Proposal
                         /\ proposals[o].status = "pending"
  BY DEF Gone, WithStatus, Known, TypeInv, TypeOK
<1>3. ASSUME NEW p \in Proposal
      PROVE  /\ [p EXCEPT !.status = "cancelled"] \in Proposal
             /\ [p EXCEPT !.status = "cancelled"].status = "cancelled"
             /\ [p EXCEPT !.status = "cancelled"].round = p.round
             /\ [p EXCEPT !.status = "cancelled"].group = p.group
             /\ [p EXCEPT !.status = "cancelled"].stage = p.stage
  BY DEF Proposal, OfferStatus
<1>4. Known' = Known
  BY <1>1, <1>2, <1>3, NoneAssumption DEF Known
<1> QED
  BY <1>1, <1>2, <1>3, <1>4 DEF Known

LEMMA DeleteGroup ==
    ASSUME TypeInv, NEW u \in Players, DeleteCharacter(u), NEW g \in Groups
    PROVE  /\ groups[g] = None <=> groups'[g] = None
           /\ groups[g] # None =>
                 /\ groups'[g].members = groups[g].members
                 /\ groups'[g].round = groups[g].round
                 /\ groups'[g].status =
                      IF groups[g].status = "pending" /\ groups[g].members \cap Gone(u) # {}
                      THEN "discarded" ELSE groups[g].status
<1>1. groups'[g] = IF /\ groups[g] # None
                      /\ groups[g].status = "pending"
                      /\ groups[g].members \cap Gone(u) # {}
                   THEN [groups[g] EXCEPT !.status = "discarded"]
                   ELSE groups[g]
  BY DEF DeleteCharacter, Gone
<1>2. ASSUME NEW e \in Group
      PROVE  /\ [e EXCEPT !.status = "discarded"] \in Group
             /\ [e EXCEPT !.status = "discarded"].status = "discarded"
             /\ [e EXCEPT !.status = "discarded"].members = e.members
             /\ [e EXCEPT !.status = "discarded"].round = e.round
  BY DEF Group
<1>3. groups[g] # None => groups[g] \in Group
  BY DEF TypeInv, TypeOK
<1> QED
  BY <1>1, <1>2, <1>3, NoneAssumption

\* A deletion adds nothing to the ledger but refunds of the deposits of the
\* proposals it cancels.
LEMMA DeleteLedger ==
    ASSUME TypeInv, NEW u \in Players, DeleteCharacter(u)
    PROVE  /\ DOMAIN transactions \subseteq DOMAIN transactions'
           /\ \A i \in DOMAIN transactions : transactions'[i] = transactions[i]
           /\ \A i \in DOMAIN transactions' \ DOMAIN transactions :
                 \E o \in Gone(u) : transactions'[i] = Refund(o)
<1> DEFINE refunded == {o \in Gone(u) : /\ proposals[o].stage = "deposit_paid"
                                        /\ Committed(transactions, o, {"deposit"}) # {}}
           refunds  == {Refund(o) : o \in refunded}
<1>1. transactions' = transactions \o SetToSeq(refunds)
  BY DEF DeleteCharacter, Gone
<1>2. IsFiniteSet(refunds)
  <2>1. IsFiniteSet(refunded)
    BY OffersAssumption, FS_Subset DEF Gone, WithStatus, Known
  <2> DEFINE f == [o \in refunded |-> Refund(o)]
  <2>2. f \in Surjection(refunded, refunds)
    BY DEF Surjection
  <2> QED
    BY <2>1, <2>2, FS_Surjection
<1>3. SetToSeq(refunds) \in Seq(refunds)
  BY <1>2, SetToSeqType
<1>4. refunds \subseteq Transaction
  <2>1. ASSUME NEW o \in Offers PROVE Refund(o) \in Transaction
    BY DEF Refund, Transaction, TypeInv, TypeOK
  <2>2. refunded \subseteq Offers
    BY DEF Gone, WithStatus, Known
  <2> QED
    BY <2>1, <2>2
<1>5. transactions \in Seq(Transaction) /\ SetToSeq(refunds) \in Seq(Transaction)
  BY <1>3, <1>4 DEF TypeInv, TypeOK
<1> HIDE DEF refunds
<1>6. \A j \in DOMAIN SetToSeq(refunds) : SetToSeq(refunds)[j] \in refunds
  BY <1>3
<1>7. \A i \in DOMAIN transactions' \ DOMAIN transactions : transactions'[i] \in refunds
  BY <1>1, <1>5, <1>6, ConcatParts
<1>8. /\ DOMAIN transactions \subseteq DOMAIN transactions'
      /\ \A i \in DOMAIN transactions : transactions'[i] = transactions[i]
  BY <1>1, <1>5, ConcatParts
<1> QED
  BY <1>7, <1>8 DEF refunds

----------------------------------------------------------------------------
(***************************************************************************)
(* What a rewind to round r does.                                          *)
(***************************************************************************)

LEMMA RewindLedger ==
    ASSUME TypeInv, NEW r \in Nat
    PROVE  /\ DOMAIN ReversedLedger(r) = DOMAIN transactions
           /\ \A i \in DOMAIN transactions :
                 /\ ReversedLedger(r)[i].round = transactions[i].round
                 /\ ReversedLedger(r)[i].offer = transactions[i].offer
                 /\ ReversedLedger(r)[i].stage = transactions[i].stage
                 /\ ReversedLedger(r)[i].status = "committed"
                      <=> transactions[i].status = "committed" /\ i \notin SettledIn(r)
<1>1. \A i \in DOMAIN transactions : transactions[i] \in Transaction
  BY DEF TypeInv, TypeOK
<1>2. \A x \in Transaction : /\ [x EXCEPT !.status = "reversed"].round = x.round
                             /\ [x EXCEPT !.status = "reversed"].offer = x.offer
                             /\ [x EXCEPT !.status = "reversed"].stage = x.stage
                             /\ [x EXCEPT !.status = "reversed"].status = "reversed"
  BY DEF Transaction
<1> QED
  BY <1>1, <1>2 DEF ReversedLedger

LEMMA RewindOffer ==
    ASSUME TypeInv, NEW r \in Nat, NEW o \in Offers
    PROVE  /\ proposals[o] = None <=> RewoundProposals(r)[o] = None
           /\ o \in Known =>
                 /\ RewoundProposals(r)[o].round = proposals[o].round
                 /\ RewoundProposals(r)[o].group = proposals[o].group
                 /\ RewoundProposals(r)[o].terms = proposals[o].terms
                 /\ IF proposals[o].round >= r
                    THEN RewoundProposals(r)[o].status =
                           CASE proposals[o].status = "committed" -> "reversed"
                             [] proposals[o].status = "pending"   -> "superseded"
                             [] OTHER -> proposals[o].status
                    ELSE RewoundProposals(r)[o].status =
                           IF /\ proposals[o].status = "committed"
                              /\ \E i \in SettledIn(r) : transactions[i].offer = o
                           THEN "pending" ELSE proposals[o].status
<1>1. CASE o \notin Known
  BY <1>1 DEF RewoundProposals, Known
<1>2. CASE o \in Known
  <2> DEFINE p == proposals[o]
  <2>1. p \in Proposal /\ p # None
    BY <1>2 DEF TypeInv, TypeOK, Known
  <2>2. RewoundProposals(r)[o] = RewoundProposal(o, r)
    BY <1>2 DEF RewoundProposals
  <2>3. ASSUME NEW q \in Proposal, NEW st \in OfferStatus
        PROVE  /\ [q EXCEPT !.status = st] \in Proposal
               /\ [q EXCEPT !.status = st].round = q.round
               /\ [q EXCEPT !.status = st].group = q.group
               /\ [q EXCEPT !.status = st].terms = q.terms
               /\ [q EXCEPT !.status = st].status = st
    BY DEF Proposal
  <2>4. ASSUME NEW q \in Proposal, NEW txs
        PROVE  /\ Resynced(o, q, txs) \in Proposal
               /\ Resynced(o, q, txs).round = q.round
               /\ Resynced(o, q, txs).group = q.group
               /\ Resynced(o, q, txs).terms = q.terms
               /\ Resynced(o, q, txs).status = q.status
    BY DEF Proposal, Resynced
  <2>5. {"reversed", "superseded", "pending"} \subseteq OfferStatus
    BY DEF OfferStatus
  <2>6. o \in OriginIn(r) <=> p.round >= r
    BY <1>2 DEF OriginIn
  <2>7. CASE p.round >= r
    <3>1. RewoundProposal(o, r) = CASE p.status = "committed" -> [p EXCEPT !.status = "reversed"]
                                    [] p.status = "pending"   -> [p EXCEPT !.status = "superseded"]
                                    [] OTHER                  -> p
      BY <2>6, <2>7 DEF RewoundProposal
    <3> QED
      BY <1>2, <2>1, <2>2, <2>3, <2>5, <2>7, <3>1, NoneAssumption
  <2>8. CASE ~(p.round >= r)
    <3> DEFINE settled == \E i \in SettledIn(r) : transactions[i].offer = o
               q == IF p.status = "committed" THEN [p EXCEPT !.status = "pending"] ELSE p
    <3>1. RewoundProposal(o, r) = IF settled THEN Resynced(o, q, ReversedLedger(r)) ELSE p
      BY <2>6, <2>8 DEF RewoundProposal
    <3>2. /\ q \in Proposal /\ q.round = p.round /\ q.group = p.group /\ q.terms = p.terms
          /\ q.status = IF p.status = "committed" THEN "pending" ELSE p.status
      BY <2>1, <2>3, <2>5
    <3>3. /\ Resynced(o, q, ReversedLedger(r)) \in Proposal
          /\ Resynced(o, q, ReversedLedger(r)).round = p.round
          /\ Resynced(o, q, ReversedLedger(r)).group = p.group
          /\ Resynced(o, q, ReversedLedger(r)).terms = p.terms
          /\ Resynced(o, q, ReversedLedger(r)).status
               = IF p.status = "committed" THEN "pending" ELSE p.status
      <4> HIDE DEF q
      <4> QED
        BY <2>4, <3>2
    <3>4. /\ RewoundProposals(r)[o] \in Proposal
          /\ RewoundProposals(r)[o].round = p.round
          /\ RewoundProposals(r)[o].group = p.group
          /\ RewoundProposals(r)[o].terms = p.terms
          /\ RewoundProposals(r)[o].status
               = IF p.status = "committed" /\ settled THEN "pending" ELSE p.status
      <4> HIDE DEF q, settled
      <4>1. CASE settled
        BY <2>2, <3>1, <3>3, <4>1
      <4>2. CASE ~settled
        BY <2>1, <2>2, <3>1, <4>2
      <4> QED
        BY <4>1, <4>2
    <3> QED
      BY <2>1, <2>8, <3>4, NoneAssumption
  <2> QED
    BY <2>7, <2>8
<1> QED
  BY <1>1, <1>2

LEMMA RewindGroup ==
    ASSUME TypeInv, NEW r \in Nat, NEW g \in Groups
    PROVE  /\ groups[g] = None <=> RewoundGroups(r)[g] = None
           /\ groups[g] # None =>
                 /\ RewoundGroups(r)[g].members = groups[g].members
                 /\ RewoundGroups(r)[g].round = groups[g].round
                 /\ RewoundGroups(r)[g].status =
                      IF groups[g].round >= r THEN "superseded" ELSE groups[g].status
<1>1. groups[g] # None => groups[g] \in Group
  BY DEF TypeInv, TypeOK
<1>2. ASSUME groups[g] # None
      PROVE  /\ [groups[g] EXCEPT !.status = "superseded"] # None
             /\ [groups[g] EXCEPT !.status = "superseded"].members = groups[g].members
             /\ [groups[g] EXCEPT !.status = "superseded"].round = groups[g].round
             /\ [groups[g] EXCEPT !.status = "superseded"].status = "superseded"
  <2>1. [groups[g] EXCEPT !.status = "superseded"] \in Group
    BY <1>1, <1>2, GroupEdit
  <2> QED
    BY <1>1, <1>2, <2>1, NoneAssumption DEF Group
<1> QED
  BY <1>2 DEF RewoundGroups, GroupIn

----------------------------------------------------------------------------
(***************************************************************************)
(* Time.  Nothing that counts is dated after the current round, and the    *)
(* log is in story order; each needs the other, for a rewind to the last   *)
(* entry must not leave a later one behind.                                *)
(***************************************************************************)

Chronicle == NothingFromTheFuture /\ HistoryOrdered

\* Cutting the log leaves its first entries, keeps it in order and ends it at
\* round r.
LEMMA CutLog ==
    ASSUME TypeInv, HistoryOrdered, NEW r \in Nat
    PROVE  /\ \A i \in DOMAIN BranchCut(r) :
                 i \in DOMAIN log /\ BranchCut(r)[i] = log[i]
           /\ \A i \in DOMAIN BranchCut(r) : BranchCut(r)[i].round <= r
           /\ \A i, j \in DOMAIN BranchCut(r) :
                 i <= j => BranchCut(r)[i].round <= BranchCut(r)[j].round
<1> DEFINE kept == {i \in DOMAIN log : log[i].round <= r}
           n    == Cardinality(kept)
<1>1. log \in Seq(LogEntry) /\ DOMAIN log = 1..Len(log) /\ Len(log) \in Nat
  BY DEF TypeInv, TypeOK
<1>2. \A i \in DOMAIN log : log[i].round \in Nat
  BY Entries
<1>3. kept \in SUBSET (1..Len(log))
  BY <1>1
<1>4. \A i \in kept : \A j \in 1..i : j \in kept
  BY <1>1, <1>2 DEF HistoryOrdered
<1>5. n \in 0..Len(log) /\ kept = 1..n
  <2> HIDE DEF kept
  <2> QED
    BY <1>1, <1>3, <1>4, InitialSegment
<1>6. BranchCut(r) = SubSeq(log, 1, n)
  BY DEF BranchCut
<1>7. /\ DOMAIN BranchCut(r) = 1..n
      /\ \A i \in 1..n : BranchCut(r)[i] = log[i]
  <2> HIDE DEF n
  <2> QED
    BY <1>1, <1>5, <1>6
<1> QED
  BY <1>1, <1>5, <1>7 DEF HistoryOrdered

LEMMA InitChronicle == Init => Chronicle
<1> SUFFICES ASSUME Init PROVE Chronicle
  OBVIOUS
<1>1. PICK news \in Responses, g \in Groups \cup {None} :
         /\ proposals = WithRewards([o \in Offers |-> None], news, g, 1)
         /\ groups = WithGroup([h \in Groups |-> None], news, g, 1)
  BY Opening
<1>2. round = 1 /\ transactions = <<>>
  BY DEF Init
<1>3. OffersInThePast
  BY <1>1, <1>2 DEF OffersInThePast, Known, WithRewards, NewProposal
<1>4. GroupsInThePast
  BY <1>1, <1>2 DEF GroupsInThePast, WithGroup
<1> QED
  BY <1>2, <1>3, <1>4 DEF Init, Chronicle, NothingFromTheFuture, LedgerInThePast,
     LogInThePast, HistoryOrdered

\* What a rewind to round r leaves is dated before it.
LEMMA RewindChronicle ==
    ASSUME TypeInv, NothingFromTheFuture, NEW r \in Nat, r <= round
    PROVE  /\ \A i \in DOMAIN ReversedLedger(r) :
                 ReversedLedger(r)[i].status = "committed" => ReversedLedger(r)[i].round <= r
           /\ \A o \in Offers :
                 RewoundProposals(r)[o] # None
                 /\ RewoundProposals(r)[o].status \in {"pending", "committed"}
                   => RewoundProposals(r)[o].round <= r
           /\ \A g \in Groups :
                 RewoundGroups(r)[g] # None
                 /\ RewoundGroups(r)[g].status \in {"pending", "committed"}
                   => RewoundGroups(r)[g].round <= r
<1>1. ASSUME NEW i \in DOMAIN ReversedLedger(r), ReversedLedger(r)[i].status = "committed"
      PROVE  ReversedLedger(r)[i].round <= r
  <2>1. i \in DOMAIN transactions /\ transactions[i].status = "committed" /\ i \notin SettledIn(r)
    BY <1>1, RewindLedger
  <2>2. transactions[i].round \in Nat
    BY <2>1, Entries
  <2>3. ~(transactions[i].round >= r)
    BY <2>1 DEF SettledIn
  <2> QED
    BY <2>1, <2>2, <2>3, RewindLedger
<1>2. ASSUME NEW o \in Offers, RewoundProposals(r)[o] # None,
             RewoundProposals(r)[o].status \in {"pending", "committed"}
      PROVE  RewoundProposals(r)[o].round <= r
  <2>1. o \in Known /\ proposals[o].round \in Nat
    BY <1>2, RewindOffer DEF Known, TypeInv, TypeOK, Proposal
  <2>2. ~(proposals[o].round >= r)
    BY <1>2, <2>1, RewindOffer
  <2> QED
    BY <2>1, <2>2, RewindOffer
<1>3. ASSUME NEW g \in Groups, RewoundGroups(r)[g] # None,
             RewoundGroups(r)[g].status \in {"pending", "committed"}
      PROVE  RewoundGroups(r)[g].round <= r
  <2>1. groups[g] # None /\ groups[g].round \in Nat
    BY <1>3, RewindGroup DEF TypeInv, TypeOK, Group
  <2>2. ~(groups[g].round >= r)
    BY <1>3, <2>1, RewindGroup
  <2> QED
    BY <2>1, <2>2, RewindGroup
<1> QED
  BY <1>1, <1>2, <1>3

\* What a response of round r proposes is dated r.
LEMMA ResponseChronicle ==
    ASSUME NEW props, NEW gs, NEW r \in Nat, NEW news, NEW g, NEW now \in Nat, r <= now,
           \A o \in Offers : props[o] # None /\ props[o].status \in {"pending", "committed"}
                                => props[o].round <= now,
           \A h \in Groups : gs[h] # None /\ gs[h].status \in {"pending", "committed"}
                                => gs[h].round <= now
    PROVE  /\ \A o \in Offers : LET p == WithRewards(props, news, g, r)[o] IN
                 p # None /\ p.status \in {"pending", "committed"} => p.round <= now
           /\ \A h \in Groups : LET e == WithGroup(gs, news, g, r)[h] IN
                 e # None /\ e.status \in {"pending", "committed"} => e.round <= now
BY DEF WithRewards, WithGroup, NewProposal

\* What Chronicle says of the variables, said of a copy of the aggregate.
CopyDated(c) ==
    /\ \A i \in DOMAIN c.transactions :
          c.transactions[i].status = "committed" => c.transactions[i].round <= c.round
    /\ \A o \in Offers :
          c.proposals[o] # None /\ c.proposals[o].status \in {"pending", "committed"}
             => c.proposals[o].round <= c.round
    /\ \A h \in Groups :
          c.groups[h] # None /\ c.groups[h].status \in {"pending", "committed"}
             => c.groups[h].round <= c.round
    /\ \A i \in DOMAIN c.log : c.log[i].round <= c.round
    /\ \A i, j \in DOMAIN c.log : i <= j => c.log[i].round <= c.log[j].round

LEMMA PublishChronicle ==
    ASSUME NEW c, CopyDated(c), Publish(c)
    PROVE  Chronicle'
BY DEF CopyDated, Publish, Chronicle, NothingFromTheFuture, LedgerInThePast, OffersInThePast,
   GroupsInThePast, LogInThePast, HistoryOrdered, Known

LEMMA AggregateDated == Chronicle => CopyDated(Aggregate)
BY DEF CopyDated, Aggregate, Chronicle, NothingFromTheFuture, LedgerInThePast, OffersInThePast,
   GroupsInThePast, LogInThePast, HistoryOrdered, Known

LEMMA SwipedDated ==
    ASSUME TypeInv, Chronicle, NEW news \in Responses, NEW g \in Groups \cup {None},
           NEW i \in DOMAIN log
    PROVE  CopyDated(Swiped(i, news, g))
<1> DEFINE r == log[i].round
           props == WithRewards(RewoundProposals(r), news, g, r)
           gs    == WithGroup(RewoundGroups(r), news, g, r)
<1>1. r \in Nat /\ r <= round
  BY Entries DEF Chronicle, NothingFromTheFuture, LogInThePast
<1>2. Swiped(i, news, g) = [phase |-> phase, round |-> r, log |-> BranchCut(r),
         startSnapshot |-> startSnapshot, seated |-> seated,
         sheets |-> RewoundSheets(r, log[i].pre), proposals |-> props,
         transactions |-> ReversedLedger(r), groups |-> gs, outbox |-> RewoundOutbox(r)]
  BY DEF Swiped
<1> HIDE DEF r
<1>3. /\ \A j \in DOMAIN BranchCut(r) : BranchCut(r)[j].round <= r
      /\ \A j, k \in DOMAIN BranchCut(r) :
            j <= k => BranchCut(r)[j].round <= BranchCut(r)[k].round
  BY <1>1, CutLog DEF Chronicle
<1>4. \A j \in DOMAIN ReversedLedger(r) :
         ReversedLedger(r)[j].status = "committed" => ReversedLedger(r)[j].round <= r
  BY <1>1, RewindChronicle DEF Chronicle
<1>5. /\ \A o \in Offers : props[o] # None /\ props[o].status \in {"pending", "committed"}
                                => props[o].round <= r
      /\ \A h \in Groups : gs[h] # None /\ gs[h].status \in {"pending", "committed"}
                                => gs[h].round <= r
  BY <1>1, RewindChronicle, ResponseChronicle DEF Chronicle
<1> HIDE DEF props, gs
<1> QED
  BY <1>2, <1>3, <1>4, <1>5 DEF CopyDated

LEMMA SwipedOpeningDated ==
    ASSUME TypeInv, Chronicle, NEW news \in Responses, NEW g \in Groups \cup {None}
    PROVE  CopyDated(SwipedOpening(news, g))
<1> DEFINE props == WithRewards(proposals, news, g, round)
           gs    == WithGroup(groups, news, g, round)
<1>1. round \in Nat
  BY DEF TypeInv, TypeOK
<1>2. CopyDated(Aggregate)
  BY AggregateDated
<1>3. /\ \A o \in Offers : props[o] # None /\ props[o].status \in {"pending", "committed"}
                                => props[o].round <= round
      /\ \A h \in Groups : gs[h] # None /\ gs[h].status \in {"pending", "committed"}
                                => gs[h].round <= round
  BY <1>1, ResponseChronicle
     DEF Chronicle, NothingFromTheFuture, OffersInThePast, GroupsInThePast, Known
<1>4. SwipedOpening(news, g) = [Aggregate EXCEPT !.proposals = props, !.groups = gs]
  BY DEF SwipedOpening
<1> HIDE DEF props, gs
<1> QED
  BY <1>2, <1>3, <1>4 DEF Aggregate, CopyDated

LEMMA UnguardedChronicle ==
    TypeInv /\ TypeInv' /\ Chronicle /\ [UnguardedNext]_vars => Chronicle'
<1> SUFFICES ASSUME TypeInv, TypeInv', Chronicle, [UnguardedNext]_vars PROVE Chronicle'
  OBVIOUS
<1> USE DEF progress, ledger, bounds
<1>0. /\ round \in Nat /\ LedgerInThePast /\ OffersInThePast /\ GroupsInThePast
      /\ LogInThePast /\ HistoryOrdered
  BY DEF TypeInv, TypeOK, Chronicle, NothingFromTheFuture
<1>1. ASSUME NEW o \in Offers, NEW t \in Terms, QueueOffer(o, t)
      PROVE  Chronicle'
  <2>1. OffersInThePast'
    BY <1>0, <1>1 DEF QueueOffer, NewProposal, OffersInThePast, Known, TypeInv, TypeOK
  <2> QED
    BY <1>0, <1>1, <2>1 DEF QueueOffer, Chronicle, NothingFromTheFuture,
       LedgerInThePast, GroupsInThePast, LogInThePast, HistoryOrdered
<1>2. ASSUME NEW o \in Known, NEW x \in Transaction, x.round = round,
             transactions' = Append(transactions, x) \/ UNCHANGED transactions,
             UNCHANGED round
      PROVE  LedgerInThePast'
  <2>1. CASE UNCHANGED transactions
    BY <1>0, <1>2, <2>1 DEF LedgerInThePast
  <2>2. CASE transactions' = Append(transactions, x)
    <3>1. /\ DOMAIN transactions = 1..Len(transactions) /\ Len(transactions) \in Nat
          /\ DOMAIN transactions' = 1..(Len(transactions) + 1)
          /\ \A i \in 1..Len(transactions) : transactions'[i] = transactions[i]
          /\ transactions'[Len(transactions) + 1] = x
      BY <2>2, AppendParts DEF TypeInv, TypeOK
    <3> QED
      BY <1>0, <1>2, <3>1 DEF LedgerInThePast
  <2> QED
    BY <1>2, <2>1, <2>2
<1>3. ASSUME NEW o \in Known, NEW s \in OfferStatus, Decide(o, s), proposals[o].status = "pending",
             UNCHANGED round
      PROVE  OffersInThePast' /\ GroupsInThePast'
  <2>1. OffersInThePast'
    BY <1>0, <1>3, DecideOffer DEF OffersInThePast, Known
  <2>2. GroupsInThePast'
    BY <1>0, <1>3, DecideGroup DEF GroupsInThePast
  <2> QED
    BY <2>1, <2>2
<1>4. ASSUME NEW o \in Offers, NEW a \in Actors, PayDeposit(o, a)
      PROVE  Chronicle'
  <2>1. o \in Known /\ proposals[o] \in Proposal
    BY <1>4 DEF PayDeposit, WithStatus, Known, TypeInv, TypeOK
  <2>2. Receipt(o, "deposit") \in Transaction /\ Receipt(o, "deposit").round = round
    BY <2>1, ReceiptType DEF Receipt
  <2>3. LedgerInThePast'
    BY <1>2, <1>4, <2>1, <2>2 DEF PayDeposit
  <2>4. OffersInThePast'
    BY <1>0, <1>4, <2>1 DEF PayDeposit, OffersInThePast, Known, TypeInv, TypeOK, Proposal
  <2> QED
    BY <1>0, <1>4, <2>3, <2>4 DEF PayDeposit, Chronicle, NothingFromTheFuture,
       GroupsInThePast, LogInThePast, HistoryOrdered
<1>5. ASSUME NEW o \in Offers, NEW a \in Actors, Settle(o, a)
      PROVE  Chronicle'
  <2>1. o \in Known /\ proposals[o].status = "pending" /\ "committed" \in OfferStatus
    BY <1>5 DEF Settle, WithStatus, OfferStatus
  <2>2. Receipt(o, "final") \in Transaction /\ Receipt(o, "final").round = round
    BY <2>1, ReceiptType DEF Receipt
  <2>3. LedgerInThePast'
    BY <1>2, <1>5, <2>1, <2>2 DEF Settle
  <2>4. OffersInThePast' /\ GroupsInThePast'
    BY <1>3, <1>5, <2>1 DEF Settle
  <2> QED
    BY <1>0, <1>5, <2>3, <2>4 DEF Settle, Chronicle, NothingFromTheFuture,
       LogInThePast, HistoryOrdered
<1>6. ASSUME NEW o \in Offers, NEW a \in Actors, RejectForFunds(o, a) \/ Refuse(o, a)
      PROVE  Chronicle'
  <2>1. o \in Known /\ proposals[o].status = "pending" /\ Refusals \subseteq OfferStatus
    BY <1>6 DEF RejectForFunds, Refuse, WithStatus, OfferStatus, Refusals
  <2>2. \E s \in Refusals : Decide(o, s)
    BY <1>6 DEF RejectForFunds, Refuse, Refusals
  <2>3. OffersInThePast' /\ GroupsInThePast'
    BY <1>3, <1>6, <2>1, <2>2 DEF RejectForFunds, Refuse
  <2> QED
    BY <1>0, <1>6, <2>3 DEF RejectForFunds, Refuse, Chronicle, NothingFromTheFuture,
       LedgerInThePast, LogInThePast, HistoryOrdered
<1>7. ASSUME NEW u \in Players, DeleteCharacter(u)
      PROVE  Chronicle'
  <2>1. UNCHANGED round /\ UNCHANGED log
    BY <1>7 DEF DeleteCharacter
  <2>2. LedgerInThePast'
    BY <1>0, <1>7, <2>1, DeleteLedger DEF LedgerInThePast, Refund
  <2>3. OffersInThePast'
    BY <1>0, <1>7, <2>1, DeleteOffer DEF OffersInThePast
  <2>4. GroupsInThePast'
    BY <1>0, <1>7, <2>1, DeleteGroup DEF GroupsInThePast
  <2> QED
    BY <1>0, <2>1, <2>2, <2>3, <2>4 DEF Chronicle, NothingFromTheFuture, LogInThePast, HistoryOrdered
<1>8. ASSUME NEW done \in SUBSET Groups, DeliverMemory(done)
      PROVE  Chronicle'
  BY <1>0, <1>8 DEF DeliverMemory, Chronicle, NothingFromTheFuture, LedgerInThePast,
     OffersInThePast, GroupsInThePast, LogInThePast, HistoryOrdered, Known
<1>9. ASSUME BeginJudgment \/ RecoverJudgment \/ ResumeGame \/ AbortJudgment
      PROVE  Chronicle'
  <2>1. UNCHANGED <<log, proposals, transactions, groups>> /\ round' \in Nat /\ round <= round'
    BY <1>0, <1>9 DEF BeginJudgment, RecoverJudgment, ResumeGame, AbortJudgment
  <2>2. LedgerInThePast' /\ LogInThePast'
    BY <1>0, <2>1, Entries DEF LedgerInThePast, LogInThePast
  <2>3. OffersInThePast' /\ GroupsInThePast'
    BY <1>0, <2>1 DEF OffersInThePast, GroupsInThePast, Known, TypeInv, TypeOK, Proposal, Group
  <2> QED
    BY <1>0, <2>1, <2>2, <2>3 DEF Chronicle, NothingFromTheFuture, HistoryOrdered
<1>10. ASSUME NEW news \in Responses, NEW g \in Groups \cup {None}, RecordRound(news, g)
       PROVE  Chronicle'
  <2>1. /\ proposals' = WithRewards(proposals, news, g, round)
        /\ groups' = WithGroup(groups, news, g, round)
        /\ round' = round + 1 /\ UNCHANGED transactions
        /\ log' = Append(log, [round |-> round,
                               start |-> IF startSnapshot = None THEN sheets ELSE startSnapshot,
                               pre |-> sheets])
    BY <1>10 DEF RecordRound
  <2> DEFINE e == [round |-> round,
                   start |-> IF startSnapshot = None THEN sheets ELSE startSnapshot,
                   pre |-> sheets]
  <2>2. e \in LogEntry /\ e.round = round /\ log \in Seq(LogEntry)
    BY DEF TypeInv, TypeOK, LogEntry
  <2>3. /\ DOMAIN log = 1..Len(log) /\ Len(log) \in Nat
        /\ DOMAIN log' = 1..(Len(log) + 1)
        /\ \A i \in 1..Len(log) : log'[i] = log[i]
        /\ log'[Len(log) + 1] = e
    <3> HIDE DEF e
    <3> QED
      BY <2>1, <2>2, AppendParts DEF e
  <2> HIDE DEF e
  <2>4. LogInThePast' /\ HistoryOrdered'
    <3>1. \A i \in DOMAIN log : log[i].round <= round /\ log[i].round \in Nat
      BY <1>0, Entries DEF LogInThePast
    <3>2. \A i \in DOMAIN log' : log'[i].round <= round
      BY <1>0, <2>2, <2>3, <3>1
    <3>3. LogInThePast'
      BY <1>0, <2>1, <2>2, <2>3, <3>1, <3>2 DEF LogInThePast
    <3>4. HistoryOrdered'
      BY <1>0, <2>2, <2>3, <3>1, <3>2 DEF HistoryOrdered
    <3> QED
      BY <3>3, <3>4
  <2>5. LedgerInThePast'
    BY <1>0, <2>1, Entries DEF LedgerInThePast
  <2>6. /\ \A o \in Offers : proposals[o] # None /\ proposals[o].status \in {"pending", "committed"}
                                => proposals[o].round <= round + 1
        /\ \A h \in Groups : groups[h] # None /\ groups[h].status \in {"pending", "committed"}
                                => groups[h].round <= round + 1
    <3>1. \A o \in Offers : proposals[o] # None => proposals[o].round \in Nat
      BY <1>0 DEF TypeInv, TypeOK, Proposal
    <3>2. \A h \in Groups : groups[h] # None => groups[h].round \in Nat
      BY <1>0 DEF TypeInv, TypeOK, Group
    <3> QED
      BY <1>0, <3>1, <3>2 DEF OffersInThePast, GroupsInThePast, Known, TypeInv, TypeOK
  <2>7. OffersInThePast' /\ GroupsInThePast'
    <3>1. round + 1 \in Nat /\ round <= round + 1
      BY <1>0
    <3>2. /\ \A o \in Offers : LET p == WithRewards(proposals, news, g, round)[o] IN
                p # None /\ p.status \in {"pending", "committed"} => p.round <= round + 1
          /\ \A h \in Groups : LET x == WithGroup(groups, news, g, round)[h] IN
                x # None /\ x.status \in {"pending", "committed"} => x.round <= round + 1
      BY <1>0, <2>6, <3>1, ResponseChronicle
    <3> QED
      BY <2>1, <3>2 DEF OffersInThePast, GroupsInThePast, Known
  <2> QED
    BY <2>4, <2>5, <2>7 DEF Chronicle, NothingFromTheFuture
<1>11. ASSUME RollbackLastRound
       PROVE  Chronicle'
  <2> DEFINE last == log[Len(log)]
             r == IF last.round = 0 THEN round ELSE last.round
  <2>1. log # <<>> /\ log \in Seq(LogEntry)
    BY <1>11 DEF RollbackLastRound, TypeInv, TypeOK
  <2>2. /\ DOMAIN log = 1..Len(log) /\ Len(log) \in Nat \ {0}
        /\ DOMAIN log' = 1..(Len(log) - 1)
        /\ \A i \in DOMAIN log' : log'[i] = log[i]
    BY <1>11, <2>1 DEF RollbackLastRound
  <2>3. \A i \in DOMAIN log : log[i].round <= last.round /\ log[i].round \in Nat
    BY <1>0, <2>2, Entries DEF HistoryOrdered
  <2>4. r \in Nat /\ r <= round /\ last.round \in Nat /\ last.round <= r
    BY <1>0, <2>2, <2>3 DEF LogInThePast
  <2>5. /\ round' = r /\ proposals' = RewoundProposals(r)
        /\ transactions' = ReversedLedger(r) /\ groups' = RewoundGroups(r)
    BY <1>11 DEF RollbackLastRound
  <2> HIDE DEF last, r
  <2>6. LogInThePast' /\ HistoryOrdered'
    BY <1>0, <2>2, <2>3, <2>4, <2>5 DEF LogInThePast, HistoryOrdered
  <2>7. LedgerInThePast' /\ OffersInThePast' /\ GroupsInThePast'
    BY <1>0, <2>4, <2>5, RewindChronicle
       DEF Chronicle, LedgerInThePast, OffersInThePast, GroupsInThePast, Known
  <2> QED
    BY <2>6, <2>7 DEF Chronicle, NothingFromTheFuture
<1>12. ASSUME NEW news \in Responses, NEW g \in Groups \cup {None}, NEW i \in DOMAIN log,
              SwipeRound(i, news, g)
       PROVE  Chronicle'
  BY <1>12, SwipedDated, PublishChronicle DEF SwipeRound
<1>13. ASSUME NEW news \in Responses, NEW g \in Groups \cup {None}, SwipeOpening(news, g)
       PROVE  Chronicle'
  BY <1>13, SwipedOpeningDated, PublishChronicle DEF SwipeOpening
<1>14. ASSUME UNCHANGED vars
       PROVE  Chronicle'
  BY <1>0, <1>14 DEF vars, Chronicle, NothingFromTheFuture, LedgerInThePast,
     OffersInThePast, GroupsInThePast, LogInThePast, HistoryOrdered, Known
<1> QED
  BY <1>1, <1>4, <1>5, <1>6, <1>7, <1>8, <1>9, <1>10, <1>11, <1>12, <1>13, <1>14
     DEF UnguardedNext, Next, Decision, Rewind, QueueCharge, FinishJudgment

LEMMA NextChronicle == TypeInv /\ TypeInv' /\ Chronicle /\ [Next]_vars => Chronicle'
BY UnguardedChronicle DEF UnguardedNext

(***************************************************************************)
(* A branch that was cut leaves nothing that counts: no open offer,        *)
(* standing ledger entry, live effect group or log entry is dated after    *)
(* the current round, through any sequence of rollbacks and swipes.        *)
(***************************************************************************)
THEOREM NothingOutlivesItsBranch == Spec => []NothingFromTheFuture
<1>1. Chronicle => NothingFromTheFuture
  BY DEF Chronicle
<1> QED
  BY <1>1, InitType, NextType, InitChronicle, NextChronicle, PTL DEF Spec

(***************************************************************************)
(* The log stays in story order through any sequence of rounds, rollbacks  *)
(* and swipes, so that its last entry is the round a rollback takes back.  *)
(***************************************************************************)
THEOREM LogStaysOrdered == Spec => []HistoryOrdered
<1>1. Chronicle => HistoryOrdered
  BY DEF Chronicle
<1> QED
  BY <1>1, InitType, NextType, InitChronicle, NextChronicle, PTL DEF Spec

----------------------------------------------------------------------------
(***************************************************************************)
(* The barrier.  That a pending group can always be released rests on its  *)
(* offers being of its own round: a rewind then takes all of them or none. *)
(***************************************************************************)

MembersOfTheRound ==
    \A g \in Groups :
        groups[g] # None =>
            \A o \in groups[g].members : o \in Known /\ proposals[o].round = groups[g].round

Barrier == NoOrphanBarrier /\ MembersOfTheRound

LEMMA InitBarrier == Init => Barrier
<1> SUFFICES ASSUME Init PROVE Barrier
  OBVIOUS
<1>1. PICK news \in Responses, g \in Groups \cup {None} :
         /\ DOMAIN news \subseteq Offers /\ \A o \in DOMAIN news : news[o] \in Terms
         /\ g # None => DOMAIN news # {}
         /\ proposals = WithRewards([o \in Offers |-> None], news, g, 1)
         /\ groups = WithGroup([h \in Groups |-> None], news, g, 1)
  BY Opening
<1>2. ASSUME NEW h \in Groups, groups[h] # None
      PROVE  h = g /\ groups[h].members = DOMAIN news /\ groups[h].round = 1
  BY <1>1, <1>2 DEF WithGroup
<1>3. ASSUME NEW o \in DOMAIN news
      PROVE  /\ o \in Known /\ proposals[o].group = g
             /\ proposals[o].status = "pending" /\ proposals[o].round = 1
  <2>1. proposals[o] = NewProposal(news[o], g, 1)
    BY <1>1 DEF WithRewards
  <2>2. NewProposal(news[o], g, 1) # None
    BY <1>1, NewProposalType, NoneAssumption
  <2> QED
    BY <1>1, <2>1, <2>2 DEF NewProposal, Known
<1> QED
  BY <1>1, <1>2, <1>3, NoneAssumption DEF Barrier, NoOrphanBarrier, MembersOfTheRound

\* The barrier and the mailbox see only the offers and the groups.
LEMMA QuietBarrier ==
    ASSUME Barrier, UNCHANGED <<proposals, groups>>
    PROVE  Barrier'
BY DEF Barrier, NoOrphanBarrier, MembersOfTheRound, Known

LEMMA DecideBarrier ==
    ASSUME TypeInv, Barrier, NEW o \in Known, NEW s \in OfferStatus, Decide(o, s),
           proposals[o].status = "pending", s \in Refusals \cup {"committed"}
    PROVE  Barrier'
<1>1. MembersOfTheRound'
  <2> SUFFICES ASSUME NEW g \in Groups, groups'[g] # None, NEW m \in groups'[g].members
               PROVE  m \in Known' /\ proposals'[m].round = groups'[g].round
    BY DEF MembersOfTheRound
  <2>1. /\ groups[g] # None /\ groups'[g].members = groups[g].members
        /\ groups'[g].round = groups[g].round
    BY DecideGroup
  <2>2. m \in Known /\ m \in Offers /\ proposals[m].round = groups[g].round
    BY <2>1 DEF Barrier, MembersOfTheRound, Known
  <2> QED
    BY <2>1, <2>2, DecideOffer
<1>2. NoOrphanBarrier'
  <2> SUFFICES ASSUME NEW g \in Groups, groups'[g] # None, groups'[g].status = "pending"
               PROVE  /\ \A m \in groups'[g].members :
                           /\ m \in Known' /\ proposals'[m].group = g
                           /\ proposals'[m].status \in {"pending", "committed"}
                      /\ \E m \in groups'[g].members : proposals'[m].status = "pending"
    BY DEF NoOrphanBarrier
  <2>1. groups[g] # None /\ groups'[g].members = groups[g].members
    BY DecideGroup
  <2>2. groups[g].status = "pending"
    BY <2>1, DecideGroup
  <2>3. /\ \A m \in groups[g].members :
              /\ m \in Known /\ m \in Offers /\ proposals[m].group = g
              /\ proposals[m].status \in {"pending", "committed"}
        /\ \E m \in groups[g].members : proposals[m].status = "pending"
    BY <2>1, <2>2 DEF Barrier, NoOrphanBarrier, Known
  <2>4. CASE g = proposals[o].group
    <3>1. s \notin Refusals
      BY <2>1, <2>2, <2>4, DecideGroup
    <3>2. PICK m \in groups[g].members : proposals'[m].status # "committed"
      BY <2>1, <2>2, <2>4, <3>1, DecideGroup
    <3>3. s = "committed"
      BY <3>1
    <3>4. \A k \in groups[g].members : /\ k \in Known' /\ proposals'[k].group = g
                                       /\ proposals'[k].status \in {"pending", "committed"}
      BY <2>3, <3>3, DecideOffer
    <3> QED
      BY <2>1, <3>2, <3>4
  <2>5. CASE g # proposals[o].group
    <3>1. \A m \in groups[g].members : m # o
      BY <2>3, <2>5
    <3> QED
      BY <2>1, <2>3, <3>1, DecideOffer
  <2> QED
    BY <2>4, <2>5
<1> QED
  BY <1>1, <1>2 DEF Barrier

LEMMA DeleteBarrier ==
    ASSUME TypeInv, Barrier, NEW u \in Players, DeleteCharacter(u)
    PROVE  Barrier'
<1>1. MembersOfTheRound'
  BY DeleteGroup, DeleteOffer DEF Barrier, MembersOfTheRound
<1>2. NoOrphanBarrier'
  <2> SUFFICES ASSUME NEW g \in Groups, groups'[g] # None, groups'[g].status = "pending"
               PROVE  /\ \A m \in groups'[g].members :
                           /\ m \in Known' /\ proposals'[m].group = g
                           /\ proposals'[m].status \in {"pending", "committed"}
                      /\ \E m \in groups'[g].members : proposals'[m].status = "pending"
    BY DEF NoOrphanBarrier
  <2>1. /\ groups[g] # None /\ groups'[g].members = groups[g].members
        /\ groups[g].status = "pending" /\ groups[g].members \cap Gone(u) = {}
    BY DeleteGroup
  <2>2. /\ \A m \in groups[g].members :
              /\ m \in Known /\ proposals[m].group = g
              /\ proposals[m].status \in {"pending", "committed"}
        /\ \E m \in groups[g].members : proposals[m].status = "pending"
    BY <2>1 DEF Barrier, NoOrphanBarrier
  <2>3. \A m \in groups[g].members : proposals'[m] = proposals[m] /\ m \in Known'
    BY <2>1, <2>2, DeleteOffer
  <2> QED
    BY <2>1, <2>2, <2>3
<1> QED
  BY <1>1, <1>2 DEF Barrier

\* The barrier of any offers and groups: those of a table, or rewound ones.
BarrierOf(props, gs) ==
    \A g \in Groups : gs[g] # None =>
        /\ \A o \in gs[g].members :
              /\ o \in Offers /\ props[o] # None /\ props[o].round = gs[g].round
              /\ gs[g].status = "pending" =>
                    props[o].group = g /\ props[o].status \in {"pending", "committed"}
        /\ gs[g].status = "pending" =>
              \E o \in gs[g].members : props[o].status = "pending"

LEMMA BarrierIs == Barrier <=> BarrierOf(proposals, groups)
BY DEF Barrier, BarrierOf, NoOrphanBarrier, MembersOfTheRound, Known

LEMMA ResponseBarrier ==
    ASSUME NEW props \in ProposalMap, NEW gs \in GroupMap, BarrierOf(props, gs),
           NEW news \in Responses, NEW g \in Groups \cup {None}, NEW r \in Nat,
           \A o \in DOMAIN news : props[o] = None,
           g # None => DOMAIN news # {}
    PROVE  BarrierOf(WithRewards(props, news, g, r), WithGroup(gs, news, g, r))
<1>1. DOMAIN news \subseteq Offers /\ \A o \in DOMAIN news : news[o] \in Terms
  BY DEF Responses
<1>2. \A o \in DOMAIN news : NewProposal(news[o], g, r) # None
  BY <1>1, NewProposalType, NoneAssumption
<1> DEFINE props2 == WithRewards(props, news, g, r)
           gs2    == WithGroup(gs, news, g, r)
<1>3. \A o \in DOMAIN news : /\ props2[o] # None /\ props2[o].round = r /\ props2[o].group = g
                             /\ props2[o].status = "pending"
  BY <1>1, <1>2 DEF WithRewards, NewProposal
<1>4. \A o \in Offers : props[o] # None => props2[o] = props[o]
  BY DEF WithRewards
<1>5. ASSUME g \in Groups
      PROVE  /\ gs2[g].status = "pending" /\ gs2[g].members = DOMAIN news /\ gs2[g].round = r
  BY <1>5 DEF WithGroup
<1>6. \A h \in Groups : h # g => gs2[h] = gs[h]
  BY DEF WithGroup
<1> HIDE DEF props2, gs2
<1>7. BarrierOf(props2, gs2)
  BY <1>1, <1>3, <1>4, <1>5, <1>6, NoneAssumption DEF BarrierOf
<1> QED
  BY <1>7 DEF props2, gs2

LEMMA RewindBarrier ==
    ASSUME TypeInv, Barrier, NEW r \in Nat
    PROVE  BarrierOf(RewoundProposals(r), RewoundGroups(r))
<1> SUFFICES ASSUME NEW g \in Groups, RewoundGroups(r)[g] # None
             PROVE  /\ \A o \in RewoundGroups(r)[g].members :
                         /\ o \in Offers /\ RewoundProposals(r)[o] # None
                         /\ RewoundProposals(r)[o].round = RewoundGroups(r)[g].round
                         /\ RewoundGroups(r)[g].status = "pending" =>
                              /\ RewoundProposals(r)[o].group = g
                              /\ RewoundProposals(r)[o].status \in {"pending", "committed"}
                    /\ RewoundGroups(r)[g].status = "pending" =>
                         \E o \in RewoundGroups(r)[g].members :
                             RewoundProposals(r)[o].status = "pending"
  BY DEF BarrierOf
<1>1. /\ groups[g] # None /\ groups[g].round \in Nat
      /\ RewoundGroups(r)[g].members = groups[g].members
      /\ RewoundGroups(r)[g].round = groups[g].round
  BY RewindGroup DEF TypeInv, TypeOK, Group
<1>2. \A o \in groups[g].members :
         /\ o \in Offers /\ o \in Known /\ RewoundProposals(r)[o] # None
         /\ proposals[o].round = groups[g].round
         /\ RewoundProposals(r)[o].round = groups[g].round
         /\ RewoundProposals(r)[o].group = proposals[o].group
  BY <1>1, RewindOffer DEF Barrier, MembersOfTheRound, Known
<1>3. ASSUME RewoundGroups(r)[g].status = "pending"
      PROVE  /\ \A o \in groups[g].members :
                   /\ RewoundProposals(r)[o].group = g
                   /\ RewoundProposals(r)[o].status \in {"pending", "committed"}
             /\ \E o \in groups[g].members : RewoundProposals(r)[o].status = "pending"
  <2>1. groups[g].status = "pending" /\ ~(groups[g].round >= r)
    BY <1>1, <1>3, RewindGroup
  <2>2. /\ \A o \in groups[g].members :
              proposals[o].group = g /\ proposals[o].status \in {"pending", "committed"}
        /\ \E o \in groups[g].members : proposals[o].status = "pending"
    BY <1>1, <2>1 DEF Barrier, NoOrphanBarrier
  <2>3. \A o \in groups[g].members :
           RewoundProposals(r)[o].status = proposals[o].status
           \/ RewoundProposals(r)[o].status = "pending"
    BY <1>2, <2>1, RewindOffer
  <2> QED
    BY <1>2, <2>2, <2>3
<1> QED
  BY <1>1, <1>2, <1>3

LEMMA NextBarrier == TypeInv /\ Barrier /\ [Next]_vars => Barrier'
<1> SUFFICES ASSUME TypeInv, Barrier, [Next]_vars PROVE Barrier'
  OBVIOUS
<1> USE DEF progress, ledger, bounds
<1>0. /\ proposals \in ProposalMap /\ groups \in GroupMap /\ round \in Nat
      /\ BarrierOf(proposals, groups)
  BY BarrierIs DEF TypeInv, TypeOK, ProposalMap, GroupMap
<1>1. ASSUME NEW o \in Offers, NEW t \in Terms, QueueCharge(o, t)
      PROVE  Barrier'
  <2>1. /\ o \notin Known /\ UNCHANGED groups
        /\ \A p \in Known : proposals'[p] = proposals[p] /\ p \in Known'
    BY <1>1 DEF QueueCharge, QueueOffer, Known, TypeInv, TypeOK
  <2> QED
    BY <2>1 DEF Barrier, NoOrphanBarrier, MembersOfTheRound
<1>2. ASSUME NEW o \in Offers, NEW a \in Actors, PayDeposit(o, a)
      PROVE  Barrier'
  <2>1. o \in Known /\ proposals[o] \in Proposal /\ UNCHANGED groups
        /\ proposals' = [proposals EXCEPT ![o].stage = "deposit_paid"]
    BY <1>2 DEF PayDeposit, WithStatus, Known, TypeInv, TypeOK
  <2>2. [proposals[o] EXCEPT !.stage = "deposit_paid"] \in Proposal
    BY <2>1, ProposalEdit
  <2>3. \A p \in Known : /\ p \in Known' /\ proposals'[p].group = proposals[p].group
                         /\ proposals'[p].status = proposals[p].status
                         /\ proposals'[p].round = proposals[p].round
    BY <2>1, <2>2, NoneAssumption DEF Known, Proposal, TypeInv, TypeOK
  <2> QED
    BY <2>1, <2>3 DEF Barrier, NoOrphanBarrier, MembersOfTheRound
<1>3. ASSUME NEW o \in Offers, NEW a \in Actors,
             Settle(o, a) \/ RejectForFunds(o, a) \/ Refuse(o, a)
      PROVE  Barrier'
  <2>1. o \in Known /\ proposals[o].status = "pending"
    BY <1>3 DEF Settle, RejectForFunds, Refuse, WithStatus
  <2>2. PICK s \in Refusals \cup {"committed"} : Decide(o, s)
    BY <1>3 DEF Settle, RejectForFunds, Refuse, Refusals
  <2>3. s \in OfferStatus
    BY DEF Refusals, OfferStatus
  <2> QED
    BY <2>1, <2>2, <2>3, DecideBarrier
<1>4. ASSUME NEW u \in Players, DeleteCharacter(u)
      PROVE  Barrier'
  BY <1>4, DeleteBarrier
<1>5. ASSUME \/ \E done \in SUBSET Groups : DeliverMemory(done)
             \/ BeginJudgment \/ AbortJudgment \/ RecoverJudgment \/ ResumeGame
             \/ UNCHANGED vars
      PROVE  Barrier'
  <2>1. UNCHANGED <<proposals, groups>>
    BY <1>5 DEF DeliverMemory, BeginJudgment, AbortJudgment, RecoverJudgment, ResumeGame, vars
  <2> QED
    BY <2>1, QuietBarrier
<1>6. ASSUME NEW news \in Responses, NEW g \in Groups \cup {None},
             FinishJudgment(news, g) \/ SwipeOpening(news, g)
      PROVE  Barrier'
  <2>1. /\ proposals' = WithRewards(proposals, news, g, round)
        /\ groups' = WithGroup(groups, news, g, round)
        /\ Fresh(news, g)
    BY <1>6, SwipeOpeningDoes DEF FinishJudgment, RecordRound
  <2>2. (\A o \in DOMAIN news : proposals[o] = None) /\ (g # None => DOMAIN news # {})
    BY <2>1 DEF Fresh, Known, Responses
  <2>3. BarrierOf(proposals', groups')
    BY <1>0, <2>1, <2>2, ResponseBarrier
  <2> QED
    BY <2>3 DEF Barrier, BarrierOf, NoOrphanBarrier, MembersOfTheRound, Known
<1>7. ASSUME RollbackLastRound
      PROVE  Barrier'
  <2>1. round' \in Nat /\ proposals' = RewoundProposals(round') /\ groups' = RewoundGroups(round')
    <3>1. log # <<>> /\ log \in Seq(LogEntry)
      BY <1>7 DEF RollbackLastRound, TypeInv, TypeOK
    <3>2. Len(log) \in DOMAIN log
      BY <3>1
    <3> QED
      BY <1>0, <1>7, <3>2, Entries DEF RollbackLastRound
  <2>2. BarrierOf(proposals', groups')
    BY <2>1, RewindBarrier
  <2> QED
    BY <2>2 DEF Barrier, BarrierOf, NoOrphanBarrier, MembersOfTheRound, Known
<1>8. ASSUME NEW news \in Responses, NEW g \in Groups \cup {None}, NEW i \in DOMAIN log,
             SwipeRound(i, news, g)
      PROVE  Barrier'
  <2> DEFINE r == log[i].round
  <2>1. /\ proposals' = WithRewards(RewoundProposals(r), news, g, r)
        /\ groups' = WithGroup(RewoundGroups(r), news, g, r)
        /\ Fresh(news, g) /\ r \in Nat
    BY <1>8, Entries, SwipeRoundDoes
  <2> HIDE DEF r
  <2>2. (\A o \in DOMAIN news : RewoundProposals(r)[o] = None) /\ (g # None => DOMAIN news # {})
    BY <2>1, RewindOffer DEF Fresh, Known, Responses
  <2>3. BarrierOf(RewoundProposals(r), RewoundGroups(r))
    BY <2>1, RewindBarrier
  <2>4. RewoundProposals(r) \in ProposalMap /\ RewoundGroups(r) \in GroupMap
    BY <2>1, RewindType
  <2>5. BarrierOf(proposals', groups')
    BY <2>1, <2>2, <2>3, <2>4, ResponseBarrier
  <2> QED
    BY <2>5 DEF Barrier, BarrierOf, NoOrphanBarrier, MembersOfTheRound, Known
<1> QED
  BY <1>1, <1>2, <1>3, <1>4, <1>5, <1>6, <1>7, <1>8 DEF Next, Decision, Rewind

(***************************************************************************)
(* An effect group that stops the table can be released by deciding one of *)
(* its offers: no order of settlements, refusals, deletions and rewinds    *)
(* leaves a pending group without an open offer.                           *)
(***************************************************************************)
THEOREM BarrierNeverOrphaned == Spec => []NoOrphanBarrier
<1>1. Barrier => NoOrphanBarrier
  BY DEF Barrier
<1> QED
  BY <1>1, InitType, NextType, InitBarrier, NextBarrier, PTL DEF Spec

----------------------------------------------------------------------------
(***************************************************************************)
(* The mailbox.                                                            *)
(***************************************************************************)

LEMMA InitMemory == Init => MemoryFollowsGroup
<1> SUFFICES ASSUME Init PROVE MemoryFollowsGroup
  OBVIOUS
<1>1. PICK news \in Responses, g \in Groups \cup {None} :
         groups = WithGroup([h \in Groups |-> None], news, g, 1)
  BY Opening
<1>2. \A h \in Groups : groups[h] # None => groups[h].status = "pending"
  BY <1>1 DEF WithGroup
<1> QED
  BY <1>2 DEF Init, MemoryFollowsGroup

LEMMA DecideMemory ==
    ASSUME TypeInv, MemoryFollowsGroup, NEW o \in Known, NEW s \in OfferStatus, Decide(o, s)
    PROVE  MemoryFollowsGroup'
<1> SUFFICES ASSUME NEW g \in Groups
             PROVE  IF groups'[g] # None /\ groups'[g].status = "committed"
                    THEN outbox'[g] \in {"pending", "delivered"}
                    ELSE outbox'[g] \notin {"pending", "delivered"}
  BY DEF MemoryFollowsGroup
<1>1. outbox'[g] = IF g \in Released(groups') THEN "pending" ELSE outbox[g]
  BY DEF Decide, WithMemory
<1>2. IF groups[g] # None /\ groups[g].status = "committed"
      THEN outbox[g] \in {"pending", "delivered"}
      ELSE outbox[g] \notin {"pending", "delivered"}
  BY DEF MemoryFollowsGroup
<1>3. CASE groups[g] = None
  BY <1>1, <1>2, <1>3, DecideGroup DEF Released
<1>4. CASE groups[g] # None
  BY <1>1, <1>2, <1>4, DecideGroup DEF Released
<1> QED
  BY <1>3, <1>4

LEMMA RewindMemory ==
    ASSUME TypeInv, MemoryFollowsGroup, NEW r \in Nat, NEW g \in Groups
    PROVE  IF RewoundGroups(r)[g] # None /\ RewoundGroups(r)[g].status = "committed"
           THEN RewoundOutbox(r)[g] \in {"pending", "delivered"}
           ELSE RewoundOutbox(r)[g] \notin {"pending", "delivered"}
<1>1. IF groups[g] # None /\ groups[g].status = "committed"
      THEN outbox[g] \in {"pending", "delivered"}
      ELSE outbox[g] \notin {"pending", "delivered"}
  BY DEF MemoryFollowsGroup
<1>2. RewoundOutbox(r)[g] = CASE GroupIn(g, r) /\ outbox[g] = "pending"   -> "superseded"
                              [] GroupIn(g, r) /\ outbox[g] = "delivered" -> "reversal_pending"
                              [] OTHER                                    -> outbox[g]
  BY DEF RewoundOutbox
<1>3. CASE GroupIn(g, r)
  <2>1. RewoundGroups(r)[g].status = "superseded"
    BY <1>3, RewindGroup DEF GroupIn
  <2> QED
    BY <1>1, <1>2, <1>3, <2>1
<1>4. CASE ~GroupIn(g, r)
  <2>1. RewoundGroups(r)[g] = groups[g] /\ RewoundOutbox(r)[g] = outbox[g]
    BY <1>2, <1>4 DEF RewoundGroups
  <2> QED
    BY <1>1, <2>1
<1> QED
  BY <1>3, <1>4

LEMMA NextMemory == TypeInv /\ MemoryFollowsGroup /\ [Next]_vars => MemoryFollowsGroup'
<1> SUFFICES ASSUME TypeInv, MemoryFollowsGroup, [Next]_vars PROVE MemoryFollowsGroup'
  OBVIOUS
<1> USE DEF progress, ledger, bounds
<1>1. ASSUME UNCHANGED <<groups, outbox>>
      PROVE  MemoryFollowsGroup'
  BY <1>1 DEF MemoryFollowsGroup
<1>2. ASSUME \/ \E o \in Offers, t \in Terms : QueueCharge(o, t)
             \/ \E o \in Offers, a \in Actors : PayDeposit(o, a)
             \/ BeginJudgment \/ AbortJudgment \/ RecoverJudgment \/ ResumeGame
             \/ UNCHANGED vars
      PROVE  UNCHANGED <<groups, outbox>>
  BY <1>2 DEF QueueCharge, QueueOffer, PayDeposit, BeginJudgment, AbortJudgment,
     RecoverJudgment, ResumeGame, vars
<1>3. ASSUME NEW o \in Offers, NEW a \in Actors,
             Settle(o, a) \/ RejectForFunds(o, a) \/ Refuse(o, a)
      PROVE  MemoryFollowsGroup'
  <2>1. o \in Known
    BY <1>3 DEF Settle, RejectForFunds, Refuse, WithStatus
  <2>2. PICK s \in OfferStatus : Decide(o, s)
    BY <1>3 DEF Settle, RejectForFunds, Refuse, OfferStatus
  <2> QED
    BY <2>1, <2>2, DecideMemory
<1>4. ASSUME NEW u \in Players, DeleteCharacter(u)
      PROVE  MemoryFollowsGroup'
  <2>1. UNCHANGED outbox
    BY <1>4 DEF DeleteCharacter
  <2>2. \A g \in Groups : groups'[g] # None /\ groups'[g].status = "committed"
                         <=> groups[g] # None /\ groups[g].status = "committed"
    BY <1>4, DeleteGroup
  <2> QED
    BY <2>1, <2>2 DEF MemoryFollowsGroup
<1>5. ASSUME NEW done \in SUBSET Groups, DeliverMemory(done)
      PROVE  MemoryFollowsGroup'
  BY <1>5 DEF DeliverMemory, MemoryFollowsGroup
<1>6. ASSUME NEW news, NEW g, NEW gs, NEW r, Fresh(news, g),
             groups' = WithGroup(gs, news, g, r),
             g \in Groups => gs[g] = None,
             \A h \in Groups : IF gs[h] # None /\ gs[h].status = "committed"
                             THEN outbox'[h] \in {"pending", "delivered"}
                             ELSE outbox'[h] \notin {"pending", "delivered"}
      PROVE  MemoryFollowsGroup'
  <2> SUFFICES ASSUME NEW h \in Groups
               PROVE  IF groups'[h] # None /\ groups'[h].status = "committed"
                      THEN outbox'[h] \in {"pending", "delivered"}
                      ELSE outbox'[h] \notin {"pending", "delivered"}
    BY DEF MemoryFollowsGroup
  <2>1. groups'[h] = IF h = g THEN [status |-> "pending", members |-> DOMAIN news, round |-> r]
                              ELSE gs[h]
    BY <1>6 DEF WithGroup
  <2> QED
    BY <1>6, <2>1
<1>7. ASSUME NEW news \in Responses, NEW g \in Groups \cup {None},
             FinishJudgment(news, g) \/ SwipeOpening(news, g)
      PROVE  MemoryFollowsGroup'
  <2>1. groups' = WithGroup(groups, news, g, round) /\ UNCHANGED outbox /\ Fresh(news, g)
    BY <1>7, SwipeOpeningDoes DEF FinishJudgment, RecordRound
  <2>2. g \in Groups => groups[g] = None
    BY <2>1, NoneAssumption DEF Fresh
  <2> QED
    BY <1>6, <2>1, <2>2 DEF MemoryFollowsGroup
<1>8. ASSUME RollbackLastRound
      PROVE  MemoryFollowsGroup'
  <2>1. /\ round' \in Nat /\ groups' = RewoundGroups(round')
        /\ outbox' = RewoundOutbox(round')
    <3>1. log # <<>> /\ log \in Seq(LogEntry) /\ round \in Nat
      BY <1>8 DEF RollbackLastRound, TypeInv, TypeOK
    <3>2. Len(log) \in DOMAIN log
      BY <3>1
    <3> QED
      BY <1>8, <3>1, <3>2, Entries DEF RollbackLastRound
  <2> QED
    BY <2>1, RewindMemory DEF MemoryFollowsGroup
<1>9. ASSUME NEW news \in Responses, NEW g \in Groups \cup {None}, NEW i \in DOMAIN log,
             SwipeRound(i, news, g)
      PROVE  MemoryFollowsGroup'
  <2> DEFINE r == log[i].round
  <2>1. /\ groups' = WithGroup(RewoundGroups(r), news, g, r)
        /\ outbox' = RewoundOutbox(r) /\ Fresh(news, g) /\ r \in Nat
    BY <1>9, Entries, SwipeRoundDoes
  <2> HIDE DEF r
  <2>2. g \in Groups => RewoundGroups(r)[g] = None
    BY <2>1, RewindGroup, NoneAssumption DEF Fresh
  <2>3. \A h \in Groups :
           IF RewoundGroups(r)[h] # None /\ RewoundGroups(r)[h].status = "committed"
           THEN outbox'[h] \in {"pending", "delivered"}
           ELSE outbox'[h] \notin {"pending", "delivered"}
    BY <2>1, RewindMemory
  <2> QED
    BY <1>6, <2>1, <2>2, <2>3
<1> QED
  BY <1>1, <1>2, <1>3, <1>4, <1>5, <1>7, <1>8, <1>9 DEF Next, Decision, Rewind

(***************************************************************************)
(* The memory of a group is queued or delivered exactly while the group is *)
(* committed; a rewind that supersedes the group always takes its memory   *)
(* back, also when it was delivered.                                       *)
(***************************************************************************)
THEOREM MemoryAlwaysFollows == Spec => []MemoryFollowsGroup
BY InitType, NextType, InitMemory, NextMemory, PTL DEF Spec

----------------------------------------------------------------------------
(***************************************************************************)
(* The release.                                                            *)
(***************************************************************************)

\* What EffectBarrier says of one step.
Releases == \A g \in Groups :
    groups[g] # None /\ groups[g].status # "committed" /\ groups'[g].status = "committed"
      => \A o \in groups[g].members : proposals'[o].status = "committed"

LEMMA NextReleases == TypeInv /\ [Next]_vars => [Releases]_vars
<1> SUFFICES ASSUME TypeInv, Next PROVE Releases
  OBVIOUS
<1> USE DEF progress, ledger, bounds
<1>1. ASSUME \A g \in Groups : groups[g] # None /\ groups'[g].status = "committed"
                                => groups[g].status = "committed"
      PROVE  Releases
  BY <1>1 DEF Releases
<1>2. ASSUME NEW o \in Offers, NEW a \in Actors,
             Settle(o, a) \/ RejectForFunds(o, a) \/ Refuse(o, a)
      PROVE  Releases
  <2>1. o \in Known
    BY <1>2 DEF Settle, RejectForFunds, Refuse, WithStatus
  <2>2. PICK s \in OfferStatus : Decide(o, s)
    BY <1>2 DEF Settle, RejectForFunds, Refuse, OfferStatus
  <2> QED
    BY <2>1, <2>2, DecideGroup DEF Releases
<1>3. ASSUME \/ \E o \in Offers, t \in Terms : QueueCharge(o, t)
             \/ \E o \in Offers, a \in Actors : PayDeposit(o, a)
             \/ \E done \in SUBSET Groups : DeliverMemory(done)
             \/ BeginJudgment \/ AbortJudgment \/ RecoverJudgment \/ ResumeGame
      PROVE  Releases
  <2>1. UNCHANGED groups
    BY <1>3 DEF QueueCharge, QueueOffer, PayDeposit, DeliverMemory, BeginJudgment,
       AbortJudgment, RecoverJudgment, ResumeGame
  <2> QED
    BY <1>1, <2>1
<1>4. ASSUME NEW u \in Players, DeleteCharacter(u)
      PROVE  Releases
  BY <1>1, <1>4, DeleteGroup
<1>5. ASSUME NEW gs, NEW r, NEW news, NEW g,
             groups' = WithGroup(gs, news, g, r),
             \A h \in Groups : groups[h] # None /\ gs[h].status = "committed"
                                 => groups[h].status = "committed"
      PROVE  Releases
  <2>1. \A h \in Groups : groups'[h] = gs[h] \/ groups'[h].status = "pending"
    BY <1>5 DEF WithGroup
  <2> QED
    BY <1>1, <1>5, <2>1
<1>6. ASSUME NEW news \in Responses, NEW g \in Groups \cup {None},
             FinishJudgment(news, g) \/ SwipeOpening(news, g)
      PROVE  Releases
  BY <1>5, <1>6, SwipeOpeningDoes DEF FinishJudgment, RecordRound
<1>7. ASSUME NEW r \in Nat, NEW h \in Groups, groups[h] # None,
             RewoundGroups(r)[h].status = "committed"
      PROVE  groups[h].status = "committed"
  BY <1>7, RewindGroup
<1>8. ASSUME RollbackLastRound
      PROVE  Releases
  <2>1. round' \in Nat /\ groups' = RewoundGroups(round')
    <3>1. log # <<>> /\ log \in Seq(LogEntry) /\ round \in Nat
      BY <1>8 DEF RollbackLastRound, TypeInv, TypeOK
    <3>2. Len(log) \in DOMAIN log
      BY <3>1
    <3> QED
      BY <1>8, <3>1, <3>2, Entries DEF RollbackLastRound
  <2> QED
    BY <1>1, <1>7, <2>1
<1>9. ASSUME NEW news \in Responses, NEW g \in Groups \cup {None}, NEW i \in DOMAIN log,
             SwipeRound(i, news, g)
      PROVE  Releases
  <2>1. log[i].round \in Nat /\ groups' = WithGroup(RewoundGroups(log[i].round), news, g, log[i].round)
    BY <1>9, Entries, SwipeRoundDoes
  <2> QED
    BY <1>5, <1>7, <2>1
<1> QED
  BY <1>2, <1>3, <1>4, <1>6, <1>8, <1>9 DEF Next, Decision, Rewind

(***************************************************************************)
(* Deferred narrative effects are applied only by the step that makes the  *)
(* last offer of their group committed.                                    *)
(***************************************************************************)
THEOREM EffectsWaitForAll == Spec => EffectBarrier
<1>1. [Releases]_vars <=> [\A g \in Groups :
         groups[g] # None /\ groups[g].status # "committed"
         /\ groups'[g].status = "committed"
         => \A o \in groups[g].members : proposals'[o].status = "committed"]_vars
  BY DEF Releases
<1> QED
  BY <1>1, InitType, NextType, NextReleases, PTL DEF Spec, EffectBarrier

----------------------------------------------------------------------------
(***************************************************************************)
(* The ledger and the proposals it settles.                                *)
(*                                                                         *)
(* That ledger and proposals agree is not inductive alone.  A rewind       *)
(* reopens a committed offer when any entry of it is reversed, so that     *)
(* entry must be the final one, or take the final one with it: an offer    *)
(* has one standing final entry, no older than its deposit, and a refund   *)
(* only once it is cancelled.                                              *)
(***************************************************************************)

\* Entry i of ledger txs counts, as a stage payment for offer o.
Counts(txs, i, o, stage) ==
    i \in DOMAIN txs /\ txs[i].offer = o /\ txs[i].status = "committed" /\ txs[i].stage = stage

Stands(txs, o, stage) == \E i \in DOMAIN txs : Counts(txs, i, o, stage)

\* The entries that stand for offer o are those that proposal p tells of.
Story(p, o, txs) ==
    /\ Stands(txs, o, "final") <=> p.status = "committed"
    /\ p.status \in {"pending", "committed"} =>
          (Stands(txs, o, "deposit") <=> p.stage = "deposit_paid")
    /\ p.status = "cancelled" => (Stands(txs, o, "deposit") => p.stage = "deposit_paid")
    /\ p.status \notin {"pending", "committed", "cancelled"} => ~Stands(txs, o, "deposit")

Stories(props, txs) ==
    /\ \A i \in DOMAIN txs : txs[i].offer \in Offers /\ props[txs[i].offer] # None
    /\ \A o \in Offers : props[o] # None => Story(props[o], o, txs)

Once(txs) == \A i, j \in DOMAIN txs : \A o \in Offers : \A stage \in {"deposit", "final"} :
                 Counts(txs, i, o, stage) /\ Counts(txs, j, o, stage) => i = j

DepositFirst(txs) ==
    \A i, j \in DOMAIN txs : \A o \in Offers :
        Counts(txs, i, o, "deposit") /\ Counts(txs, j, o, "final")
           => txs[i].round <= txs[j].round

RefundsAreCancellations(props, txs) ==
    \A i \in DOMAIN txs : txs[i].stage = "refund" => props[txs[i].offer].status = "cancelled"

BooksOf(props, txs) == /\ Stories(props, txs) /\ Once(txs)
                       /\ DepositFirst(txs) /\ RefundsAreCancellations(props, txs)

Books == BooksOf(proposals, transactions)

\* The invariant gives the two properties.
LEMMA BooksGive ==
    ASSUME TypeInv, Books
    PROVE  LedgerMatchesProposals /\ SettledOnce
<1>1. \A o \in Offers, stage \in {"deposit", "final"} :
         Paid(o, stage) <=> Stands(transactions, o, stage)
  BY DEF Paid, Committed, Stands, Counts
<1>2. LedgerMatchesProposals
  <2>1. ASSUME NEW o \in Known PROVE Story(proposals[o], o, transactions)
    BY DEF Books, BooksOf, Stories, Known
  <2>2. ASSUME NEW o \in Known
        PROVE  LET p == proposals[o] IN
               /\ Paid(o, "final") <=> p.status = "committed"
               /\ CASE p.status \in {"pending", "committed"} ->
                          Paid(o, "deposit") <=> p.stage = "deposit_paid"
                    [] p.status = "cancelled" ->
                          Paid(o, "deposit") => p.stage = "deposit_paid"
                    [] OTHER -> ~Paid(o, "deposit")
    BY <1>1, <2>1 DEF Story, Known
  <2>3. \A i \in DOMAIN transactions : transactions[i].offer \in Known
    BY DEF Books, BooksOf, Stories, Known
  <2> QED
    BY <2>2, <2>3 DEF LedgerMatchesProposals
<1>3. SettledOnce
  <2> SUFFICES ASSUME NEW i \in DOMAIN transactions, NEW j \in DOMAIN transactions,
                      transactions[i].status = "committed",
                      transactions[j].status = "committed",
                      transactions[i].offer = transactions[j].offer,
                      transactions[i].stage = transactions[j].stage,
                      transactions[i].stage # "refund"
               PROVE  i = j
    BY DEF SettledOnce
  <2>1. transactions[i].offer \in Offers /\ transactions[i].stage \in {"deposit", "final"}
    BY Entries DEF Transaction
  <2> QED
    BY <2>1 DEF Books, BooksOf, Once, Counts
<1> QED
  BY <1>2, <1>3

LEMMA InitBooks == Init => Books
<1> SUFFICES ASSUME Init PROVE Books
  OBVIOUS
<1>1. PICK news \in Responses, g \in Groups \cup {None} :
         proposals = WithRewards([o \in Offers |-> None], news, g, 1)
  BY Opening
<1>2. ASSUME NEW o \in Offers, proposals[o] # None
      PROVE  proposals[o].status = "pending" /\ proposals[o].stage # "deposit_paid"
  BY <1>1, <1>2 DEF WithRewards, NewProposal
<1>3. transactions = <<>>
  BY DEF Init
<1>4. Stories(proposals, transactions)
  BY <1>2, <1>3 DEF Stories, Story, Stands, Counts
<1> QED
  BY <1>3, <1>4 DEF Books, BooksOf, Once, DepositFirst, RefundsAreCancellations, Counts

----------------------------------------------------------------------------
(***************************************************************************)
(* Writing an entry.                                                       *)
(***************************************************************************)

\* A new final entry for an open offer that it commits, or a new deposit for
\* one without, keeps the books.
LEMMA BookEntry ==
    ASSUME NEW props \in ProposalMap, NEW txs \in Seq(Transaction), BooksOf(props, txs),
           NEW x \in Transaction, NEW now \in Nat, NEW o \in Offers,
           x.offer = o, x.status = "committed", x.round = now,
           \A i \in DOMAIN txs : txs[i].status = "committed" => txs[i].round <= now,
           props[o] # None, props[o].status = "pending",
           NEW q \in Proposal,
           \/ /\ x.stage = "final" /\ q.status = "committed" /\ q.stage = props[o].stage
           \/ /\ x.stage = "deposit" /\ props[o].stage = "deposit_pending"
              /\ q.status = "pending" /\ q.stage = "deposit_paid"
    PROVE  BooksOf([props EXCEPT ![o] = q], Append(txs, x))
<1> DEFINE txs2   == Append(txs, x)
           n      == Len(txs) + 1
           props2 == [props EXCEPT ![o] = q]
<1>1. /\ DOMAIN txs = 1..Len(txs) /\ Len(txs) \in Nat /\ DOMAIN txs2 = 1..n
      /\ \A i \in DOMAIN txs : txs2[i] = txs[i] /\ i # n /\ i \in DOMAIN txs2
      /\ txs2[n] = x /\ n \in DOMAIN txs2
      /\ \A i \in DOMAIN txs2 : i = n \/ i \in DOMAIN txs
  BY AppendParts
<1>2. /\ props2[o] = q /\ q # None
      /\ \A p \in Offers : p # o => props2[p] = props[p]
  BY NoneAssumption DEF ProposalMap
<1> HIDE DEF txs2, n, props2
<1>3. \A i, p, stage : Counts(txs2, i, p, stage)
                         <=> \/ Counts(txs, i, p, stage)
                             \/ i = n /\ p = o /\ stage = x.stage
  BY <1>1 DEF Counts
<1>4. /\ \A p \in Offers, stage \in {"deposit", "final"} :
            Stands(txs2, p, stage) <=> Stands(txs, p, stage) \/ (p = o /\ stage = x.stage)
      /\ ~Stands(txs, o, x.stage)
  <2>1. ~Stands(txs, o, x.stage)
    BY DEF BooksOf, Stories, Story
  <2>2. \A p, stage : Stands(txs2, p, stage) <=> Stands(txs, p, stage) \/ (p = o /\ stage = x.stage)
    BY <1>1, <1>3 DEF Stands, Counts
  <2> QED
    BY <2>1, <2>2
<1>5. Stories(props2, txs2)
  <2>1. \A i \in DOMAIN txs2 : txs2[i].offer \in Offers /\ props2[txs2[i].offer] # None
    BY <1>1, <1>2 DEF BooksOf, Stories
  <2>2. ASSUME NEW p \in Offers, props2[p] # None
        PROVE  Story(props2[p], p, txs2)
    <3>1. CASE p # o
      BY <1>2, <1>4, <2>2, <3>1 DEF BooksOf, Stories, Story
    <3>2. CASE p = o
      <4>1. Story(props[o], o, txs)
        BY DEF BooksOf, Stories
      <4> QED
        BY <1>2, <1>4, <3>2, <4>1 DEF Story
    <3> QED
      BY <3>1, <3>2
  <2> QED
    BY <2>1, <2>2 DEF Stories
<1>6. Once(txs2)
  <2> SUFFICES ASSUME NEW i \in DOMAIN txs2, NEW j \in DOMAIN txs2, NEW p \in Offers,
                      NEW stage \in {"deposit", "final"},
                      Counts(txs2, i, p, stage), Counts(txs2, j, p, stage)
               PROVE  i = j
    BY DEF Once
  <2>1. CASE p = o /\ stage = x.stage
    <3>1. \A k : ~Counts(txs, k, o, x.stage)
      BY <1>4 DEF Stands, Counts
    <3> QED
      BY <1>3, <2>1, <3>1
  <2>2. CASE ~(p = o /\ stage = x.stage)
    <3>1. Counts(txs, i, p, stage) /\ Counts(txs, j, p, stage)
      BY <1>3, <2>2
    <3> QED
      BY <3>1 DEF BooksOf, Once, Counts
  <2> QED
    BY <2>1, <2>2
<1>7. DepositFirst(txs2)
  <2> SUFFICES ASSUME NEW i \in DOMAIN txs2, NEW j \in DOMAIN txs2, NEW p \in Offers,
                      Counts(txs2, i, p, "deposit"), Counts(txs2, j, p, "final")
               PROVE  txs2[i].round <= txs2[j].round
    BY DEF DepositFirst
  <2>1. ~Stands(txs, o, "final")
    BY DEF BooksOf, Stories, Story
  <2>2. \A k \in DOMAIN txs : Counts(txs, k, p, "final") => Stands(txs, p, "final")
    BY DEF Stands
  <2>3. CASE Counts(txs, i, p, "deposit") /\ Counts(txs, j, p, "final")
    BY <1>1, <2>3 DEF BooksOf, DepositFirst, Counts
  <2>4. CASE Counts(txs, i, p, "deposit") /\ j = n
    BY <1>1, <2>4 DEF Counts
  <2>5. CASE i = n /\ p = o /\ x.stage = "deposit"
    <3>1. Counts(txs, j, o, "final")
      BY <1>3, <2>5
    <3> QED
      BY <2>1, <2>2, <2>5, <3>1 DEF Counts
  <2> QED
    BY <1>3, <2>3, <2>4, <2>5
<1>8. RefundsAreCancellations(props2, txs2)
  BY <1>1, <1>2 DEF BooksOf, RefundsAreCancellations, Stories
<1>9. BooksOf(props2, txs2)
  BY <1>5, <1>6, <1>7, <1>8 DEF BooksOf
<1> QED
  BY <1>9 DEF txs2, props2

----------------------------------------------------------------------------
(***************************************************************************)
(* Deciding without an entry, deleting, proposing.                         *)
(***************************************************************************)

\* An open offer without a deposit may be turned down.
LEMMA BookRefusal ==
    ASSUME NEW props \in ProposalMap, NEW txs \in Seq(Transaction), BooksOf(props, txs),
           NEW o \in Offers, props[o] # None, props[o].status = "pending",
           props[o].stage # "deposit_paid",
           NEW q \in Proposal, q.status \in Refusals
    PROVE  BooksOf([props EXCEPT ![o] = q], txs)
<1> DEFINE props2 == [props EXCEPT ![o] = q]
<1>1. /\ props2[o] = q /\ q # None
      /\ \A p \in Offers : p # o => props2[p] = props[p]
  BY NoneAssumption DEF ProposalMap
<1> HIDE DEF props2
<1>2. ~Stands(txs, o, "final") /\ ~Stands(txs, o, "deposit")
  BY DEF BooksOf, Stories, Story
<1>3. Stories(props2, txs)
  BY <1>1, <1>2 DEF BooksOf, Stories, Story, Refusals
<1>4. RefundsAreCancellations(props2, txs)
  <2>1. \A i \in DOMAIN txs : txs[i].stage = "refund" => txs[i].offer # o
    BY DEF BooksOf, RefundsAreCancellations
  <2> QED
    BY <1>1, <2>1 DEF BooksOf, RefundsAreCancellations, Stories
<1>5. BooksOf(props2, txs)
  BY <1>3, <1>4 DEF BooksOf
<1> QED
  BY <1>5 DEF props2

\* New offers have no entry yet.
LEMMA BookOffers ==
    ASSUME NEW props \in ProposalMap, NEW txs \in Seq(Transaction), BooksOf(props, txs),
           NEW props2,
           \A o \in Offers : props[o] # None => props2[o] = props[o],
           \A o \in Offers : props[o] = None /\ props2[o] # None =>
                 props2[o].status = "pending" /\ props2[o].stage # "deposit_paid"
    PROVE  BooksOf(props2, txs)
<1>1. ASSUME NEW o \in Offers, props[o] = None, NEW stage
      PROVE  ~Stands(txs, o, stage)
  BY <1>1 DEF BooksOf, Stories, Stands, Counts
<1>2. Stories(props2, txs)
  BY <1>1 DEF BooksOf, Stories, Story
<1>3. RefundsAreCancellations(props2, txs)
  BY DEF BooksOf, RefundsAreCancellations, Stories
<1> QED
  BY <1>2, <1>3 DEF BooksOf

\* What a response proposes are new offers.
LEMMA BookRewards ==
    ASSUME NEW props \in ProposalMap, NEW txs \in Seq(Transaction), BooksOf(props, txs),
           NEW news \in Responses, NEW g, NEW r,
           \A o \in DOMAIN news : props[o] = None
    PROVE  BooksOf(WithRewards(props, news, g, r), txs)
<1>1. \A o \in DOMAIN news : NewProposal(news[o], g, r).status = "pending"
                            /\ NewProposal(news[o], g, r).stage # "deposit_paid"
  BY DEF NewProposal
<1> DEFINE props2 == WithRewards(props, news, g, r)
<1>2. /\ \A o \in Offers : props[o] # None => props2[o] = props[o]
      /\ \A o \in Offers : props[o] = None /\ props2[o] # None =>
            props2[o].status = "pending" /\ props2[o].stage # "deposit_paid"
  BY <1>1 DEF WithRewards
<1> QED
  BY <1>2, BookOffers

\* A deletion cancels open offers and writes only refunds of them.
LEMMA BookDeletion ==
    ASSUME TypeInv, Books, NEW u \in Players, DeleteCharacter(u)
    PROVE  Books'
<1>1. /\ DOMAIN transactions \subseteq DOMAIN transactions'
      /\ \A i \in DOMAIN transactions : transactions'[i] = transactions[i]
      /\ \A i \in DOMAIN transactions' \ DOMAIN transactions :
            \E o \in Gone(u) : transactions'[i].offer = o /\ transactions'[i].stage = "refund"
  BY DeleteLedger DEF Refund
<1>2. \A i, o : \A stage \in {"deposit", "final"} :
         Counts(transactions', i, o, stage) <=> Counts(transactions, i, o, stage)
  BY <1>1 DEF Counts
<1>3. \A o : \A stage \in {"deposit", "final"} :
         Stands(transactions', o, stage) <=> Stands(transactions, o, stage)
  BY <1>1, <1>2 DEF Stands, Counts
<1>4. Gone(u) \subseteq Known /\ Known \subseteq Offers /\ Known' = Known
  BY DeleteOffer DEF Known
<1>5. \A i \in DOMAIN transactions' : transactions'[i].offer \in Known
  BY <1>1, <1>4 DEF Books, BooksOf, Stories, Known
<1>6. ASSUME NEW o \in Known PROVE Story(proposals'[o], o, transactions')
  <2>1. Story(proposals[o], o, transactions)
    BY DEF Books, BooksOf, Stories, Known
  <2>2. CASE o \in Gone(u)
    BY <1>3, <2>1, <2>2, DeleteOffer DEF Story
  <2>3. CASE o \notin Gone(u)
    BY <1>3, <2>1, <2>3, DeleteOffer DEF Story
  <2> QED
    BY <2>2, <2>3
<1>7. Stories(proposals', transactions')
  BY <1>4, <1>5, <1>6 DEF Stories, Known
<1>8. Once(transactions') /\ DepositFirst(transactions')
  <2>1. Once(transactions) /\ DepositFirst(transactions)
    BY DEF Books, BooksOf
  <2>2. \A i, o : \A stage \in {"deposit", "final"} :
           Counts(transactions, i, o, stage) => i \in DOMAIN transactions
    BY DEF Counts
  <2>3. Once(transactions')
    BY <1>2, <2>1, <2>2 DEF Once
  <2>4. DepositFirst(transactions')
    BY <1>1, <1>2, <2>1, <2>2 DEF DepositFirst
  <2> QED
    BY <2>3, <2>4
<1>9. RefundsAreCancellations(proposals', transactions')
  <2> SUFFICES ASSUME NEW i \in DOMAIN transactions', transactions'[i].stage = "refund"
               PROVE  proposals'[transactions'[i].offer].status = "cancelled"
    BY DEF RefundsAreCancellations
  <2>1. CASE i \in DOMAIN transactions
    <3>1. /\ transactions[i].offer \in Known /\ transactions'[i] = transactions[i]
          /\ proposals[transactions[i].offer].status = "cancelled"
      BY <1>1, <2>1 DEF Books, BooksOf, Stories, RefundsAreCancellations, Known
    <3> QED
      BY <3>1, DeleteOffer
  <2>2. CASE i \notin DOMAIN transactions
    BY <1>1, <2>2, DeleteOffer
  <2> QED
    BY <2>1, <2>2
<1> QED
  BY <1>7, <1>8, <1>9 DEF Books, BooksOf

----------------------------------------------------------------------------
(***************************************************************************)
(* Rewinding.                                                              *)
(***************************************************************************)

\* The stage of an older offer is read off the ledger if anything of it was
\* reversed, and left alone otherwise.
LEMMA RewindStage ==
    ASSUME TypeInv, NEW r \in Nat, NEW o \in Known, ~(proposals[o].round >= r)
    PROVE  IF \E i \in SettledIn(r) : transactions[i].offer = o
           THEN RewoundProposals(r)[o].stage =
                  IF proposals[o].stage = "full" THEN "full"
                  ELSE IF Stands(ReversedLedger(r), o, "deposit")
                  THEN "deposit_paid" ELSE "deposit_pending"
           ELSE RewoundProposals(r)[o].stage = proposals[o].stage
<1> DEFINE p == proposals[o]
           txs == ReversedLedger(r)
<1>1. p \in Proposal /\ o \in Offers
  BY DEF TypeInv, TypeOK, Known
<1>2. /\ RewoundProposals(r)[o] = RewoundProposal(o, r)
      /\ o \notin OriginIn(r)
  BY <1>1 DEF RewoundProposals, OriginIn
<1>3. Committed(txs, o, {"deposit"}) # {} <=> Stands(txs, o, "deposit")
  BY DEF Committed, Stands, Counts
<1> HIDE DEF txs
<1>4. ASSUME NEW q \in Proposal
      PROVE  Resynced(o, q, txs).stage = IF q.stage = "full" THEN "full"
                                         ELSE IF Stands(txs, o, "deposit")
                                         THEN "deposit_paid" ELSE "deposit_pending"
  BY <1>3 DEF Resynced, Proposal
<1>5. CASE \E i \in SettledIn(r) : transactions[i].offer = o
  <2> DEFINE q == IF p.status = "committed" THEN [p EXCEPT !.status = "pending"] ELSE p
  <2>1. q \in Proposal /\ q.stage = p.stage
    <3>1. [p EXCEPT !.status = "pending"] \in Proposal
      BY <1>1, ProposalEdit DEF OfferStatus
    <3>2. [p EXCEPT !.status = "pending"].stage = p.stage
      BY <1>1 DEF Proposal
    <3> HIDE DEF p
    <3> QED
      BY <1>1, <3>1, <3>2
  <2>2. RewoundProposal(o, r) = Resynced(o, q, txs)
    BY <1>2, <1>5 DEF RewoundProposal, txs
  <2> HIDE DEF q
  <2> QED
    BY <1>2, <1>4, <1>5, <2>1, <2>2 DEF txs
<1>6. CASE ~\E i \in SettledIn(r) : transactions[i].offer = o
  BY <1>2, <1>6 DEF RewoundProposal
<1> QED
  BY <1>5, <1>6

LEMMA BookRewind ==
    ASSUME TypeInv, Books, NEW r \in Nat
    PROVE  BooksOf(RewoundProposals(r), ReversedLedger(r))
<1> DEFINE txs == ReversedLedger(r)
           props == RewoundProposals(r)
<1>1. /\ DOMAIN txs = DOMAIN transactions
      /\ \A i \in DOMAIN transactions :
            /\ txs[i].round = transactions[i].round /\ txs[i].offer = transactions[i].offer
            /\ txs[i].stage = transactions[i].stage
            /\ txs[i].status = "committed"
                 <=> transactions[i].status = "committed" /\ i \notin SettledIn(r)
  BY RewindLedger
<1>2. \A o \in Offers :
         /\ proposals[o] = None <=> props[o] = None
         /\ o \in Known =>
               IF proposals[o].round >= r
               THEN props[o].status = CASE proposals[o].status = "committed" -> "reversed"
                                        [] proposals[o].status = "pending"   -> "superseded"
                                        [] OTHER -> proposals[o].status
               ELSE props[o].status = IF /\ proposals[o].status = "committed"
                                         /\ \E i \in SettledIn(r) : transactions[i].offer = o
                                      THEN "pending" ELSE proposals[o].status
  BY RewindOffer
<1>3. \A o \in Known : ~(proposals[o].round >= r) =>
         IF \E i \in SettledIn(r) : transactions[i].offer = o
         THEN props[o].stage = IF proposals[o].stage = "full" THEN "full"
                               ELSE IF Stands(txs, o, "deposit")
                               THEN "deposit_paid" ELSE "deposit_pending"
         ELSE props[o].stage = proposals[o].stage
  BY RewindStage
<1> HIDE DEF txs, props
<1>4. \A i, o, stage : Counts(txs, i, o, stage)
                          <=> Counts(transactions, i, o, stage) /\ i \notin SettledIn(r)
  BY <1>1 DEF Counts
<1>5. ASSUME NEW o \in Known
      PROVE  Story(props[o], o, txs)
  <2>1. /\ Story(proposals[o], o, transactions) /\ o \in Offers
        /\ proposals[o].stage \in {"full", "deposit_pending", "deposit_paid"}
    BY DEF Books, BooksOf, Stories, Known, TypeInv, TypeOK, Proposal
  <2>2. \A stage : Stands(txs, o, stage) => Stands(transactions, o, stage)
    BY <1>1, <1>4 DEF Stands
  <2>3. CASE proposals[o].round >= r
    <3>1. \A i, stage : Counts(transactions, i, o, stage) => i \in SettledIn(r)
      BY <2>1, <2>3 DEF Counts, SettledIn, OriginIn
    <3>2. \A stage : ~Stands(txs, o, stage)
      BY <1>4, <3>1 DEF Stands
    <3> QED
      BY <1>2, <2>1, <2>3, <3>2 DEF Story
  <2>4. CASE ~(proposals[o].round >= r) /\ ~\E i \in SettledIn(r) : transactions[i].offer = o
    <3>1. \A i, stage : Counts(txs, i, o, stage) <=> Counts(transactions, i, o, stage)
      BY <1>4, <2>4 DEF Counts
    <3>2. \A stage : Stands(txs, o, stage) <=> Stands(transactions, o, stage)
      BY <1>1, <3>1 DEF Stands
    <3> QED
      BY <1>2, <1>3, <2>1, <2>4, <3>2 DEF Story
  <2>5. CASE ~(proposals[o].round >= r) /\ \E i \in SettledIn(r) : transactions[i].offer = o
    <3>1. PICK i \in SettledIn(r) : transactions[i].offer = o
      BY <2>5
    <3>2. /\ i \in DOMAIN transactions /\ transactions[i].status = "committed"
          /\ transactions[i].round >= r /\ transactions[i].round \in Nat
          /\ transactions[i].stage \in {"deposit", "final", "refund"}
      <4>1. i \in DOMAIN transactions
        BY <3>1 DEF SettledIn
      <4>2. transactions[i] \in Transaction
        BY <4>1, Entries
      <4> QED
        BY <2>5, <3>1, <4>1, <4>2 DEF SettledIn, OriginIn, Transaction
    <3>3. /\ transactions[i].stage = "refund" => proposals[o].status = "cancelled"
          /\ transactions[i].stage = "deposit" => Stands(transactions, o, "deposit")
          /\ transactions[i].stage = "final" => Stands(transactions, o, "final")
      BY <3>1, <3>2 DEF Books, BooksOf, RefundsAreCancellations, Stands, Counts
    <3>4. ASSUME proposals[o].status = "committed"
          PROVE  ~Stands(txs, o, "final")
      <4> SUFFICES ASSUME NEW f \in DOMAIN transactions, Counts(transactions, f, o, "final"),
                          f \notin SettledIn(r)
                   PROVE  FALSE
        BY <1>1, <1>4 DEF Stands
      <4>1. transactions[f].round \in Nat /\ ~(transactions[f].round >= r)
        BY Entries DEF SettledIn, Counts
      <4>2. CASE transactions[i].stage = "final"
        <5>1. Counts(transactions, i, o, "final")
          BY <3>1, <3>2, <4>2 DEF Counts
        <5>2. i = f
          BY <2>1, <5>1 DEF Books, BooksOf, Once, Counts
        <5> QED
          BY <3>1, <5>2
      <4>3. CASE transactions[i].stage = "deposit"
        <5>1. Counts(transactions, i, o, "deposit")
          BY <3>1, <3>2, <4>3 DEF Counts
        <5>2. transactions[i].round <= transactions[f].round
          BY <2>1, <5>1 DEF Books, BooksOf, DepositFirst, Counts
        <5> QED
          BY <3>2, <4>1, <5>2
      <4> QED
        BY <3>2, <3>3, <3>4, <4>2, <4>3
    <3> QED
      BY <1>2, <1>3, <2>1, <2>2, <2>5, <3>2, <3>3, <3>4 DEF Story
  <2> QED
    BY <2>3, <2>4, <2>5
<1>6. Stories(props, txs)
  BY <1>1, <1>2, <1>5 DEF Stories, Books, BooksOf, Known
<1>7. Once(txs)
  BY <1>1, <1>4 DEF Books, BooksOf, Once
<1>8. DepositFirst(txs)
  BY <1>1, <1>4 DEF Books, BooksOf, DepositFirst
<1>9. RefundsAreCancellations(props, txs)
  <2> SUFFICES ASSUME NEW i \in DOMAIN txs, txs[i].stage = "refund"
               PROVE  props[txs[i].offer].status = "cancelled"
    BY DEF RefundsAreCancellations
  <2>1. /\ transactions[i].offer \in Known /\ transactions[i].offer \in Offers
        /\ txs[i].offer = transactions[i].offer
        /\ proposals[transactions[i].offer].status = "cancelled"
    BY <1>1 DEF Books, BooksOf, Stories, RefundsAreCancellations, Known
  <2> QED
    BY <1>2, <2>1
<1>10. BooksOf(props, txs)
  BY <1>6, <1>7, <1>8, <1>9 DEF BooksOf
<1> QED
  BY <1>10 DEF props, txs

LEMMA SwipedBooks ==
    ASSUME TypeInv, Books, NEW news \in Responses, NEW g, NEW i \in DOMAIN log, Fresh(news, g)
    PROVE  BooksOf(Swiped(i, news, g).proposals, Swiped(i, news, g).transactions)
<1> DEFINE r == log[i].round
<1>1. r \in Nat /\ \A o \in DOMAIN news : o \in Offers /\ proposals[o] = None
  BY Entries DEF Fresh, Known, Responses
<1>2. /\ Swiped(i, news, g).proposals = WithRewards(RewoundProposals(r), news, g, r)
      /\ Swiped(i, news, g).transactions = ReversedLedger(r)
  BY DEF Swiped
<1> HIDE DEF r
<1>3. \A o \in DOMAIN news : RewoundProposals(r)[o] = None
  BY <1>1, RewindOffer
<1>4. /\ RewoundProposals(r) \in ProposalMap /\ ReversedLedger(r) \in Seq(Transaction)
      /\ BooksOf(RewoundProposals(r), ReversedLedger(r))
  BY <1>1, RewindType, BookRewind
<1> QED
  BY <1>2, <1>3, <1>4, BookRewards

LEMMA SwipedOpeningBooks ==
    ASSUME TypeInv, Books, NEW news \in Responses, NEW g, Fresh(news, g)
    PROVE  BooksOf(SwipedOpening(news, g).proposals, SwipedOpening(news, g).transactions)
<1>1. /\ SwipedOpening(news, g).proposals = WithRewards(proposals, news, g, round)
      /\ SwipedOpening(news, g).transactions = transactions
  BY DEF SwipedOpening, Aggregate
<1>2. /\ proposals \in ProposalMap /\ transactions \in Seq(Transaction)
      /\ \A o \in DOMAIN news : proposals[o] = None
  BY DEF TypeInv, TypeOK, ProposalMap, Fresh, Known, Responses
<1> QED
  BY <1>1, <1>2, BookRewards DEF Books

LEMMA UnguardedBooks == TypeInv /\ Chronicle /\ Books /\ [UnguardedNext]_vars => Books'
<1> SUFFICES ASSUME TypeInv, Chronicle, Books, [UnguardedNext]_vars PROVE Books'
  OBVIOUS
<1> USE DEF progress, ledger, bounds
<1>0. /\ proposals \in ProposalMap /\ transactions \in Seq(Transaction) /\ round \in Nat
      /\ BooksOf(proposals, transactions)
      /\ \A i \in DOMAIN transactions :
            transactions[i].status = "committed" => transactions[i].round <= round
  BY DEF TypeInv, TypeOK, ProposalMap, Books, Chronicle, NothingFromTheFuture, LedgerInThePast
<1>1. ASSUME NEW o \in Offers, NEW t \in Terms, QueueOffer(o, t)
      PROVE  Books'
  <2>1. /\ UNCHANGED transactions /\ proposals[o] = None
        /\ proposals' = [proposals EXCEPT ![o] = NewProposal(t, None, round)]
    BY <1>1 DEF QueueOffer, Known
  <2>2. /\ NewProposal(t, None, round).status = "pending"
        /\ NewProposal(t, None, round).stage # "deposit_paid"
    BY DEF NewProposal
  <2>3. BooksOf(proposals', transactions)
    BY <1>0, <2>1, <2>2, BookOffers DEF ProposalMap
  <2> QED
    BY <2>1, <2>3 DEF Books
<1>2. ASSUME NEW o \in Offers, NEW a \in Actors, PayDeposit(o, a)
      PROVE  Books'
  <2>1. /\ o \in Known /\ proposals[o] \in Proposal /\ proposals[o] # None
        /\ proposals[o].status = "pending" /\ proposals[o].stage = "deposit_pending"
    BY <1>2 DEF PayDeposit, WithStatus, Known, TypeInv, TypeOK
  <2> DEFINE q == [proposals[o] EXCEPT !.stage = "deposit_paid"]
             x == Receipt(o, "deposit")
  <2>2. q \in Proposal /\ q.status = "pending" /\ q.stage = "deposit_paid"
    BY <2>1, ProposalEdit DEF Proposal
  <2>3. /\ x \in Transaction /\ x.offer = o /\ x.status = "committed"
        /\ x.round = round /\ x.stage = "deposit"
    BY <2>1, ReceiptType DEF Receipt
  <2>4. proposals' = [proposals EXCEPT ![o] = q] /\ transactions' = Append(transactions, x)
    BY <1>2 DEF PayDeposit
  <2> HIDE DEF q, x
  <2>5. BooksOf([proposals EXCEPT ![o] = q], Append(transactions, x))
    BY <1>0, <2>1, <2>2, <2>3, BookEntry
  <2> QED
    BY <2>4, <2>5 DEF Books
<1>3. ASSUME NEW o \in Offers, NEW s \in OfferStatus, o \in WithStatus("pending"), Decide(o, s)
      PROVE  /\ proposals[o] # None /\ proposals[o].status = "pending" /\ o \in Known
             /\ [proposals[o] EXCEPT !.status = s] \in Proposal
             /\ [proposals[o] EXCEPT !.status = s].status = s
             /\ [proposals[o] EXCEPT !.status = s].stage = proposals[o].stage
             /\ proposals' = [proposals EXCEPT ![o] = [proposals[o] EXCEPT !.status = s]]
  <2>1. proposals[o] # None /\ proposals[o] \in Proposal /\ o \in Known /\ proposals[o].status = "pending"
    BY <1>3 DEF WithStatus, Known, TypeInv, TypeOK
  <2>2. /\ [proposals[o] EXCEPT !.status = s] \in Proposal
        /\ [proposals[o] EXCEPT !.status = s].status = s
        /\ [proposals[o] EXCEPT !.status = s].stage = proposals[o].stage
    BY <2>1, ProposalEdit DEF Proposal
  <2> QED
    BY <1>3, <2>1, <2>2 DEF Decide
<1>4. ASSUME NEW o \in Offers, NEW a \in Actors, Settle(o, a)
      PROVE  Books'
  <2>1. /\ o \in WithStatus("pending") /\ Decide(o, "committed") /\ "committed" \in OfferStatus
        /\ transactions' = Append(transactions, Receipt(o, "final"))
    BY <1>4 DEF Settle, OfferStatus
  <2> DEFINE q == [proposals[o] EXCEPT !.status = "committed"]
             x == Receipt(o, "final")
  <2>2. /\ proposals[o] # None /\ proposals[o].status = "pending" /\ o \in Known
        /\ q \in Proposal /\ q.status = "committed" /\ q.stage = proposals[o].stage
        /\ proposals' = [proposals EXCEPT ![o] = q]
    BY <1>3, <2>1
  <2>3. /\ x \in Transaction /\ x.offer = o /\ x.status = "committed"
        /\ x.round = round /\ x.stage = "final"
    BY <2>2, ReceiptType DEF Receipt
  <2> HIDE DEF q, x
  <2>4. BooksOf([proposals EXCEPT ![o] = q], Append(transactions, x))
    BY <1>0, <2>2, <2>3, BookEntry
  <2> QED
    BY <2>1, <2>2, <2>4 DEF Books, x
<1>5. ASSUME NEW o \in Offers, NEW a \in Actors, RejectForFunds(o, a) \/ Refuse(o, a)
      PROVE  Books'
  <2>1. /\ o \in WithStatus("pending") /\ proposals[o].stage # "deposit_paid"
        /\ UNCHANGED transactions /\ Refusals \subseteq OfferStatus
    BY <1>5 DEF RejectForFunds, Refuse, Refusals, OfferStatus
  <2>2. PICK s \in Refusals : Decide(o, s)
    BY <1>5 DEF RejectForFunds, Refuse, Refusals
  <2> DEFINE q == [proposals[o] EXCEPT !.status = s]
  <2>3. /\ proposals[o] # None /\ proposals[o].status = "pending"
        /\ q \in Proposal /\ q.status = s
        /\ proposals' = [proposals EXCEPT ![o] = q]
    BY <1>3, <2>1, <2>2
  <2> HIDE DEF q
  <2>4. BooksOf([proposals EXCEPT ![o] = q], transactions)
    BY <1>0, <2>1, <2>2, <2>3, BookRefusal
  <2> QED
    BY <2>1, <2>3, <2>4 DEF Books
<1>6. ASSUME NEW u \in Players, DeleteCharacter(u)
      PROVE  Books'
  BY <1>6, BookDeletion
<1>7. ASSUME \/ \E done \in SUBSET Groups : DeliverMemory(done)
             \/ BeginJudgment \/ AbortJudgment \/ RecoverJudgment \/ ResumeGame
             \/ UNCHANGED vars
      PROVE  Books'
  <2>1. UNCHANGED <<proposals, transactions>>
    BY <1>7 DEF DeliverMemory, BeginJudgment, AbortJudgment, RecoverJudgment, ResumeGame, vars
  <2> QED
    BY <1>0, <2>1 DEF Books
<1>8. ASSUME NEW news \in Responses, NEW g \in Groups \cup {None},
             RecordRound(news, g) \/ SwipeOpening(news, g)
      PROVE  Books'
  <2>1. /\ proposals' = WithRewards(proposals, news, g, round) /\ UNCHANGED transactions
        /\ \A o \in DOMAIN news : proposals[o] = None
    BY <1>8, SwipeOpeningDoes DEF RecordRound, Fresh, Known, Responses
  <2> QED
    BY <1>0, <2>1, BookRewards DEF Books
<1>9. ASSUME RollbackLastRound
      PROVE  Books'
  <2>1. /\ round' \in Nat /\ proposals' = RewoundProposals(round')
        /\ transactions' = ReversedLedger(round')
    <3>1. log # <<>> /\ log \in Seq(LogEntry)
      BY <1>9 DEF RollbackLastRound, TypeInv, TypeOK
    <3>2. Len(log) \in DOMAIN log
      BY <3>1
    <3> QED
      BY <1>0, <1>9, <3>2, Entries DEF RollbackLastRound
  <2> QED
    BY <2>1, BookRewind DEF Books
<1>10. ASSUME NEW news \in Responses, NEW g \in Groups \cup {None}, NEW i \in DOMAIN log,
              SwipeRound(i, news, g)
       PROVE  Books'
  BY <1>10, SwipedBooks DEF SwipeRound, CanSwipe, Publish, Books
<1> QED
  BY <1>1, <1>2, <1>4, <1>5, <1>6, <1>7, <1>8, <1>9, <1>10
     DEF UnguardedNext, Next, Decision, Rewind, QueueCharge, FinishJudgment

LEMMA NextBooks == TypeInv /\ Chronicle /\ Books /\ [Next]_vars => Books'
BY UnguardedBooks DEF UnguardedNext

(***************************************************************************)
(* The ledger and the proposals always agree on what was paid: through any *)
(* order of deposits, settlements, refusals, deletions, rollbacks and      *)
(* swipes, an offer is committed exactly when its final entry stands.      *)
(***************************************************************************)
THEOREM LedgerAgrees == Spec => []LedgerMatchesProposals
<1>1. TypeInv /\ Books => LedgerMatchesProposals
  BY BooksGive
<1> QED
  BY <1>1, InitType, NextType, InitChronicle, NextChronicle, InitBooks, NextBooks, PTL DEF Spec

(***************************************************************************)
(* Nobody is ever charged or rewarded twice for one offer, not even when   *)
(* it is settled, rewound and settled again.                               *)
(***************************************************************************)
THEOREM NeverSettledTwice == Spec => []SettledOnce
<1>1. TypeInv /\ Books => SettledOnce
  BY BooksGive
<1> QED
  BY <1>1, InitType, NextType, InitChronicle, NextChronicle, InitBooks, NextBooks, PTL DEF Spec

----------------------------------------------------------------------------
(***************************************************************************)
(* Refusals, cancellations and erasures.                                   *)
(***************************************************************************)

\* What TerminalIsFinal says of offer o in one step.
StaysTerminal(o) ==
    proposals[o].status \notin {"pending", "committed"} =>
        /\ proposals'[o].status = proposals[o].status
        /\ \A i \in DOMAIN transactions' :
              transactions'[i].offer = o => i \in DOMAIN transactions

LEMMA NextTerminal == TypeInv /\ [Next]_vars => [\A o \in Known : StaysTerminal(o)]_vars
<1> SUFFICES ASSUME TypeInv, Next, NEW o \in Known,
                    proposals[o].status \notin {"pending", "committed"}
             PROVE  /\ proposals'[o].status = proposals[o].status
                    /\ \A i \in DOMAIN transactions' :
                          transactions'[i].offer = o => i \in DOMAIN transactions
  BY DEF StaysTerminal
<1> USE DEF progress, ledger, bounds
<1>0. /\ o \in Offers /\ proposals[o] # None /\ transactions \in Seq(Transaction)
      /\ proposals \in ProposalMap
  BY DEF Known, TypeInv, TypeOK, ProposalMap
<1>1. ASSUME NEW c \in Known, c # o, NEW x \in Transaction, x.offer = c,
             transactions' = Append(transactions, x), NEW i \in DOMAIN transactions',
             transactions'[i].offer = o
      PROVE  i \in DOMAIN transactions
  BY <1>0, <1>1, AppendParts
<1>2. ASSUME NEW c \in Offers, NEW t \in Terms, QueueCharge(c, t)
      PROVE  proposals'[o].status = proposals[o].status /\ UNCHANGED transactions
  BY <1>0, <1>2 DEF QueueCharge, QueueOffer, Known, ProposalMap
<1>3. ASSUME NEW c \in Offers, NEW a \in Actors, PayDeposit(c, a)
      PROVE  /\ proposals'[o].status = proposals[o].status
             /\ \A i \in DOMAIN transactions' :
                   transactions'[i].offer = o => i \in DOMAIN transactions
  <2>1. c \in Known /\ c # o
    BY <1>3 DEF PayDeposit, WithStatus
  <2>2. Receipt(c, "deposit") \in Transaction /\ Receipt(c, "deposit").offer = c
    BY <2>1, ReceiptType DEF Receipt
  <2>3. transactions' = Append(transactions, Receipt(c, "deposit"))
    BY <1>3 DEF PayDeposit
  <2>4. proposals'[o].status = proposals[o].status
    BY <1>0, <1>3, <2>1 DEF PayDeposit, ProposalMap
  <2> QED
    BY <1>1, <2>1, <2>2, <2>3, <2>4
<1>4. ASSUME NEW c \in Offers, NEW a \in Actors, Settle(c, a)
      PROVE  /\ proposals'[o].status = proposals[o].status
             /\ \A i \in DOMAIN transactions' :
                   transactions'[i].offer = o => i \in DOMAIN transactions
  <2>1. c \in Known /\ c # o /\ "committed" \in OfferStatus /\ Decide(c, "committed")
    BY <1>4 DEF Settle, WithStatus, OfferStatus
  <2>2. Receipt(c, "final") \in Transaction /\ Receipt(c, "final").offer = c
    BY <2>1, ReceiptType DEF Receipt
  <2>3. transactions' = Append(transactions, Receipt(c, "final"))
    BY <1>4 DEF Settle
  <2>4. proposals'[o].status = proposals[o].status
    BY <1>0, <2>1, DecideOffer
  <2> QED
    BY <1>1, <2>1, <2>2, <2>3, <2>4
<1>5. ASSUME NEW c \in Offers, NEW a \in Actors, RejectForFunds(c, a) \/ Refuse(c, a)
      PROVE  proposals'[o].status = proposals[o].status /\ UNCHANGED transactions
  <2>1. c \in Known /\ c # o /\ UNCHANGED transactions
    BY <1>5 DEF RejectForFunds, Refuse, WithStatus
  <2>2. PICK s \in OfferStatus : Decide(c, s)
    BY <1>5 DEF RejectForFunds, Refuse, OfferStatus
  <2> QED
    BY <1>0, <2>1, <2>2, DecideOffer
<1>6. ASSUME NEW u \in Players, DeleteCharacter(u)
      PROVE  /\ proposals'[o].status = proposals[o].status
             /\ \A i \in DOMAIN transactions' :
                   transactions'[i].offer = o => i \in DOMAIN transactions
  <2>1. o \notin Gone(u)
    BY DEF Gone, WithStatus
  <2>2. \A i \in DOMAIN transactions' \ DOMAIN transactions :
           \E c \in Gone(u) : transactions'[i].offer = c
    BY <1>6, DeleteLedger DEF Refund
  <2> QED
    BY <1>6, <2>1, <2>2, DeleteOffer
<1>7. ASSUME \/ \E done \in SUBSET Groups : DeliverMemory(done)
             \/ BeginJudgment \/ AbortJudgment \/ RecoverJudgment \/ ResumeGame
      PROVE  proposals'[o].status = proposals[o].status /\ UNCHANGED transactions
  BY <1>7 DEF DeliverMemory, BeginJudgment, AbortJudgment, RecoverJudgment, ResumeGame
<1>8. ASSUME NEW news \in Responses, NEW g \in Groups \cup {None},
             FinishJudgment(news, g) \/ SwipeOpening(news, g)
      PROVE  proposals'[o].status = proposals[o].status /\ UNCHANGED transactions
  <2>1. /\ proposals' = WithRewards(proposals, news, g, round)
        /\ UNCHANGED transactions /\ Fresh(news, g)
    BY <1>8, SwipeOpeningDoes DEF FinishJudgment, RecordRound
  <2>2. o \notin DOMAIN news
    BY <2>1 DEF Fresh
  <2> QED
    BY <1>0, <2>1, <2>2 DEF WithRewards
<1>9. ASSUME NEW r \in Nat
      PROVE  /\ RewoundProposals(r)[o].status = proposals[o].status
             /\ DOMAIN ReversedLedger(r) = DOMAIN transactions
  BY <1>0, RewindOffer, RewindLedger
<1>10. ASSUME RollbackLastRound
       PROVE  /\ proposals'[o].status = proposals[o].status
              /\ DOMAIN transactions' = DOMAIN transactions
  <2>1. /\ round' \in Nat /\ proposals' = RewoundProposals(round')
        /\ transactions' = ReversedLedger(round')
    <3>1. log # <<>> /\ log \in Seq(LogEntry) /\ round \in Nat
      BY <1>10 DEF RollbackLastRound, TypeInv, TypeOK
    <3>2. Len(log) \in DOMAIN log
      BY <3>1
    <3> QED
      BY <1>10, <3>1, <3>2, Entries DEF RollbackLastRound
  <2> QED
    BY <1>9, <2>1
<1>11. ASSUME NEW news \in Responses, NEW g \in Groups \cup {None}, NEW i \in DOMAIN log,
              SwipeRound(i, news, g)
       PROVE  /\ proposals'[o].status = proposals[o].status
              /\ DOMAIN transactions' = DOMAIN transactions
  <2> DEFINE r == log[i].round
  <2>1. /\ proposals' = WithRewards(RewoundProposals(r), news, g, r)
        /\ transactions' = ReversedLedger(r) /\ r \in Nat /\ Fresh(news, g)
    BY <1>11, Entries, SwipeRoundDoes
  <2> HIDE DEF r
  <2>2. o \notin DOMAIN news
    BY <2>1 DEF Fresh
  <2>3. proposals'[o] = RewoundProposals(r)[o]
    BY <1>0, <2>1, <2>2 DEF WithRewards
  <2> QED
    BY <1>9, <2>1, <2>3
<1> QED
  BY <1>2, <1>3, <1>4, <1>5, <1>6, <1>7, <1>8, <1>10, <1>11 DEF Next, Decision, Rewind

(***************************************************************************)
(* What was turned down, cancelled or erased stays so, and the ledger gets *)
(* no further entry for it: a rewind resurrects no offer that was decided  *)
(* against.                                                                *)
(***************************************************************************)
THEOREM RefusalsAreFinal == Spec => TerminalIsFinal
<1>1. [\A o \in Known : StaysTerminal(o)]_vars <=> [\A o \in Known :
         proposals[o].status \notin {"pending", "committed"} =>
            /\ proposals'[o].status = proposals[o].status
            /\ \A i \in DOMAIN transactions' :
                  transactions'[i].offer = o => i \in DOMAIN transactions]_vars
  BY DEF StaysTerminal
<1> QED
  BY <1>1, InitType, NextType, NextTerminal, PTL DEF Spec, TerminalIsFinal

----------------------------------------------------------------------------
(***************************************************************************)
(* Sums over the ledger.                                                   *)
(***************************************************************************)

\* A set of naturals with 0 and every successor holds them all.
LEMMA AllNaturals ==
    ASSUME NEW S \in SUBSET Nat, 0 \in S, \A n \in S : n + 1 \in S
    PROVE  S = Nat
<1> SUFFICES ASSUME Nat \ S # {} PROVE FALSE
  OBVIOUS
<1>1. PICK x \in Nat \ S : \A y \in Nat \ S : ~(<<y, x>> \in OpToRel(<, Nat))
  <2>1. Nat \ S \in SUBSET Nat
    OBVIOUS
  <2> QED
    BY <2>1, NatLessThanWellFounded, WFMin
<1>2. x # 0 /\ x \in Nat
  OBVIOUS
<1>3. x - 1 \in Nat /\ x - 1 < x /\ (x - 1) + 1 = x
  BY <1>2
<1>4. x - 1 \in Nat \ S
  BY <1>3
<1>5. <<x - 1, x>> \in OpToRel(<, Nat)
  BY <1>2, <1>3 DEF OpToRel
<1> QED
  BY <1>1, <1>4, <1>5

\* Total adds up one element after the other.
LEMMA TotalIs ==
    ASSUME NEW s \in Seq(Int)
    PROVE  \E sum : /\ sum[0] = 0
                    /\ \A n \in 1..Len(s) : sum[n] = sum[n - 1] + s[n]
                    /\ \A n \in 0..Len(s) : sum[n] \in Int
                    /\ Total(s) = sum[Len(s)]
<1> DEFINE Built(f, m) == [n \in 0..m |-> IF n = 0 THEN 0 ELSE f[n - 1] + s[n]]
           sum  == CHOOSE f : f = Built(f, Len(s))
           With == {m \in Nat : \E f : f = Built(f, m)}
           Fine == {n \in Nat : n <= Len(s) => sum[n] \in Int}
<1>1. Total(s) = sum[Len(s)]
  BY DEF Total
<1>2. With = Nat
  <2>1. 0 \in With
    <3> DEFINE f == [n \in 0..0 |-> 0]
    <3>1. f = Built(f, 0)
      OBVIOUS
    <3> QED
      BY <3>1
  <2>2. ASSUME NEW m \in With PROVE m + 1 \in With
    <3>1. m \in Nat /\ m + 1 \in Nat
      OBVIOUS
    <3>2. PICK f : f = Built(f, m)
      OBVIOUS
    <3> DEFINE g == [n \in 0..(m + 1) |-> IF n = 0 THEN 0
                                          ELSE IF n = m + 1 THEN f[m] + s[m + 1] ELSE f[n]]
    <3>3. ASSUME NEW n \in 0..m PROVE g[n] = f[n]
      <4>1. f[n] = IF n = 0 THEN 0 ELSE f[n - 1] + s[n]
        BY <3>2
      <4>2. n \in 0..(m + 1) /\ n # m + 1
        BY <3>1
      <4> QED
        BY <4>1, <4>2
    <3>4. ASSUME NEW n \in 0..(m + 1)
          PROVE  g[n] = IF n = 0 THEN 0 ELSE g[n - 1] + s[n]
      <4>1. CASE n = 0
        BY <4>1
      <4>2. CASE n = m + 1 /\ n # 0
        <5>1. m \in 0..m /\ n - 1 = m
          BY <3>1, <4>2
        <5>2. g[m] = f[m]
          BY <3>3, <5>1
        <5> QED
          BY <4>2, <5>1, <5>2
      <4>3. CASE n # 0 /\ n # m + 1
        <5>1. n \in 0..m /\ n - 1 \in 0..m
          BY <3>1, <4>3
        <5>2. f[n] = f[n - 1] + s[n]
          BY <3>2, <4>3, <5>1
        <5>3. g[n] = f[n] /\ g[n - 1] = f[n - 1]
          BY <3>3, <5>1
        <5> HIDE DEF g
        <5> QED
          BY <4>3, <5>2, <5>3
      <4> QED
        BY <4>1, <4>2, <4>3
    <3>5. g = [n \in 0..(m + 1) |-> g[n]]
      OBVIOUS
    <3> HIDE DEF g
    <3>6. g = Built(g, m + 1)
      BY <3>4, <3>5
    <3> QED
      BY <3>1, <3>6
  <2>3. With \in SUBSET Nat
    OBVIOUS
  <2> HIDE DEF With
  <2> QED
    BY <2>1, <2>2, <2>3, AllNaturals
<1>3. Len(s) \in Nat /\ \A n \in 1..Len(s) : s[n] \in Int
  OBVIOUS
<1>4. sum = Built(sum, Len(s))
  <2>1. \E f : f = Built(f, Len(s))
    BY <1>2, <1>3
  <2> HIDE DEF Built
  <2> QED
    BY <2>1
<1> HIDE DEF sum, With
<1>5. sum[0] = 0 /\ \A n \in 1..Len(s) : sum[n] = sum[n - 1] + s[n]
  BY <1>3, <1>4
<1>6. Fine = Nat
  <2>1. 0 \in Fine
    BY <1>5
  <2>2. ASSUME NEW n \in Fine PROVE n + 1 \in Fine
    <3>1. n \in Nat /\ (n <= Len(s) => sum[n] \in Int)
      OBVIOUS
    <3>2. ASSUME n + 1 <= Len(s) PROVE sum[n + 1] \in Int
      <4>1. n + 1 \in 1..Len(s) /\ (n + 1) - 1 = n /\ n <= Len(s)
        BY <1>3, <3>1, <3>2
      <4> QED
        BY <1>3, <1>5, <3>1, <4>1
    <3> QED
      BY <3>1, <3>2
  <2>3. Fine \in SUBSET Nat
    OBVIOUS
  <2> HIDE DEF Fine
  <2> QED
    BY <2>1, <2>2, <2>3, AllNaturals
<1>7. \A n \in 0..Len(s) : sum[n] \in Int
  BY <1>3, <1>6
<1> QED
  BY <1>1, <1>5, <1>7

\* Sequences that agree as far as the shorter goes: what follows is added.
LEMMA TotalOfLonger ==
    ASSUME NEW s \in Seq(Int), NEW t \in Seq(Int), NEW x \in Int,
           Len(s) <= Len(t), \A n \in 1..Len(s) : t[n] = s[n],
           \/ x = 0 /\ \A n \in (Len(s) + 1)..Len(t) : t[n] = 0
           \/ Len(t) = Len(s) + 1 /\ t[Len(t)] = x
    PROVE  Total(s) \in Int /\ Total(t) = Total(s) + x
<1>1. PICK f : /\ f[0] = 0 /\ \A n \in 1..Len(s) : f[n] = f[n - 1] + s[n]
               /\ \A n \in 0..Len(s) : f[n] \in Int
               /\ Total(s) = f[Len(s)]
  BY TotalIs
<1>2. PICK g : /\ g[0] = 0 /\ \A n \in 1..Len(t) : g[n] = g[n - 1] + t[n]
               /\ \A n \in 0..Len(t) : g[n] \in Int
               /\ Total(t) = g[Len(t)]
  BY TotalIs
<1>3. Len(s) \in Nat /\ Len(t) \in Nat
  OBVIOUS
<1> DEFINE Same == {n \in Nat : n <= Len(s) => g[n] = f[n]}
           Flat == {n \in Nat : Len(s) + n <= Len(t) => g[Len(s) + n] = f[Len(s)]}
<1>4. Same = Nat
  <2>1. 0 \in Same
    BY <1>1, <1>2
  <2>2. ASSUME NEW n \in Same PROVE n + 1 \in Same
    <3>1. n \in Nat /\ (n <= Len(s) => g[n] = f[n])
      OBVIOUS
    <3>2. ASSUME n + 1 <= Len(s) PROVE g[n + 1] = f[n + 1]
      <4>1. n + 1 \in 1..Len(s) /\ n + 1 \in 1..Len(t) /\ (n + 1) - 1 = n /\ n <= Len(s)
        BY <1>3, <3>1, <3>2
      <4>2. f[n + 1] = f[n] + s[n + 1] /\ g[n + 1] = g[n] + t[n + 1]
        BY <1>1, <1>2, <4>1
      <4> QED
        BY <3>1, <4>1, <4>2
    <3> QED
      BY <3>1, <3>2
  <2>3. Same \in SUBSET Nat
    OBVIOUS
  <2> HIDE DEF Same
  <2> QED
    BY <2>1, <2>2, <2>3, AllNaturals
<1>5. g[Len(s)] = f[Len(s)] /\ f[Len(s)] \in Int
  BY <1>1, <1>3, <1>4
<1> HIDE DEF Same
<1>6. CASE x = 0 /\ \A n \in (Len(s) + 1)..Len(t) : t[n] = 0
  <2>1. Flat = Nat
    <3>1. 0 \in Flat
      BY <1>3, <1>5
    <3>2. ASSUME NEW n \in Flat PROVE n + 1 \in Flat
      <4>1. n \in Nat /\ (Len(s) + n <= Len(t) => g[Len(s) + n] = f[Len(s)])
        OBVIOUS
      <4>2. ASSUME Len(s) + (n + 1) <= Len(t) PROVE g[Len(s) + (n + 1)] = f[Len(s)]
        <5> DEFINE m == Len(s) + (n + 1)
        <5>1. /\ m \in 1..Len(t) /\ m \in (Len(s) + 1)..Len(t)
              /\ m - 1 = Len(s) + n /\ Len(s) + n <= Len(t)
          BY <1>3, <4>1, <4>2
        <5> HIDE DEF m
        <5>2. g[m] = g[m - 1] + t[m] /\ t[m] = 0
          BY <1>2, <1>6, <5>1
        <5>3. g[m] = f[Len(s)]
          BY <1>5, <4>1, <5>1, <5>2
        <5> QED
          BY <5>3 DEF m
      <4> QED
        BY <4>1, <4>2
    <3>3. Flat \in SUBSET Nat
      OBVIOUS
    <3> HIDE DEF Flat
    <3> QED
      BY <3>1, <3>2, <3>3, AllNaturals
  <2>2. Len(t) - Len(s) \in Nat /\ Len(s) + (Len(t) - Len(s)) = Len(t)
    BY <1>3
  <2>3. Len(t) - Len(s) \in Flat
    <3> HIDE DEF Flat
    <3> QED
      BY <2>1, <2>2
  <2>4. g[Len(t)] = f[Len(s)]
    <3> DEFINE k == Len(t) - Len(s)
    <3>1. k \in Nat /\ Len(s) + k = Len(t)
      BY <2>2, Zenon
    <3>2. k \in Flat
      BY <2>3, Zenon
    <3> HIDE DEF k
    <3> QED
      BY <1>3, <3>1, <3>2
  <2> QED
    BY <1>1, <1>2, <1>5, <1>6, <2>4
<1>7. CASE Len(t) = Len(s) + 1 /\ t[Len(t)] = x
  <2>1. Len(t) \in 1..Len(t) /\ Len(t) - 1 = Len(s)
    BY <1>3, <1>7
  <2>2. g[Len(t)] = g[Len(s)] + x
    BY <1>2, <1>7, <2>1
  <2> QED
    BY <1>1, <1>2, <1>5, <2>2
<1> QED
  BY <1>6, <1>7

\* What positions I contribute to a sum, as a sequence of amounts.
Shares(txs, I) == [i \in DOMAIN txs |-> IF i \in I THEN txs[i].delta ELSE 0]

LEMMA SharesAre ==
    ASSUME NEW txs \in Seq(Transaction), NEW I
    PROVE  /\ Shares(txs, I) \in Seq(Int) /\ Len(Shares(txs, I)) = Len(txs)
           /\ Sum(txs, I) = Total(Shares(txs, I))
           /\ \A i \in 1..Len(txs) : Shares(txs, I)[i] = IF i \in I THEN txs[i].delta ELSE 0
<1>1. DOMAIN txs = 1..Len(txs) /\ Len(txs) \in Nat
  OBVIOUS
<1>2. \A i \in DOMAIN txs : txs[i] \in Transaction
  OBVIOUS
<1>3. \A i \in DOMAIN txs : txs[i].delta \in Int
  BY <1>2 DEF Transaction
<1>4. Shares(txs, I) \in [1..Len(txs) -> Int]
  BY <1>1, <1>3 DEF Shares
<1>5. Shares(txs, I) \in Seq(Int) /\ Len(Shares(txs, I)) = Len(txs)
  <2> DEFINE f == Shares(txs, I)
  <2>1. f \in [1..Len(txs) -> Int]
    BY <1>4
  <2> HIDE DEF f
  <2>2. f \in Seq(Int) /\ Len(f) = Len(txs)
    BY <1>1, <2>1
  <2> QED
    BY <2>2 DEF f
<1>6. Sum(txs, I) = Total(Shares(txs, I))
  BY DEF Sum, Shares
<1> QED
  BY <1>1, <1>5, <1>6 DEF Shares

\* Ledgers one of which extends the other have equal sums where each position
\* contributes the same to both.
LEMMA SameSum ==
    ASSUME NEW txs \in Seq(Transaction), NEW I,
           NEW later \in Seq(Transaction), NEW J, DOMAIN txs \subseteq DOMAIN later,
           \A i \in DOMAIN later :
              (IF i \in J THEN later[i].delta ELSE 0)
                 = IF i \in DOMAIN txs /\ i \in I THEN txs[i].delta ELSE 0
    PROVE  Sum(later, J) = Sum(txs, I) /\ Sum(txs, I) \in Int
<1> DEFINE s == Shares(txs, I)
           t == Shares(later, J)
<1>1. /\ s \in Seq(Int) /\ Len(s) = Len(txs) /\ Sum(txs, I) = Total(s)
      /\ \A i \in 1..Len(txs) : s[i] = IF i \in I THEN txs[i].delta ELSE 0
  BY SharesAre
<1>2. /\ t \in Seq(Int) /\ Len(t) = Len(later) /\ Sum(later, J) = Total(t)
      /\ \A i \in 1..Len(later) : t[i] = IF i \in J THEN later[i].delta ELSE 0
  BY SharesAre
<1>3. /\ DOMAIN txs = 1..Len(txs) /\ DOMAIN later = 1..Len(later)
      /\ Len(txs) \in Nat /\ Len(later) \in Nat
  OBVIOUS
<1>4. Len(txs) <= Len(later)
  BY <1>3
<1> HIDE DEF s, t
<1>5. \A n \in 1..Len(s) : t[n] = s[n]
  BY <1>1, <1>2, <1>3, <1>4
<1>6. \A n \in (Len(s) + 1)..Len(t) : t[n] = 0
  <2> TAKE n \in (Len(s) + 1)..Len(t)
  <2>1. n \in DOMAIN later /\ n \notin DOMAIN txs
    BY <1>1, <1>2, <1>3
  <2> QED
    BY <1>2, <1>3, <2>1
<1>7. Total(s) \in Int /\ Total(t) = Total(s) + 0
  <2>1. s \in Seq(Int) /\ t \in Seq(Int) /\ Len(s) <= Len(t) /\ 0 \in Int
    BY <1>1, <1>2, <1>4
  <2> QED
    BY <1>5, <1>6, <2>1, TotalOfLonger
<1> QED
  BY <1>1, <1>2, <1>7

\* One more entry adds its amount.
LEMMA SumOfMore ==
    ASSUME NEW txs \in Seq(Transaction), NEW I, I \subseteq DOMAIN txs, NEW x \in Transaction
    PROVE  Sum(Append(txs, x), I \cup {Len(txs) + 1}) = Sum(txs, I) + x.delta
<1> DEFINE n == Len(txs)
           later == Append(txs, x)
           J == I \cup {n + 1}
           s == Shares(txs, I)
           t == Shares(later, J)
<1>0. /\ later \in Seq(Transaction) /\ Len(later) = n + 1 /\ n \in Nat
      /\ DOMAIN txs = 1..n /\ \A i \in 1..n : later[i] = txs[i]
      /\ later[n + 1] = x
  OBVIOUS
<1>1. /\ s \in Seq(Int) /\ Len(s) = n /\ Sum(txs, I) = Total(s)
      /\ \A i \in 1..n : s[i] = IF i \in I THEN txs[i].delta ELSE 0
  BY SharesAre
<1>2. x.delta \in Int
  BY DEF Transaction
<1> HIDE DEF n, later
<1>3. /\ t \in Seq(Int) /\ Len(t) = n + 1 /\ Sum(later, J) = Total(t)
      /\ \A i \in 1..(n + 1) : t[i] = IF i \in J THEN later[i].delta ELSE 0
  <2> HIDE DEF J
  <2> QED
    BY <1>0, SharesAre
<1> HIDE DEF s, t
<1>4. \A i \in 1..n : t[i] = s[i]
  <2> TAKE i \in 1..n
  <2>1. i \in 1..(n + 1) /\ later[i] = txs[i] /\ i # n + 1
    BY <1>0
  <2> QED
    BY <1>1, <1>3, <2>1
<1>5. t[n + 1] = x.delta
  BY <1>0, <1>3
<1>6. Total(t) = Total(s) + x.delta
  BY <1>0, <1>1, <1>2, <1>3, <1>4, <1>5, TotalOfLonger
<1> QED
  BY <1>1, <1>3, <1>6 DEF n, later

----------------------------------------------------------------------------
(***************************************************************************)
(* Sheets and books.                                                       *)
(***************************************************************************)

\* In ledger txs: the standing entries of u; those dated before round r; and
\* those before position n.  What they leave a player with.
StandingOf(txs, u) == {i \in DOMAIN txs : txs[i].status = "committed" /\ txs[i].uid = u}
Until(txs, u, r)   == {i \in StandingOf(txs, u) : txs[i].round < r}
Ahead(txs, u, n)   == {i \in StandingOf(txs, u) : i < n}
GoldOf(txs, I)     == Purse + Sum(txs, I)
GoodsOf(txs, I)    == {txs[i].offer : i \in {j \in I : txs[j].goods}}

CommittedIn(gs) == {g \in Groups : gs[g] # None /\ gs[g].status = "committed"}

(***************************************************************************)
(* Snapshot snap, of round r, remembers what the books say of the time     *)
(* before round r: the money and the goods of a player to whom nothing has *)
(* happened in round r, for what has is taken back by the before-images;   *)
(* and the effects of the groups of earlier rounds, all of them decided.   *)
(***************************************************************************)
Remembers(snap, r, txs, gs, seats) ==
    /\ \A u \in seats :
          /\ (\A i \in DOMAIN txs : txs[i].round = r /\ txs[i].uid = u => txs[i].delta = 0)
                => snap.gold[u] = GoldOf(txs, Until(txs, u, r))
          /\ (\A i \in DOMAIN txs : txs[i].round = r /\ txs[i].uid = u => ~txs[i].goods)
                => snap.bag[u] = GoodsOf(txs, Until(txs, u, r))
    /\ \A g \in Groups : gs[g] # None /\ gs[g].round < r =>
          /\ gs[g].status # "pending"
          /\ g \in snap.effects <=> gs[g].status = "committed"
    /\ \A g \in snap.effects : gs[g] # None

\* Ledger later says of the time before round r what txs says, and so do
\* groups hs of what was decided before it.
LedgerContinues(txs, later, r) ==
    /\ DOMAIN txs \subseteq DOMAIN later
    /\ \A i \in DOMAIN txs :
          /\ later[i].uid = txs[i].uid /\ later[i].delta = txs[i].delta
          /\ later[i].offer = txs[i].offer /\ later[i].goods = txs[i].goods
          /\ later[i].round = txs[i].round
          /\ txs[i].round < r => later[i].status = txs[i].status
    /\ \A i \in DOMAIN later \ DOMAIN txs : later[i].round >= r

GroupsContinue(gs, hs, r) ==
    \A g \in Groups :
        /\ gs[g] # None => hs[g] # None
        /\ hs[g] # None /\ hs[g].round < r =>
              /\ gs[g] # None /\ gs[g].round = hs[g].round
              /\ gs[g].status # "pending" => hs[g].status = gs[g].status

\* Entries the ledger keeps add up to the same.
LEMMA SameBooks ==
    ASSUME NEW txs \in Seq(Transaction), NEW later \in Seq(Transaction),
           DOMAIN txs \subseteq DOMAIN later, NEW I \in SUBSET DOMAIN txs,
           \A i \in I : /\ later[i].delta = txs[i].delta
                        /\ later[i].offer = txs[i].offer /\ later[i].goods = txs[i].goods
    PROVE  GoldOf(later, I) = GoldOf(txs, I) /\ GoodsOf(later, I) = GoodsOf(txs, I)
<1>1. Sum(later, I) = Sum(txs, I)
  BY SameSum
<1> QED
  BY <1>1 DEF GoldOf, GoodsOf

\* A snapshot goes on remembering.
LEMMA StillRemembers ==
    ASSUME NEW txs \in Seq(Transaction), NEW later \in Seq(Transaction),
           NEW gs, NEW hs, NEW seats, NEW stay \in SUBSET seats,
           NEW r \in Nat, NEW snap \in Sheets,
           LedgerContinues(txs, later, r), GroupsContinue(gs, hs, r),
           Remembers(snap, r, txs, gs, seats)
    PROVE  Remembers(snap, r, later, hs, stay)
<1>0. /\ DOMAIN txs \subseteq DOMAIN later
      /\ \A i \in DOMAIN txs :
            /\ later[i].uid = txs[i].uid /\ later[i].delta = txs[i].delta
            /\ later[i].offer = txs[i].offer /\ later[i].goods = txs[i].goods
            /\ later[i].round = txs[i].round
            /\ txs[i].round < r => later[i].status = txs[i].status
      /\ \A i \in DOMAIN later \ DOMAIN txs : ~(later[i].round < r)
  <2>1. \A i \in DOMAIN later : later[i] \in Transaction
    OBVIOUS
  <2>2. \A i \in DOMAIN later : later[i].round \in Nat
    BY <2>1 DEF Transaction
  <2> QED
    BY <2>2 DEF LedgerContinues
<1>1. ASSUME NEW u \in stay
      PROVE  Until(later, u, r) = Until(txs, u, r)
  BY <1>0 DEF Until, StandingOf
<1>2. ASSUME NEW u \in stay
      PROVE  /\ GoldOf(later, Until(later, u, r)) = GoldOf(txs, Until(txs, u, r))
             /\ GoodsOf(later, Until(later, u, r)) = GoodsOf(txs, Until(txs, u, r))
  <2>1. Until(txs, u, r) \in SUBSET DOMAIN txs
    BY DEF Until, StandingOf
  <2> QED
    BY <1>0, <1>1, <2>1, SameBooks
<1>3. ASSUME NEW u \in stay
      PROVE  /\ (\A i \in DOMAIN later : later[i].round = r /\ later[i].uid = u => later[i].delta = 0)
                   => snap.gold[u] = GoldOf(later, Until(later, u, r))
             /\ (\A i \in DOMAIN later : later[i].round = r /\ later[i].uid = u => ~later[i].goods)
                   => snap.bag[u] = GoodsOf(later, Until(later, u, r))
  BY <1>0, <1>2 DEF Remembers
<1>4. ASSUME NEW g \in Groups, hs[g] # None, hs[g].round < r
      PROVE  hs[g].status # "pending" /\ (g \in snap.effects <=> hs[g].status = "committed")
  BY <1>4 DEF Remembers, GroupsContinue
<1>5. \A g \in snap.effects : hs[g] # None
  BY DEF Remembers, GroupsContinue, Sheets
<1> QED
  BY <1>3, <1>4, <1>5 DEF Remembers

----------------------------------------------------------------------------
\* No entry is dated before its offer.
EntriesAfterOffers ==
    \A i \in DOMAIN transactions :
        /\ transactions[i].offer \in Known
        /\ proposals[transactions[i].offer].round <= transactions[i].round

\* What stands in the ledger is in story order.
StandingInOrder ==
    \A i, j \in DOMAIN transactions :
        /\ transactions[i].status = "committed" /\ transactions[j].status = "committed"
        /\ i <= j
        => transactions[i].round <= transactions[j].round

\* The before-images of what stands are what the entries before it add up to.
ImagesAreTrue ==
    \A i \in DOMAIN transactions : LET x == transactions[i] IN
        x.status = "committed" /\ x.uid \in seated =>
           /\ x.before = GoldOf(transactions, Ahead(transactions, x.uid, i))
           /\ x.bag = GoodsOf(transactions, Ahead(transactions, x.uid, i))

\* What a rewind to round r leaves of the ledger.
LEMMA ReversedParts ==
    ASSUME TypeInv, EntriesAfterOffers, NEW r \in Nat
    PROVE  /\ ReversedLedger(r) \in Seq(Transaction)
           /\ DOMAIN ReversedLedger(r) = DOMAIN transactions
           /\ \A i \in DOMAIN transactions : LET x == ReversedLedger(r)[i] IN
                 /\ x.uid = transactions[i].uid /\ x.delta = transactions[i].delta
                 /\ x.offer = transactions[i].offer /\ x.goods = transactions[i].goods
                 /\ x.round = transactions[i].round /\ x.before = transactions[i].before
                 /\ x.bag = transactions[i].bag
                 /\ x.status = IF transactions[i].round >= r THEN "reversed"
                               ELSE transactions[i].status
<1>1. \A i \in DOMAIN transactions :
         transactions[i] \in Transaction /\ transactions[i].round \in Nat
  BY Entries
<1>2. \A x \in Transaction : LET y == [x EXCEPT !.status = "reversed"] IN
         /\ y.uid = x.uid /\ y.delta = x.delta /\ y.offer = x.offer /\ y.goods = x.goods
         /\ y.round = x.round /\ y.before = x.before /\ y.bag = x.bag
         /\ y.status = "reversed" /\ x.status \in {"committed", "reversed"}
  BY DEF Transaction
<1>3. ASSUME NEW i \in DOMAIN transactions
      PROVE  i \in SettledIn(r) <=> /\ transactions[i].status = "committed"
                                    /\ transactions[i].round >= r
  <2>1. transactions[i].offer \in OriginIn(r) => transactions[i].round >= r
    <3>1. transactions[i].offer \in Known
      BY DEF EntriesAfterOffers
    <3>2. proposals[transactions[i].offer].round \in Nat
      BY <3>1 DEF Known, TypeInv, TypeOK, Proposal
    <3> QED
      BY <1>1, <3>1, <3>2 DEF EntriesAfterOffers, OriginIn
  <2> QED
    BY <2>1 DEF SettledIn
<1>4. ASSUME NEW i \in DOMAIN transactions
      PROVE  ReversedLedger(r)[i] = IF /\ transactions[i].status = "committed"
                                       /\ transactions[i].round >= r
                                    THEN [transactions[i] EXCEPT !.status = "reversed"]
                                    ELSE transactions[i]
  BY <1>3 DEF ReversedLedger
<1>5. DOMAIN ReversedLedger(r) = DOMAIN transactions
  BY DEF ReversedLedger
<1>6. ReversedLedger(r) \in Seq(Transaction)
  BY RewindType
<1>7. ASSUME NEW i \in DOMAIN transactions
      PROVE  LET x == ReversedLedger(r)[i] IN
                 /\ x.uid = transactions[i].uid /\ x.delta = transactions[i].delta
                 /\ x.offer = transactions[i].offer /\ x.goods = transactions[i].goods
                 /\ x.round = transactions[i].round /\ x.before = transactions[i].before
                 /\ x.bag = transactions[i].bag
                 /\ x.status = IF transactions[i].round >= r THEN "reversed"
                               ELSE transactions[i].status
  <2>1. CASE transactions[i].status = "committed" /\ transactions[i].round >= r
    <3>1. ReversedLedger(r)[i] = [transactions[i] EXCEPT !.status = "reversed"]
      BY <1>4, <2>1
    <3>2. transactions[i] \in Transaction
      BY <1>1
    <3> QED
      BY <1>2, <2>1, <3>1, <3>2
  <2>2. CASE ~(transactions[i].status = "committed" /\ transactions[i].round >= r)
    BY <1>1, <1>2, <1>4, <2>2
  <2> QED
    BY <2>1, <2>2
<1> QED
  BY <1>5, <1>6, <1>7

\* An entry of amount and goods for offer o, in the ledger and on the sheets.
Pays(o, stage) ==
    /\ o \in WithStatus("pending") /\ proposals[o].terms.uid \in seated
    /\ transactions' = Append(transactions, Receipt(o, stage))
    /\ sheets'.gold = Booked(Receipt(o, stage)).gold
    /\ sheets'.bag = Booked(Receipt(o, stage)).bag
    /\ UNCHANGED <<round, seated>>

LEMMA ReceiptParts ==
    ASSUME TypeInv, NEW o \in Known, NEW stage \in {"deposit", "final"}
    PROVE  LET x == Receipt(o, stage) IN
           /\ x \in Transaction /\ x.offer = o /\ x.uid = proposals[o].terms.uid
           /\ x.uid \in Players
           /\ x.before = sheets.gold[x.uid] /\ x.bag = sheets.bag[x.uid]
           /\ x.round = round /\ x.status = "committed"
<1>1. proposals[o].terms.uid \in Players
  BY TermsType DEF TypeInv, TypeOK, Known, Proposal
<1> QED
  BY <1>1, ReceiptType DEF Receipt

\* What a step does to the ledger.
LEMMA LedgerSteps ==
    ASSUME TypeInv, Chronicle, [Next]_vars
    PROVE  \/ UNCHANGED <<transactions, seated>>
           \/ \E o \in Known, stage \in {"deposit", "final"} : Pays(o, stage)
           \/ \E u \in Players : DeleteCharacter(u)
           \/ \E r \in Nat : /\ r <= round /\ round' = r
                            /\ transactions' = ReversedLedger(r) /\ UNCHANGED seated
<1> USE DEF progress, ledger, bounds
<1>1. ASSUME NEW o \in Offers, NEW a \in Actors, PayDeposit(o, a)
      PROVE  Pays(o, "deposit") /\ o \in Known
  BY <1>1 DEF PayDeposit, Pays, WithStatus
<1>2. ASSUME NEW o \in Offers, NEW a \in Actors, Settle(o, a)
      PROVE  Pays(o, "final") /\ o \in Known
  <2>1. o \in Known
    BY <1>2 DEF Settle, WithStatus
  <2>2. Booked(Receipt(o, "final")) \in Sheets
    BY <2>1, ReceiptParts, BookedType
  <2>3. /\ sheets'.gold = Booked(Receipt(o, "final")).gold
        /\ sheets'.bag = Booked(Receipt(o, "final")).bag
    BY <1>2, <2>2 DEF Settle, WithEffects, Sheets
  <2> QED
    BY <1>2, <2>1, <2>3 DEF Settle, Pays
<1>3. ASSUME RollbackLastRound
      PROVE  \E r \in Nat : /\ r <= round /\ round' = r
                            /\ transactions' = ReversedLedger(r) /\ UNCHANGED seated
  <2> DEFINE last == log[Len(log)]
             r == IF last.round = 0 THEN round ELSE last.round
  <2>1. log # <<>> /\ log \in Seq(LogEntry)
    BY <1>3 DEF RollbackLastRound, TypeInv, TypeOK
  <2>2. Len(log) \in DOMAIN log
    BY <2>1
  <2>3. r \in Nat /\ r <= round
    BY <2>2, Entries DEF Chronicle, NothingFromTheFuture, LogInThePast, TypeInv, TypeOK
  <2>4. round' = r /\ transactions' = ReversedLedger(r) /\ UNCHANGED seated
    BY <1>3 DEF RollbackLastRound
  <2> QED
    BY <2>3, <2>4
<1>4. ASSUME NEW news \in Responses, NEW g \in Groups \cup {None}, NEW i \in DOMAIN log,
             SwipeRound(i, news, g)
      PROVE  \E r \in Nat : /\ r <= round /\ round' = r
                            /\ transactions' = ReversedLedger(r) /\ UNCHANGED seated
  <2>1. log[i].round \in Nat /\ log[i].round <= round
    BY Entries DEF Chronicle, NothingFromTheFuture, LogInThePast
  <2> QED
    BY <1>4, <2>1, SwipeRoundDoes
<1>5. ASSUME \/ \E o \in Offers, t \in Terms : QueueCharge(o, t)
             \/ \E o \in Offers, a \in Actors : RejectForFunds(o, a) \/ Refuse(o, a)
             \/ \E done \in SUBSET Groups : DeliverMemory(done)
             \/ BeginJudgment \/ AbortJudgment \/ RecoverJudgment \/ ResumeGame
             \/ \E news \in Responses, g \in Groups \cup {None} :
                   FinishJudgment(news, g) \/ SwipeOpening(news, g)
             \/ UNCHANGED vars
      PROVE  UNCHANGED <<transactions, seated>>
  BY <1>5, SwipeOpeningDoes DEF QueueCharge, QueueOffer, RejectForFunds, Refuse, DeliverMemory, BeginJudgment,
     AbortJudgment, RecoverJudgment, ResumeGame, FinishJudgment, RecordRound, vars
<1> QED
  BY <1>1, <1>2, <1>3, <1>4, <1>5 DEF Next, Decision, Rewind

\* The offers made keep their dates.
LEMMA OffersKeepTheirDates ==
    ASSUME TypeInv, [Next]_vars, NEW o \in Known
    PROVE  o \in Known' /\ proposals'[o].round = proposals[o].round
<1> USE DEF progress, ledger, bounds
<1>0. o \in Offers /\ proposals[o] # None /\ proposals[o] \in Proposal /\ proposals \in ProposalMap
  BY DEF Known, TypeInv, TypeOK, ProposalMap
<1>1. ASSUME NEW p \in Offers, NEW t \in Terms, QueueCharge(p, t)
      PROVE  o \in Known' /\ proposals'[o].round = proposals[o].round
  BY <1>0, <1>1 DEF QueueCharge, QueueOffer, Known, ProposalMap
<1>2. ASSUME NEW p \in Offers, NEW a \in Actors, PayDeposit(p, a)
      PROVE  o \in Known' /\ proposals'[o].round = proposals[o].round
  <2>1. \A q \in Proposal : /\ [q EXCEPT !.stage = "deposit_paid"] \in Proposal
                            /\ [q EXCEPT !.stage = "deposit_paid"].round = q.round
    BY ProposalEdit DEF Proposal
  <2>2. proposals'[o] = IF o = p THEN [proposals[o] EXCEPT !.stage = "deposit_paid"] ELSE proposals[o]
    BY <1>0, <1>2 DEF PayDeposit, ProposalMap
  <2> QED
    BY <1>0, <2>1, <2>2, NoneAssumption DEF Known
<1>3. ASSUME NEW p \in Known, NEW s \in OfferStatus, Decide(p, s)
      PROVE  o \in Known' /\ proposals'[o].round = proposals[o].round
  BY <1>0, <1>3, DecideOffer
<1>4. ASSUME NEW p \in Offers, NEW a \in Actors, Settle(p, a) \/ RejectForFunds(p, a) \/ Refuse(p, a)
      PROVE  o \in Known' /\ proposals'[o].round = proposals[o].round
  <2>1. p \in Known /\ {"committed", "rejected", "cancelled", "declined"} \subseteq OfferStatus
    BY <1>4 DEF Settle, RejectForFunds, Refuse, WithStatus, OfferStatus
  <2>2. \E s \in OfferStatus : Decide(p, s)
    BY <1>4, <2>1 DEF Settle, RejectForFunds, Refuse
  <2> QED
    BY <1>3, <2>1, <2>2
<1>5. ASSUME NEW u \in Players, DeleteCharacter(u)
      PROVE  o \in Known' /\ proposals'[o].round = proposals[o].round
  BY <1>5, DeleteOffer
<1>6. ASSUME NEW props, NEW news, NEW g, NEW r,
             proposals' = WithRewards(props, news, g, r),
             o \notin DOMAIN news, props[o] # None, props[o].round = proposals[o].round
      PROVE  o \in Known' /\ proposals'[o].round = proposals[o].round
  BY <1>0, <1>6 DEF WithRewards, Known
<1>7. ASSUME NEW r \in Nat
      PROVE  /\ RewoundProposals(r)[o] # None
             /\ RewoundProposals(r)[o].round = proposals[o].round
  BY <1>0, <1>7, RewindOffer
<1>8. ASSUME NEW news \in Responses, NEW g \in Groups \cup {None},
             FinishJudgment(news, g) \/ SwipeOpening(news, g)
      PROVE  o \in Known' /\ proposals'[o].round = proposals[o].round
  BY <1>0, <1>6, <1>8, SwipeOpeningDoes DEF FinishJudgment, RecordRound, Fresh
<1>9. ASSUME RollbackLastRound
      PROVE  o \in Known' /\ proposals'[o].round = proposals[o].round
  <2>1. log # <<>> /\ log \in Seq(LogEntry)
    BY <1>9 DEF RollbackLastRound, TypeInv, TypeOK
  <2>2. Len(log) \in DOMAIN log
    BY <2>1
  <2>3. round' \in Nat /\ proposals' = RewoundProposals(round')
    BY <1>9, <2>2, Entries DEF RollbackLastRound, TypeInv, TypeOK
  <2> QED
    BY <1>0, <1>7, <2>3 DEF Known
<1>10. ASSUME NEW news \in Responses, NEW g \in Groups \cup {None}, NEW i \in DOMAIN log,
              SwipeRound(i, news, g)
       PROVE  o \in Known' /\ proposals'[o].round = proposals[o].round
  <2>1. /\ log[i].round \in Nat
        /\ proposals' = WithRewards(RewoundProposals(log[i].round), news, g, log[i].round)
        /\ o \notin DOMAIN news
    BY <1>10, Entries, SwipeRoundDoes DEF Fresh
  <2> QED
    BY <1>6, <1>7, <2>1
<1>11. ASSUME \/ \E done \in SUBSET Groups : DeliverMemory(done)
              \/ BeginJudgment \/ AbortJudgment \/ RecoverJudgment \/ ResumeGame
              \/ UNCHANGED vars
       PROVE  o \in Known' /\ proposals'[o].round = proposals[o].round
  <2>1. UNCHANGED proposals
    BY <1>11 DEF DeliverMemory, BeginJudgment, AbortJudgment, RecoverJudgment, ResumeGame, vars
  <2> QED
    BY <1>0, <2>1 DEF Known
<1> QED
  BY <1>1, <1>2, <1>4, <1>5, <1>8, <1>9, <1>10, <1>11 DEF Next, Decision, Rewind

----------------------------------------------------------------------------
\* What a step leaves of the past.
LEMMA LedgerGoesOn ==
    ASSUME TypeInv, TypeInv', Chronicle, EntriesAfterOffers, [Next]_vars,
           NEW r \in Nat, r <= round, r <= round'
    PROVE  LedgerContinues(transactions, transactions', r) /\ seated' \subseteq seated
<1>0. /\ transactions \in Seq(Transaction) /\ transactions' \in Seq(Transaction)
      /\ round \in Nat /\ round' \in Nat
  BY DEF TypeInv, TypeOK
<1>1. CASE UNCHANGED <<transactions, seated>>
  BY <1>1 DEF LedgerContinues
<1>2. ASSUME NEW o \in Known, NEW stage \in {"deposit", "final"}, Pays(o, stage)
      PROVE  LedgerContinues(transactions, transactions', r) /\ seated' \subseteq seated
  <2> DEFINE x == Receipt(o, stage)
  <2>1. x \in Transaction /\ x.round = round
    BY ReceiptParts
  <2>2. transactions' = Append(transactions, x) /\ UNCHANGED seated
    BY <1>2 DEF Pays
  <2> HIDE DEF x
  <2>3. /\ DOMAIN transactions = 1..Len(transactions) /\ Len(transactions) \in Nat
        /\ DOMAIN transactions' = 1..(Len(transactions) + 1)
        /\ \A i \in 1..Len(transactions) : transactions'[i] = transactions[i]
        /\ transactions'[Len(transactions) + 1] = x
    BY <1>0, <2>1, <2>2, AppendParts
  <2> QED
    BY <1>0, <2>1, <2>2, <2>3 DEF LedgerContinues
<1>3. ASSUME NEW u \in Players, DeleteCharacter(u)
      PROVE  LedgerContinues(transactions, transactions', r) /\ seated' \subseteq seated
  <2>1. seated' \subseteq seated
    BY <1>3 DEF DeleteCharacter
  <2>2. /\ DOMAIN transactions \subseteq DOMAIN transactions'
        /\ \A i \in DOMAIN transactions : transactions'[i] = transactions[i]
        /\ \A i \in DOMAIN transactions' \ DOMAIN transactions : transactions'[i].round = round
    BY <1>3, DeleteLedger DEF Refund
  <2> QED
    BY <1>0, <2>1, <2>2 DEF LedgerContinues
<1>4. ASSUME NEW q \in Nat, round' = q, transactions' = ReversedLedger(q), UNCHANGED seated
      PROVE  LedgerContinues(transactions, transactions', r) /\ seated' \subseteq seated
  BY <1>4, ReversedParts, Entries DEF LedgerContinues
<1> QED
  BY <1>1, <1>2, <1>3, <1>4, LedgerSteps

LEMMA GroupsGoOn ==
    ASSUME TypeInv, Chronicle, [Next]_vars, NEW r \in Nat, r <= round, r <= round'
    PROVE  GroupsContinue(groups, groups', r)
<1> USE DEF progress, ledger, bounds
<1>0. /\ groups \in GroupMap /\ round \in Nat
      /\ \A g \in Groups : groups[g] # None => groups[g] \in Group /\ groups[g].round \in Nat
  BY DEF TypeInv, TypeOK, GroupMap, Group
<1>1. ASSUME UNCHANGED groups
      PROVE  GroupsContinue(groups, groups', r)
  BY <1>1 DEF GroupsContinue
<1>2. ASSUME NEW o \in Known, NEW s \in OfferStatus, Decide(o, s)
      PROVE  GroupsContinue(groups, groups', r)
  BY <1>2, DecideGroup DEF GroupsContinue
<1>3. ASSUME NEW p \in Offers, NEW a \in Actors, Settle(p, a) \/ RejectForFunds(p, a) \/ Refuse(p, a)
      PROVE  GroupsContinue(groups, groups', r)
  <2>1. p \in Known /\ {"committed", "rejected", "cancelled", "declined"} \subseteq OfferStatus
    BY <1>3 DEF Settle, RejectForFunds, Refuse, WithStatus, OfferStatus
  <2>2. \E s \in OfferStatus : Decide(p, s)
    BY <1>3, <2>1 DEF Settle, RejectForFunds, Refuse
  <2> QED
    BY <1>2, <2>1, <2>2
<1>4. ASSUME NEW u \in Players, DeleteCharacter(u)
      PROVE  GroupsContinue(groups, groups', r)
  BY <1>4, DeleteGroup DEF GroupsContinue
<1>5. ASSUME NEW gs, NEW news, NEW g \in Groups \cup {None}, NEW q \in Nat, r <= q,
             groups' = WithGroup(gs, news, g, q), GroupsContinue(groups, gs, r),
             g # None => gs[g] = None
      PROVE  GroupsContinue(groups, groups', r)
  <2> SUFFICES ASSUME NEW h \in Groups
               PROVE  /\ groups[h] # None => groups'[h] # None
                      /\ groups'[h] # None /\ groups'[h].round < r =>
                            /\ groups[h] # None /\ groups[h].round = groups'[h].round
                            /\ groups[h].status # "pending" => groups'[h].status = groups[h].status
    BY DEF GroupsContinue
  <2>1. CASE h = g
    <3>1. /\ groups'[h] = [status |-> "pending", members |-> DOMAIN news, round |-> q]
          /\ gs[h] = None
      BY <1>5, <2>1, NoneAssumption DEF WithGroup
    <3>2. groups[h] = None /\ groups'[h].round = q
      BY <1>5, <3>1 DEF GroupsContinue
    <3> QED
      BY <1>5, <3>2
  <2>2. CASE h # g
    <3>1. groups'[h] = gs[h]
      BY <1>5, <2>2 DEF WithGroup
    <3> QED
      BY <1>5, <3>1 DEF GroupsContinue
  <2> QED
    BY <2>1, <2>2
<1>6. ASSUME NEW q \in Nat, r <= q
      PROVE  GroupsContinue(groups, RewoundGroups(q), r)
  <2> SUFFICES ASSUME NEW g \in Groups
               PROVE  LET e == RewoundGroups(q)[g] IN
                      /\ groups[g] # None => e # None
                      /\ e # None /\ e.round < r =>
                            /\ groups[g] # None /\ groups[g].round = e.round
                            /\ groups[g].status # "pending" => e.status = groups[g].status
    BY DEF GroupsContinue
  <2>1. CASE groups[g] = None
    BY <2>1, <1>6, RewindGroup
  <2>2. CASE groups[g] # None
    <3>1. /\ RewoundGroups(q)[g] # None
          /\ RewoundGroups(q)[g].round = groups[g].round
          /\ RewoundGroups(q)[g].status =
               IF groups[g].round >= q THEN "superseded" ELSE groups[g].status
      BY <2>2, <1>6, RewindGroup
    <3> QED
      BY <1>0, <1>6, <2>2, <3>1
  <2> QED
    BY <2>1, <2>2
<1>7. ASSUME NEW news \in Responses, NEW g \in Groups \cup {None},
             FinishJudgment(news, g) \/ SwipeOpening(news, g)
      PROVE  GroupsContinue(groups, groups', r)
  <2>1. GroupsContinue(groups, groups, r)
    BY DEF GroupsContinue
  <2> QED
    BY <1>0, <1>5, <1>7, <2>1, SwipeOpeningDoes DEF FinishJudgment, RecordRound, Fresh
<1>8. ASSUME RollbackLastRound
      PROVE  GroupsContinue(groups, groups', r)
  <2>1. log # <<>> /\ log \in Seq(LogEntry)
    BY <1>8 DEF RollbackLastRound, TypeInv, TypeOK
  <2>2. Len(log) \in DOMAIN log
    BY <2>1
  <2>3. round' \in Nat /\ groups' = RewoundGroups(round')
    BY <1>8, <2>2, Entries DEF RollbackLastRound, TypeInv, TypeOK
  <2> QED
    BY <1>6, <2>3
<1>9. ASSUME NEW news \in Responses, NEW g \in Groups \cup {None}, NEW i \in DOMAIN log,
             SwipeRound(i, news, g)
      PROVE  GroupsContinue(groups, groups', r)
  <2> DEFINE q == log[i].round
  <2>1. q \in Nat /\ round' = q /\ groups' = WithGroup(RewoundGroups(q), news, g, q)
    BY <1>9, Entries, SwipeRoundDoes
  <2> HIDE DEF q
  <2>2. g # None => RewoundGroups(q)[g] = None
    BY <1>9, <2>1, RewindGroup, SwipeRoundDoes DEF Fresh
  <2> QED
    BY <1>5, <1>6, <2>1, <2>2
<1>10. ASSUME \/ \E done \in SUBSET Groups : DeliverMemory(done)
              \/ \E o \in Offers, t \in Terms : QueueCharge(o, t)
              \/ \E o \in Offers, a \in Actors : PayDeposit(o, a)
              \/ BeginJudgment \/ AbortJudgment \/ RecoverJudgment \/ ResumeGame
              \/ UNCHANGED vars
       PROVE  UNCHANGED groups
  BY <1>10 DEF DeliverMemory, QueueCharge, QueueOffer, PayDeposit, BeginJudgment,
     AbortJudgment, RecoverJudgment, ResumeGame, vars
<1> QED
  BY <1>1, <1>3, <1>4, <1>7, <1>8, <1>9, <1>10 DEF Next, Decision, Rewind

----------------------------------------------------------------------------
(***************************************************************************)
(* The ledger by itself.                                                   *)
(***************************************************************************)
LEMMA NextEntriesAfterOffers ==
    TypeInv /\ TypeInv' /\ Chronicle /\ EntriesAfterOffers /\ [Next]_vars
       => EntriesAfterOffers'
<1> SUFFICES ASSUME TypeInv, TypeInv', Chronicle, EntriesAfterOffers, [Next]_vars,
                    NEW i \in DOMAIN transactions'
             PROVE  /\ transactions'[i].offer \in Known'
                    /\ proposals'[transactions'[i].offer].round <= transactions'[i].round
  BY DEF EntriesAfterOffers
<1>1. ASSUME i \in DOMAIN transactions,
             transactions'[i].offer = transactions[i].offer,
             transactions'[i].round = transactions[i].round
      PROVE  /\ transactions'[i].offer \in Known'
             /\ proposals'[transactions'[i].offer].round <= transactions'[i].round
  BY <1>1, OffersKeepTheirDates DEF EntriesAfterOffers
<1>2. ASSUME NEW o \in Known, proposals[o].status = "pending",
             transactions'[i].offer = o, transactions'[i].round = round
      PROVE  /\ transactions'[i].offer \in Known'
             /\ proposals'[transactions'[i].offer].round <= transactions'[i].round
  <2>1. proposals[o].round <= round
    BY <1>2 DEF Chronicle, NothingFromTheFuture, OffersInThePast
  <2> QED
    BY <1>2, <2>1, OffersKeepTheirDates
<1>3. CASE UNCHANGED <<transactions, seated>>
  BY <1>1, <1>3
<1>4. ASSUME NEW o \in Known, NEW stage \in {"deposit", "final"}, Pays(o, stage)
      PROVE  /\ transactions'[i].offer \in Known'
             /\ proposals'[transactions'[i].offer].round <= transactions'[i].round
  <2> DEFINE x == Receipt(o, stage)
  <2>1. x \in Transaction /\ x.round = round /\ x.offer = o
    BY ReceiptParts
  <2>2. transactions' = Append(transactions, x) /\ proposals[o].status = "pending"
    BY <1>4 DEF Pays, WithStatus
  <2> HIDE DEF x
  <2>3. /\ DOMAIN transactions = 1..Len(transactions) /\ Len(transactions) \in Nat
        /\ DOMAIN transactions' = 1..(Len(transactions) + 1)
        /\ \A j \in 1..Len(transactions) : transactions'[j] = transactions[j]
        /\ transactions'[Len(transactions) + 1] = x
    BY <2>1, <2>2, AppendParts DEF TypeInv, TypeOK
  <2>4. CASE i = Len(transactions) + 1
    BY <1>2, <2>1, <2>2, <2>3, <2>4
  <2>5. CASE i # Len(transactions) + 1
    <3>1. i \in DOMAIN transactions /\ transactions'[i] = transactions[i]
      BY <2>3, <2>5
    <3> QED
      BY <1>1, <3>1
  <2> QED
    BY <2>4, <2>5
<1>5. ASSUME NEW u \in Players, DeleteCharacter(u)
      PROVE  /\ transactions'[i].offer \in Known'
             /\ proposals'[transactions'[i].offer].round <= transactions'[i].round
  <2>1. CASE i \in DOMAIN transactions
    BY <1>1, <1>5, <2>1, DeleteLedger
  <2>2. CASE i \notin DOMAIN transactions
    <3>1. PICK o \in Gone(u) : transactions'[i] = Refund(o)
      BY <1>5, <2>2, DeleteLedger
    <3>2. o \in Known /\ proposals[o].status = "pending"
      BY <1>5, DeleteOffer
    <3> QED
      BY <1>2, <3>1, <3>2 DEF Refund
  <2> QED
    BY <2>1, <2>2
<1>6. ASSUME NEW r \in Nat, transactions' = ReversedLedger(r)
      PROVE  /\ transactions'[i].offer \in Known'
             /\ proposals'[transactions'[i].offer].round <= transactions'[i].round
  BY <1>1, <1>6, ReversedParts
<1> QED
  BY <1>3, <1>4, <1>5, <1>6, LedgerSteps

LEMMA NextStandingInOrder ==
    /\ TypeInv /\ TypeInv' /\ Chronicle /\ EntriesAfterOffers /\ StandingInOrder
    /\ [Next]_vars
    => StandingInOrder'
<1> SUFFICES ASSUME TypeInv, TypeInv', Chronicle, EntriesAfterOffers, StandingInOrder, [Next]_vars
             PROVE  StandingInOrder'
  OBVIOUS
<1>0. \A i \in DOMAIN transactions :
         /\ transactions[i].round \in Nat
         /\ transactions[i].status = "committed" => transactions[i].round <= round
  BY Entries DEF Chronicle, NothingFromTheFuture, LedgerInThePast
<1>1. CASE UNCHANGED <<transactions, seated>>
  BY <1>1 DEF StandingInOrder
<1>2. ASSUME DOMAIN transactions = 1..Len(transactions), Len(transactions) \in Nat,
             \E n \in Nat : DOMAIN transactions' = 1..n,
             \A i \in DOMAIN transactions : i \in DOMAIN transactions' /\ transactions'[i] = transactions[i],
             \A i \in DOMAIN transactions' \ DOMAIN transactions : transactions'[i].round = round
      PROVE  StandingInOrder'
  <2> SUFFICES ASSUME NEW i \in DOMAIN transactions', NEW j \in DOMAIN transactions', i <= j,
                      transactions'[i].status = "committed", transactions'[j].status = "committed"
               PROVE  transactions'[i].round <= transactions'[j].round
    BY DEF StandingInOrder
  <2>1. round \in Nat
    BY DEF TypeInv, TypeOK
  <2>2. CASE j \in DOMAIN transactions
    <3>1. i \in DOMAIN transactions
      BY <1>2, <2>2
    <3> QED
      BY <1>2, <2>2, <3>1 DEF StandingInOrder
  <2>3. CASE j \notin DOMAIN transactions
    <3>1. transactions'[j].round = round /\ transactions'[i].round <= round
      BY <1>0, <1>2, <2>1, <2>3
    <3> QED
      BY <3>1
  <2> QED
    BY <2>2, <2>3
<1>3. ASSUME NEW o \in Known, NEW stage \in {"deposit", "final"}, Pays(o, stage)
      PROVE  StandingInOrder'
  <2> DEFINE x == Receipt(o, stage)
  <2>1. x \in Transaction /\ x.round = round
    BY ReceiptParts
  <2>2. transactions' = Append(transactions, x)
    BY <1>3 DEF Pays
  <2> HIDE DEF x
  <2>3. /\ DOMAIN transactions = 1..Len(transactions) /\ Len(transactions) \in Nat
        /\ DOMAIN transactions' = 1..(Len(transactions) + 1)
        /\ \A j \in 1..Len(transactions) : transactions'[j] = transactions[j]
        /\ transactions'[Len(transactions) + 1] = x
    BY <2>1, <2>2, AppendParts DEF TypeInv, TypeOK
  <2> QED
    BY <1>2, <2>1, <2>3
<1>4. ASSUME NEW u \in Players, DeleteCharacter(u)
      PROVE  StandingInOrder'
  <2>1. /\ DOMAIN transactions = 1..Len(transactions) /\ Len(transactions) \in Nat
        /\ DOMAIN transactions' = 1..Len(transactions') /\ Len(transactions') \in Nat
    BY DEF TypeInv, TypeOK
  <2>2. /\ DOMAIN transactions \subseteq DOMAIN transactions'
        /\ \A i \in DOMAIN transactions : transactions'[i] = transactions[i]
        /\ \A i \in DOMAIN transactions' \ DOMAIN transactions : transactions'[i].round = round
    BY <1>4, DeleteLedger DEF Refund
  <2> QED
    BY <1>2, <2>1, <2>2
<1>5. ASSUME NEW r \in Nat, transactions' = ReversedLedger(r)
      PROVE  StandingInOrder'
  <2>1. /\ DOMAIN transactions' = DOMAIN transactions
        /\ \A i \in DOMAIN transactions :
              /\ transactions'[i].round = transactions[i].round
              /\ transactions'[i].status = "committed" => transactions[i].status = "committed"
    BY <1>5, ReversedParts
  <2> QED
    BY <2>1 DEF StandingInOrder
<1> QED
  BY <1>1, <1>3, <1>4, <1>5, LedgerSteps

\* The sheets are what the ledger and the groups make them.
SheetsAre(sh, txs, gs, seats) ==
    /\ \A u \in seats : /\ sh.gold[u] = GoldOf(txs, StandingOf(txs, u))
                        /\ sh.bag[u] = GoodsOf(txs, StandingOf(txs, u))
    /\ sh.effects = CommittedIn(gs)

LEMMA SheetsMatchIs == SheetsMatchBooks <=> SheetsAre(sheets, transactions, groups, seated)
BY DEF SheetsMatchBooks, BooksBalance, GoodsMatchLedger, EffectsMatchGroups, SheetsAre,
   GoldOf, GoodsOf, StandingOf, Standing, CommittedIn

LEMMA NextImages ==
    /\ TypeInv /\ TypeInv' /\ Chronicle /\ EntriesAfterOffers /\ StandingInOrder
    /\ ImagesAreTrue /\ SheetsMatchBooks /\ [Next]_vars
    => ImagesAreTrue'
<1> SUFFICES ASSUME TypeInv, TypeInv', Chronicle, EntriesAfterOffers, StandingInOrder,
                    ImagesAreTrue, SheetsMatchBooks, [Next]_vars
             PROVE  ImagesAreTrue'
  OBVIOUS
<1> DEFINE True(i) == LET x == transactions'[i] IN
               /\ x.before = GoldOf(transactions', Ahead(transactions', x.uid, i))
               /\ x.bag = GoodsOf(transactions', Ahead(transactions', x.uid, i))
           Stays(i) == transactions'[i].status = "committed" /\ transactions'[i].uid \in seated'
<1>0. /\ transactions \in Seq(Transaction) /\ transactions' \in Seq(Transaction)
      /\ DOMAIN transactions = 1..Len(transactions) /\ Len(transactions) \in Nat
      /\ DOMAIN transactions' = 1..Len(transactions') /\ Len(transactions') \in Nat
  BY DEF TypeInv, TypeOK
<1>1. (\A i \in DOMAIN transactions' : Stays(i) => True(i)) => ImagesAreTrue'
  BY DEF ImagesAreTrue
<1>2. ASSUME NEW i \in DOMAIN transactions, DOMAIN transactions \subseteq DOMAIN transactions',
             transactions[i].status = "committed", transactions[i].uid \in seated,
             transactions'[i].uid = transactions[i].uid,
             transactions'[i].before = transactions[i].before,
             transactions'[i].bag = transactions[i].bag,
             \A j \in DOMAIN transactions : j < i =>
                /\ transactions'[j].uid = transactions[j].uid
                /\ transactions'[j].delta = transactions[j].delta
                /\ transactions'[j].offer = transactions[j].offer
                /\ transactions'[j].goods = transactions[j].goods
                /\ transactions'[j].status = "committed" <=> transactions[j].status = "committed"
      PROVE  True(i)
  <2> DEFINE u == transactions[i].uid
             I == Ahead(transactions, u, i)
  <2>1. I \in SUBSET DOMAIN transactions
    BY DEF Ahead, StandingOf
  <2>2. Ahead(transactions', u, i) = I
    BY <1>0, <1>2 DEF Ahead, StandingOf
  <2>3. \A j \in I : /\ transactions'[j].delta = transactions[j].delta
                     /\ transactions'[j].offer = transactions[j].offer
                     /\ transactions'[j].goods = transactions[j].goods
    BY <1>2 DEF Ahead, StandingOf
  <2>4. transactions[i].before = GoldOf(transactions, I) /\ transactions[i].bag = GoodsOf(transactions, I)
    BY <1>2 DEF ImagesAreTrue
  <2> HIDE DEF I
  <2>5. /\ GoldOf(transactions', I) = GoldOf(transactions, I)
        /\ GoodsOf(transactions', I) = GoodsOf(transactions, I)
    BY <1>0, <1>2, <2>1, <2>3, SameBooks
  <2> QED
    BY <1>2, <2>2, <2>4, <2>5
<1>3. CASE UNCHANGED <<transactions, seated>>
  BY <1>3 DEF ImagesAreTrue
<1>4. ASSUME NEW o \in Known, NEW stage \in {"deposit", "final"}, Pays(o, stage)
      PROVE  ImagesAreTrue'
  <2> DEFINE x == Receipt(o, stage)
             n == Len(transactions)
  <2>1. /\ x \in Transaction /\ x.uid = proposals[o].terms.uid /\ x.uid \in seated
        /\ x.before = sheets.gold[x.uid] /\ x.bag = sheets.bag[x.uid]
    BY <1>4, ReceiptParts DEF Pays
  <2>2. transactions' = Append(transactions, x) /\ seated' = seated
    BY <1>4 DEF Pays
  <2> HIDE DEF x
  <2>3. /\ DOMAIN transactions' = 1..(n + 1) /\ n \in Nat /\ DOMAIN transactions = 1..n
        /\ \A j \in 1..n : transactions'[j] = transactions[j]
        /\ transactions'[n + 1] = x
    BY <1>0, <2>1, <2>2, AppendParts
  <2> HIDE DEF n
  <2>4. ASSUME NEW i \in DOMAIN transactions, Stays(i)
        PROVE  True(i)
    BY <1>2, <2>2, <2>3, <2>4
  <2>5. True(n + 1)
    <3> DEFINE I == StandingOf(transactions, x.uid)
    <3>1. I \in SUBSET DOMAIN transactions
      BY DEF StandingOf
    <3>2. Ahead(transactions', x.uid, n + 1) = I
      BY <2>3 DEF Ahead, StandingOf
    <3>3. x.before = GoldOf(transactions, I) /\ x.bag = GoodsOf(transactions, I)
      BY <2>1, SheetsMatchIs DEF SheetsAre
    <3> HIDE DEF I
    <3>4. /\ GoldOf(transactions', I) = GoldOf(transactions, I)
          /\ GoodsOf(transactions', I) = GoodsOf(transactions, I)
      BY <1>0, <2>3, <3>1, SameBooks
    <3> QED
      BY <2>3, <3>2, <3>3, <3>4
  <2>6. \A i \in DOMAIN transactions' : Stays(i) => True(i)
    <3> SUFFICES ASSUME NEW i \in DOMAIN transactions', Stays(i) PROVE True(i)
      OBVIOUS
    <3>1. CASE i = n + 1
      BY <2>5, <3>1
    <3>2. CASE i # n + 1
      <4>1. i \in DOMAIN transactions
        BY <2>3, <3>2
      <4> QED
        BY <2>4, <4>1
    <3> QED
      BY <3>1, <3>2
  <2> HIDE DEF True, Stays
  <2> QED
    BY <1>1, <2>6
<1>5. ASSUME NEW u \in Players, DeleteCharacter(u)
      PROVE  ImagesAreTrue'
  <2>1. /\ DOMAIN transactions \subseteq DOMAIN transactions'
        /\ \A i \in DOMAIN transactions : transactions'[i] = transactions[i]
        /\ \A i \in DOMAIN transactions' \ DOMAIN transactions : transactions'[i].uid = None
    BY <1>5, DeleteLedger DEF Refund
  <2>2. seated' \subseteq seated /\ None \notin seated'
    BY <1>5, NoneAssumption DEF DeleteCharacter, TypeInv, TypeOK
  <2>3. \A i \in DOMAIN transactions' : Stays(i) => True(i)
    <3> SUFFICES ASSUME NEW i \in DOMAIN transactions', Stays(i) PROVE True(i)
      OBVIOUS
    <3>1. i \in DOMAIN transactions
      BY <2>1, <2>2
    <3> QED
      BY <1>2, <2>1, <2>2, <3>1
  <2> HIDE DEF True, Stays
  <2> QED
    BY <1>1, <2>3
<1>6. ASSUME NEW r \in Nat, transactions' = ReversedLedger(r), UNCHANGED seated
      PROVE  ImagesAreTrue'
  <2>1. /\ DOMAIN transactions' = DOMAIN transactions
        /\ \A i \in DOMAIN transactions :
             /\ transactions[i].round \in Nat
             /\ transactions'[i].uid = transactions[i].uid
             /\ transactions'[i].delta = transactions[i].delta
             /\ transactions'[i].offer = transactions[i].offer
             /\ transactions'[i].goods = transactions[i].goods
             /\ transactions'[i].before = transactions[i].before
             /\ transactions'[i].bag = transactions[i].bag
             /\ transactions'[i].status = IF transactions[i].round >= r THEN "reversed"
                                         ELSE transactions[i].status
    BY <1>6, ReversedParts, Entries
  <2>2. ASSUME NEW i \in DOMAIN transactions', Stays(i)
        PROVE  True(i)
    <3>1. /\ i \in DOMAIN transactions /\ transactions[i].status = "committed"
          /\ transactions[i].round < r /\ transactions[i].uid \in seated
      BY <1>6, <2>1, <2>2
    <3>2. ASSUME NEW j \in DOMAIN transactions, j < i
          PROVE  transactions'[j].status = "committed" <=> transactions[j].status = "committed"
      <4>1. transactions[j].status = "committed" => transactions[j].round <= transactions[i].round
        BY <1>0, <3>1, <3>2 DEF StandingInOrder
      <4> QED
        BY <2>1, <3>1, <4>1
    <3> HIDE DEF True, Stays
    <3> QED
      BY <1>2, <2>1, <3>1, <3>2
  <2> HIDE DEF True, Stays
  <2> QED
    BY <1>1, <2>2
<1> QED
  BY <1>3, <1>4, <1>5, <1>6, LedgerSteps

----------------------------------------------------------------------------
(***************************************************************************)
(* The snapshots.                                                          *)
(***************************************************************************)
LogRemembers ==
    \A k \in DOMAIN log :
        /\ log[k].start = None => log[k].round = 0
        /\ log[k].start # None =>
              Remembers(log[k].start, log[k].round, transactions, groups, seated)
        /\ log[k].pre # None =>
              Remembers(log[k].pre, log[k].round, transactions, groups, seated)

JudgmentRemembers ==
    phase = "judgment" =>
        startSnapshot # None /\ Remembers(startSnapshot, round, transactions, groups, seated)

\* Where no decision is open, the sheets are such a snapshot.
LEMMA SheetsRemember ==
    ASSUME TypeInv, Chronicle, SheetsMatchBooks, ~BlockingDecision
    PROVE  Remembers(sheets, round, transactions, groups, seated)
<1>0. /\ transactions \in Seq(Transaction) /\ round \in Nat
      /\ \A i \in DOMAIN transactions :
            /\ transactions[i] \in Transaction /\ transactions[i].round \in Nat
            /\ transactions[i].status = "committed" => transactions[i].round <= round
  BY Entries DEF TypeInv, TypeOK, Chronicle, NothingFromTheFuture, LedgerInThePast
<1>1. SheetsAre(sheets, transactions, groups, seated)
  BY SheetsMatchIs
<1>2. ASSUME NEW u \in seated,
             \A i \in DOMAIN transactions :
                transactions[i].round = round /\ transactions[i].uid = u => transactions[i].delta = 0
      PROVE  sheets.gold[u] = GoldOf(transactions, Until(transactions, u, round))
  <2> DEFINE I == Until(transactions, u, round)
             J == StandingOf(transactions, u)
  <2>1. \A i \in DOMAIN transactions :
           (IF i \in J THEN transactions[i].delta ELSE 0)
              = IF i \in DOMAIN transactions /\ i \in I THEN transactions[i].delta ELSE 0
    <3> SUFFICES ASSUME NEW i \in DOMAIN transactions, i \in J, i \notin I
                 PROVE  transactions[i].delta = 0
      BY DEF Until
    <3>1. transactions[i].round = round
      BY <1>0 DEF Until, StandingOf
    <3> QED
      BY <1>2, <3>1 DEF StandingOf
  <2> HIDE DEF I, J
  <2>2. Sum(transactions, J) = Sum(transactions, I)
    BY <1>0, <2>1, SameSum
  <2> QED
    BY <1>1, <2>2 DEF SheetsAre, GoldOf, I, J
<1>3. ASSUME NEW u \in seated,
             \A i \in DOMAIN transactions :
                transactions[i].round = round /\ transactions[i].uid = u => ~transactions[i].goods
      PROVE  sheets.bag[u] = GoodsOf(transactions, Until(transactions, u, round))
  <2>1. \A i \in StandingOf(transactions, u) :
           transactions[i].goods => i \in Until(transactions, u, round)
    BY <1>0, <1>3 DEF StandingOf, Until
  <2>2. GoodsOf(transactions, StandingOf(transactions, u))
          = GoodsOf(transactions, Until(transactions, u, round))
    BY <2>1 DEF GoodsOf, Until
  <2> QED
    BY <1>1, <2>2 DEF SheetsAre
<1>4. \A g \in Groups : groups[g] # None => groups[g].status # "pending"
  BY DEF BlockingDecision
<1>5. sheets.effects = CommittedIn(groups)
  BY <1>1 DEF SheetsAre
<1> QED
  BY <1>2, <1>3, <1>4, <1>5 DEF Remembers, CommittedIn

\* The entries of the log are old ones, or the one of the round just told.
LEMMA LogSteps ==
    ASSUME TypeInv, TypeInv', Chronicle, [Next]_vars, NEW k \in DOMAIN log'
    PROVE  \/ \E i \in DOMAIN log : log'[k] = log[i]
           \/ /\ phase = "judgment" /\ ~BlockingDecision
              /\ log'[k] = [round |-> round,
                            start |-> IF startSnapshot = None THEN sheets ELSE startSnapshot,
                            pre |-> sheets]
              /\ round' = round + 1
<1> USE DEF progress, ledger, bounds
<1>0. log \in Seq(LogEntry) /\ DOMAIN log = 1..Len(log) /\ Len(log) \in Nat
  BY DEF TypeInv, TypeOK
<1>1. ASSUME NEW news \in Responses, NEW g \in Groups \cup {None}, FinishJudgment(news, g)
      PROVE  \/ \E i \in DOMAIN log : log'[k] = log[i]
             \/ /\ phase = "judgment" /\ ~BlockingDecision
                /\ log'[k] = [round |-> round,
                              start |-> IF startSnapshot = None THEN sheets ELSE startSnapshot,
                              pre |-> sheets]
                /\ round' = round + 1
  <2> DEFINE e == [round |-> round,
                   start |-> IF startSnapshot = None THEN sheets ELSE startSnapshot,
                   pre |-> sheets]
  <2>1. /\ phase = "judgment" /\ ~BlockingDecision /\ round' = round + 1
        /\ log' = Append(log, e)
    BY <1>1 DEF FinishJudgment, RecordRound
  <2>2. e \in LogEntry
    BY DEF TypeInv, TypeOK, LogEntry
  <2> HIDE DEF e
  <2>3. /\ DOMAIN log' = 1..(Len(log) + 1)
        /\ \A i \in 1..Len(log) : log'[i] = log[i]
        /\ log'[Len(log) + 1] = e
    BY <1>0, <2>1, <2>2, AppendParts
  <2>4. (\E i \in DOMAIN log : log'[k] = log[i]) \/ log'[k] = e
    <3>1. CASE k = Len(log) + 1
      BY <2>3, <3>1
    <3>2. CASE k # Len(log) + 1
      <4>1. k \in DOMAIN log /\ log'[k] = log[k]
        BY <1>0, <2>3, <3>2
      <4> QED
        BY <4>1
    <3> QED
      BY <3>1, <3>2
  <2> QED
    BY <2>1, <2>4 DEF e
<1>2. ASSUME RollbackLastRound
      PROVE  \E i \in DOMAIN log : log'[k] = log[i]
  <2>1. log' = SubSeq(log, 1, Len(log) - 1) /\ Len(log) # 0
    BY <1>0, <1>2 DEF RollbackLastRound
  <2>2. k \in DOMAIN log /\ log'[k] = log[k]
    BY <1>0, <2>1
  <2> QED
    BY <2>2
<1>3. ASSUME NEW r \in Nat, log' = BranchCut(r)
      PROVE  \E i \in DOMAIN log : log'[k] = log[i]
  BY <1>3, CutLog DEF Chronicle
<1>4. ASSUME NEW news \in Responses, NEW g \in Groups \cup {None}, NEW i \in DOMAIN log,
             SwipeRound(i, news, g)
      PROVE  \E j \in DOMAIN log : log'[k] = log[j]
  BY <1>3, <1>4, Entries, SwipeRoundDoes
<1>5. ASSUME \/ \E o \in Offers, t \in Terms : QueueCharge(o, t)
             \/ \E o \in Offers, a \in Actors :
                   PayDeposit(o, a) \/ Settle(o, a) \/ RejectForFunds(o, a) \/ Refuse(o, a)
             \/ \E u \in Players : DeleteCharacter(u)
             \/ \E done \in SUBSET Groups : DeliverMemory(done)
             \/ BeginJudgment \/ AbortJudgment \/ RecoverJudgment \/ ResumeGame
             \/ \E news \in Responses, g \in Groups \cup {None} : SwipeOpening(news, g)
             \/ UNCHANGED vars
      PROVE  UNCHANGED log
  BY <1>5, SwipeOpeningDoes DEF QueueCharge, QueueOffer, PayDeposit, Settle, RejectForFunds, Refuse,
     DeleteCharacter, DeliverMemory, BeginJudgment, AbortJudgment, RecoverJudgment,
     ResumeGame, vars
<1> QED
  BY <1>1, <1>2, <1>4, <1>5 DEF Next, Decision, Rewind

\* What was remembered of a round not later than either state's still is.
LEMMA RoundStillRemembered ==
    ASSUME TypeInv, TypeInv', Chronicle, EntriesAfterOffers, [Next]_vars,
           NEW r \in Nat, r <= round, r <= round', NEW snap \in Sheets,
           Remembers(snap, r, transactions, groups, seated)
    PROVE  Remembers(snap, r, transactions', groups', seated')
<1>1. LedgerContinues(transactions, transactions', r) /\ seated' \in SUBSET seated
  BY LedgerGoesOn
<1>2. GroupsContinue(groups, groups', r)
  BY GroupsGoOn
<1>3. transactions \in Seq(Transaction) /\ transactions' \in Seq(Transaction)
  BY DEF TypeInv, TypeOK
<1> QED
  BY <1>1, <1>2, <1>3, StillRemembers

LEMMA NextLogRemembers ==
    /\ TypeInv /\ TypeInv' /\ Chronicle /\ Chronicle' /\ EntriesAfterOffers
    /\ SheetsMatchBooks /\ LogRemembers /\ JudgmentRemembers /\ [Next]_vars
    => LogRemembers'
<1> SUFFICES ASSUME TypeInv, TypeInv', Chronicle, Chronicle', EntriesAfterOffers,
                    SheetsMatchBooks, LogRemembers, JudgmentRemembers, [Next]_vars,
                    NEW k \in DOMAIN log'
             PROVE  /\ log'[k].start = None => log'[k].round = 0
                    /\ log'[k].start # None =>
                          Remembers(log'[k].start, log'[k].round, transactions', groups', seated')
                    /\ log'[k].pre # None =>
                          Remembers(log'[k].pre, log'[k].round, transactions', groups', seated')
  BY DEF LogRemembers
<1>0. /\ round \in Nat /\ round' \in Nat /\ sheets \in Sheets /\ startSnapshot \in Sheets \cup {None}
      /\ None \notin Sheets
  BY NoneAssumption DEF TypeInv, TypeOK
<1>1. ASSUME NEW i \in DOMAIN log, log'[k] = log[i]
      PROVE  /\ log'[k].start = None => log'[k].round = 0
             /\ log'[k].start # None =>
                   Remembers(log'[k].start, log'[k].round, transactions', groups', seated')
             /\ log'[k].pre # None =>
                   Remembers(log'[k].pre, log'[k].round, transactions', groups', seated')
  <2> DEFINE r == log[i].round
  <2>1. r \in Nat /\ r <= round /\ r <= round'
    BY <1>1, Entries DEF Chronicle, NothingFromTheFuture, LogInThePast
  <2>2. log[i].start \in Sheets \cup {None} /\ log[i].pre \in Sheets \cup {None}
    BY Entries DEF LogEntry
  <2>3. /\ log[i].start = None => r = 0
        /\ log[i].start # None => Remembers(log[i].start, r, transactions, groups, seated)
        /\ log[i].pre # None => Remembers(log[i].pre, r, transactions, groups, seated)
    BY DEF LogRemembers
  <2>4. ASSUME NEW snap \in Sheets, Remembers(snap, r, transactions, groups, seated)
        PROVE  Remembers(snap, r, transactions', groups', seated')
    <3> HIDE DEF r
    <3> QED
      BY <2>1, <2>4, RoundStillRemembered
  <2> QED
    BY <1>1, <2>2, <2>3, <2>4
<1>2. ASSUME phase = "judgment", ~BlockingDecision, round' = round + 1,
             log'[k] = [round |-> round,
                        start |-> IF startSnapshot = None THEN sheets ELSE startSnapshot,
                        pre |-> sheets]
      PROVE  /\ log'[k].start = None => log'[k].round = 0
             /\ log'[k].start # None =>
                   Remembers(log'[k].start, log'[k].round, transactions', groups', seated')
             /\ log'[k].pre # None =>
                   Remembers(log'[k].pre, log'[k].round, transactions', groups', seated')
  <2>1. /\ startSnapshot \in Sheets
        /\ Remembers(startSnapshot, round, transactions, groups, seated)
        /\ Remembers(sheets, round, transactions, groups, seated)
    BY <1>0, <1>2, SheetsRemember DEF JudgmentRemembers
  <2>2. round <= round /\ round <= round'
    BY <1>0, <1>2
  <2>3. /\ Remembers(startSnapshot, round, transactions', groups', seated')
        /\ Remembers(sheets, round, transactions', groups', seated')
    BY <1>0, <2>1, <2>2, RoundStillRemembered
  <2>4. log'[k].round = round /\ log'[k].start = startSnapshot /\ log'[k].pre = sheets
    BY <1>0, <1>2, <2>1
  <2> QED
    BY <1>0, <2>1, <2>3, <2>4
<1> QED
  BY <1>1, <1>2, LogSteps

----------------------------------------------------------------------------
(***************************************************************************)
(* The steps after which the books still balance.                          *)
(***************************************************************************)

(***************************************************************************)
(* A rewind to round r with snapshot snap takes back what it should: no    *)
(* entry of round r was reversed by an earlier rewind, and the snapshot    *)
(* has no effects of groups that go with the round.                        *)
(***************************************************************************)
CleanRewind(r, snap) ==
    /\ \A i \in DOMAIN transactions :
          transactions[i].round = r => transactions[i].status = "committed"
    /\ \A g \in snap.effects : ~GroupIn(g, r)

(***************************************************************************)
(* Nothing was settled during a judgment that fails, the opening narration *)
(* is not rolled back, no narrative is swiped during a judgment, and the   *)
(* rewinds are clean.                                                      *)
(***************************************************************************)
Careful ==
    /\ AbortJudgment => UNCHANGED sheets
    /\ RollbackLastRound =>
          LET last == log[Len(log)] IN
          last.round # 0 /\ CleanRewind(last.round, last.start)
    /\ \A news \in Responses, g \in Groups \cup {None}, i \in DOMAIN log :
          SwipeRound(i, news, g) =>
             phase = "action" /\ CleanRewind(log[i].round, log[i].pre)

CarefulSpec == Init /\ [][Next /\ Careful]_vars

LEMMA NextJudgmentRemembers ==
    /\ TypeInv /\ TypeInv' /\ Chronicle /\ EntriesAfterOffers
    /\ SheetsMatchBooks /\ JudgmentRemembers /\ [Next /\ Careful]_vars
    => JudgmentRemembers'
<1> SUFFICES ASSUME TypeInv, TypeInv', Chronicle, EntriesAfterOffers, SheetsMatchBooks,
                    JudgmentRemembers, [Next /\ Careful]_vars, phase' = "judgment"
             PROVE  /\ startSnapshot' # None
                    /\ Remembers(startSnapshot', round', transactions', groups', seated')
  BY DEF JudgmentRemembers
<1> USE DEF progress, ledger, bounds
<1>0. /\ round \in Nat /\ sheets \in Sheets /\ startSnapshot \in Sheets \cup {None}
      /\ None \notin Sheets /\ [Next]_vars
  BY NoneAssumption DEF TypeInv, TypeOK
<1>1. ASSUME NEW snap \in Sheets, Remembers(snap, round, transactions, groups, seated),
             startSnapshot' = snap, UNCHANGED round
      PROVE  /\ startSnapshot' # None
             /\ Remembers(startSnapshot', round', transactions', groups', seated')
  <2>1. round <= round /\ round <= round'
    BY <1>0, <1>1
  <2>2. Remembers(snap, round, transactions', groups', seated')
    BY <1>0, <1>1, <2>1, RoundStillRemembered
  <2> QED
    BY <1>0, <1>1, <2>2
<1>2. CASE BeginJudgment
  BY <1>0, <1>1, <1>2, SheetsRemember DEF BeginJudgment
<1>3. ASSUME phase = "judgment", UNCHANGED <<round, startSnapshot>>
      PROVE  /\ startSnapshot' # None
             /\ Remembers(startSnapshot', round', transactions', groups', seated')
  BY <1>0, <1>1, <1>3 DEF JudgmentRemembers
<1>4. ASSUME \/ \E o \in Offers, t \in Terms : QueueCharge(o, t)
             \/ \E o \in Offers, a \in Actors :
                   PayDeposit(o, a) \/ Settle(o, a) \/ RejectForFunds(o, a) \/ Refuse(o, a)
             \/ \E u \in Players : DeleteCharacter(u)
             \/ \E done \in SUBSET Groups : DeliverMemory(done)
             \/ \E news \in Responses, g \in Groups \cup {None} : SwipeOpening(news, g)
             \/ UNCHANGED vars
      PROVE  phase = "judgment" /\ UNCHANGED <<round, startSnapshot>>
  BY <1>4, SwipeOpeningDoes DEF QueueCharge, QueueOffer, PayDeposit, Settle, RejectForFunds, Refuse,
     DeleteCharacter, DeliverMemory, vars
<1>5. ~(\/ AbortJudgment \/ RecoverJudgment \/ ResumeGame \/ RollbackLastRound
        \/ \E news \in Responses, g \in Groups \cup {None} : FinishJudgment(news, g))
  BY DEF AbortJudgment, RecoverJudgment, ResumeGame, RollbackLastRound, FinishJudgment, RecordRound
<1>6. ASSUME Careful, NEW news \in Responses, NEW g \in Groups \cup {None}, NEW i \in DOMAIN log,
             SwipeRound(i, news, g)
      PROVE  FALSE
  <2>1. phase = "action" /\ UNCHANGED phase
    BY <1>6, SwipeRoundDoes DEF Careful
  <2> QED
    BY <2>1
<1> QED
  BY <1>2, <1>3, <1>4, <1>5, <1>6 DEF Next, Decision, Rewind

\* A payment is booked on the sheets.
LEMMA PaymentsAreBooked ==
    ASSUME TypeInv, SheetsMatchBooks, NEW o \in Known, NEW stage \in {"deposit", "final"},
           Pays(o, stage)
    PROVE  \A u \in seated' :
              /\ sheets'.gold[u] = GoldOf(transactions', StandingOf(transactions', u))
              /\ sheets'.bag[u] = GoodsOf(transactions', StandingOf(transactions', u))
<1> DEFINE x == Receipt(o, stage)
           n == Len(transactions)
<1>1. /\ x \in Transaction /\ x.uid \in Players /\ x.status = "committed"
      /\ x.delta \in Int /\ x.offer \in Offers
  BY ReceiptParts DEF Transaction
<1>2. /\ transactions \in Seq(Transaction) /\ transactions' = Append(transactions, x)
      /\ seated' = seated /\ seated \subseteq Players /\ sheets \in Sheets
      /\ sheets'.gold = Booked(x).gold /\ sheets'.bag = Booked(x).bag
  BY DEF Pays, TypeInv, TypeOK
<1> HIDE DEF x
<1>3. /\ sheets'.gold = [sheets.gold EXCEPT ![x.uid] = @ + x.delta]
      /\ sheets'.bag = [sheets.bag EXCEPT ![x.uid] = IF x.goods THEN @ \cup {x.offer} ELSE @]
  BY <1>1, <1>2 DEF Booked, Sheets
<1>4. /\ sheets.gold \in [Players -> Int] /\ sheets.bag \in [Players -> SUBSET Offers]
  BY <1>2 DEF Sheets
<1>5. /\ DOMAIN transactions = 1..n /\ n \in Nat
      /\ DOMAIN transactions' = 1..(n + 1) /\ transactions' \in Seq(Transaction)
      /\ \A i \in 1..n : transactions'[i] = transactions[i]
      /\ transactions'[n + 1] = x
  BY <1>1, <1>2, AppendParts
<1>6. ASSUME NEW u \in seated
      PROVE  /\ StandingOf(transactions, u) \in SUBSET DOMAIN transactions
             /\ sheets.gold[u] = GoldOf(transactions, StandingOf(transactions, u))
             /\ sheets.bag[u] = GoodsOf(transactions, StandingOf(transactions, u))
             /\ Sum(transactions, StandingOf(transactions, u)) \in Int
  <2>1. StandingOf(transactions, u) \in SUBSET DOMAIN transactions
    BY DEF StandingOf
  <2>2. Sum(transactions, StandingOf(transactions, u)) \in Int
    BY <1>2, SameSum
  <2> QED
    BY <2>1, <2>2, SheetsMatchIs DEF SheetsAre
<1>7. ASSUME NEW u \in seated, u # x.uid
      PROVE  /\ sheets'.gold[u] = GoldOf(transactions', StandingOf(transactions', u))
             /\ sheets'.bag[u] = GoodsOf(transactions', StandingOf(transactions', u))
  <2> DEFINE I == StandingOf(transactions, u)
  <2>1. StandingOf(transactions', u) = I
    BY <1>5, <1>7 DEF StandingOf
  <2>2. I \in SUBSET DOMAIN transactions
    BY <1>6
  <2> HIDE DEF I
  <2>3. /\ GoldOf(transactions', I) = GoldOf(transactions, I)
        /\ GoodsOf(transactions', I) = GoodsOf(transactions, I)
    <3>1. /\ DOMAIN transactions \subseteq DOMAIN transactions'
          /\ \A i \in I : transactions'[i] = transactions[i]
      BY <1>5, <2>2
    <3> QED
      BY <1>2, <1>5, <2>2, <3>1, SameBooks
  <2>4. sheets'.gold[u] = sheets.gold[u] /\ sheets'.bag[u] = sheets.bag[u]
    BY <1>2, <1>3, <1>4, <1>7
  <2> QED
    BY <1>6, <2>1, <2>3, <2>4 DEF I
<1>8. ASSUME x.uid \in seated
      PROVE  /\ sheets'.gold[x.uid] = GoldOf(transactions', StandingOf(transactions', x.uid))
             /\ sheets'.bag[x.uid] = GoodsOf(transactions', StandingOf(transactions', x.uid))
  <2> DEFINE I == StandingOf(transactions, x.uid)
             J == I \cup {n + 1}
  <2>1. /\ I \subseteq DOMAIN transactions /\ Sum(transactions, I) \in Int
        /\ sheets.gold[x.uid] = Purse + Sum(transactions, I)
        /\ sheets.bag[x.uid] = GoodsOf(transactions, I)
    BY <1>6, <1>8 DEF GoldOf
  <2>2. StandingOf(transactions', x.uid) = J
    BY <1>1, <1>5 DEF StandingOf
  <2>3. sheets'.gold[x.uid] = sheets.gold[x.uid] + x.delta
    BY <1>1, <1>3, <1>4
  <2>4. sheets'.bag[x.uid] = IF x.goods THEN sheets.bag[x.uid] \cup {x.offer} ELSE sheets.bag[x.uid]
    BY <1>1, <1>3, <1>4
  <2>5. Sum(transactions', J) = Sum(transactions, I) + x.delta
    <3> HIDE DEF I
    <3> QED
      BY <1>1, <1>2, <2>1, SumOfMore
  <2>6. GoldOf(transactions', J) = sheets'.gold[x.uid]
    <3> HIDE DEF I, J
    <3> QED
      BY <1>1, <2>1, <2>3, <2>5, PurseAssumption DEF GoldOf
  <2>7. GoodsOf(transactions', J) = sheets'.bag[x.uid]
    <3>1. \A i \in I : transactions'[i] = transactions[i]
      BY <1>5, <2>1
    <3> HIDE DEF I
    <3>2. GoodsOf(transactions', J) = GoodsOf(transactions, I) \cup (IF x.goods THEN {x.offer} ELSE {})
      BY <1>5, <3>1 DEF GoodsOf
    <3> QED
      BY <2>1, <2>4, <3>2
  <2> QED
    BY <2>2, <2>6, <2>7
<1> QED
  BY <1>2, <1>7, <1>8

\* A deletion leaves the other players' books alone.
LEMMA DeletionIsBooked ==
    ASSUME TypeInv, TypeInv', SheetsMatchBooks, NEW u \in Players, DeleteCharacter(u)
    PROVE  SheetsMatchBooks'
<1>1. /\ DOMAIN transactions \subseteq DOMAIN transactions'
      /\ \A i \in DOMAIN transactions : transactions'[i] = transactions[i]
      /\ \A i \in DOMAIN transactions' \ DOMAIN transactions : transactions'[i].uid = None
  BY DeleteLedger DEF Refund
<1>2. /\ transactions \in Seq(Transaction) /\ transactions' \in Seq(Transaction)
      /\ seated \subseteq Players /\ None \notin Players /\ seated' = seated \ {u}
      /\ sheets \in Sheets /\ sheets' = [sheets EXCEPT !.gold[u] = 0, !.bag[u] = {}]
  BY NoneAssumption DEF DeleteCharacter, TypeInv, TypeOK
<1>3. ASSUME NEW v \in seated'
      PROVE  /\ sheets'.gold[v] = GoldOf(transactions', StandingOf(transactions', v))
             /\ sheets'.bag[v] = GoodsOf(transactions', StandingOf(transactions', v))
  <2> DEFINE I == StandingOf(transactions, v)
  <2>1. I \in SUBSET DOMAIN transactions /\ \A i \in I : transactions'[i] = transactions[i]
    BY <1>1 DEF StandingOf
  <2>2. StandingOf(transactions', v) = I
    BY <1>1, <1>2 DEF StandingOf
  <2>3. sheets.gold[v] = GoldOf(transactions, I) /\ sheets.bag[v] = GoodsOf(transactions, I)
    BY <1>2, SheetsMatchIs DEF SheetsAre
  <2> HIDE DEF I
  <2>4. /\ GoldOf(transactions', I) = GoldOf(transactions, I)
        /\ GoodsOf(transactions', I) = GoodsOf(transactions, I)
    BY <1>1, <1>2, <2>1, SameBooks
  <2>5. sheets'.gold[v] = sheets.gold[v] /\ sheets'.bag[v] = sheets.bag[v]
    BY <1>2 DEF Sheets
  <2> QED
    BY <2>2, <2>3, <2>4, <2>5
<1>4. sheets'.effects = CommittedIn(groups')
  <2>1. CommittedIn(groups') = CommittedIn(groups)
    BY DeleteGroup DEF CommittedIn
  <2>2. sheets'.effects = sheets.effects
    BY <1>2 DEF Sheets
  <2> QED
    BY <2>1, <2>2, SheetsMatchIs DEF SheetsAre
<1> QED
  BY <1>3, <1>4, SheetsMatchIs DEF SheetsAre, SheetsMatchBooks, BooksBalance, GoodsMatchLedger,
     EffectsMatchGroups, GoldOf, GoodsOf, StandingOf, Standing, CommittedIn

\* A clean rewind leaves sheets and books agreed.
LEMMA CleanRewindRestores ==
    ASSUME TypeInv, EntriesAfterOffers, StandingInOrder, ImagesAreTrue,
           NEW r \in Nat, NEW snap \in Sheets, CleanRewind(r, snap),
           Remembers(snap, r, transactions, groups, seated)
    PROVE  SheetsAre(RewoundSheets(r, snap), ReversedLedger(r), RewoundGroups(r), seated)
<1> DEFINE after == ReversedLedger(r)
           sh == RewoundSheets(r, snap)
           undone(u) == {i \in DOMAIN after : /\ after[i].status = "reversed"
                                              /\ after[i].round = r
                                              /\ after[i].uid = u}
           paid(u)   == {i \in undone(u) : after[i].delta # 0}
           given(u)  == {i \in undone(u) : after[i].goods}
<1>1. /\ after \in Seq(Transaction) /\ DOMAIN after = DOMAIN transactions
      /\ \A i \in DOMAIN transactions :
            /\ after[i].uid = transactions[i].uid /\ after[i].delta = transactions[i].delta
            /\ after[i].offer = transactions[i].offer /\ after[i].goods = transactions[i].goods
            /\ after[i].round = transactions[i].round /\ after[i].before = transactions[i].before
            /\ after[i].bag = transactions[i].bag
            /\ after[i].status = IF transactions[i].round >= r THEN "reversed"
                                 ELSE transactions[i].status
  BY ReversedParts
<1>2. /\ transactions \in Seq(Transaction) /\ seated \subseteq Players
      /\ DOMAIN transactions \in SUBSET Nat
      /\ \A i \in DOMAIN transactions :
            /\ transactions[i].round \in Nat
            /\ transactions[i].round = r => transactions[i].status = "committed"
  BY Entries DEF TypeInv, TypeOK, CleanRewind
<1>3. ASSUME NEW u \in seated
      PROVE  /\ sh.gold[u] = IF paid(u) = {} THEN snap.gold[u] ELSE after[FirstOf(paid(u))].before
             /\ sh.bag[u] = IF given(u) = {} THEN snap.bag[u] ELSE after[FirstOf(given(u))].bag
  <2>1. sh = Restored(Reconciled(snap, r, after))
    BY NoneAssumption DEF RewoundSheets
  <2>2. /\ sh.gold[u] = Reconciled(snap, r, after).gold[u]
        /\ sh.bag[u] = Reconciled(snap, r, after).bag[u]
    BY <1>2, <2>1 DEF Restored
  <2> HIDE DEF after
  <2>3. /\ Reconciled(snap, r, after).gold
             = [v \in Players |-> IF paid(v) = {} THEN snap.gold[v] ELSE after[FirstOf(paid(v))].before]
        /\ Reconciled(snap, r, after).bag
             = [v \in Players |-> IF given(v) = {} THEN snap.bag[v] ELSE after[FirstOf(given(v))].bag]
    BY DEF Reconciled, Sheets
  <2> HIDE DEF paid, given
  <2> QED
    BY <1>2, <2>2, <2>3
<1>4. sh.effects = snap.effects
  <2>1. sh = Restored(Reconciled(snap, r, after))
    BY NoneAssumption DEF RewoundSheets
  <2>2. Reconciled(snap, r, after).effects = snap.effects
    <3> HIDE DEF after
    <3> QED
      BY DEF Reconciled, Sheets
  <2> QED
    BY <2>1, <2>2 DEF Restored
<1> HIDE DEF after, sh
<1>5. ASSUME NEW u \in seated
      PROVE  StandingOf(after, u) = Until(transactions, u, r)
  BY <1>1, <1>2 DEF StandingOf, Until
<1>6. ASSUME NEW u \in seated
      PROVE  /\ GoldOf(after, StandingOf(after, u)) = GoldOf(transactions, Until(transactions, u, r))
             /\ GoodsOf(after, StandingOf(after, u)) = GoodsOf(transactions, Until(transactions, u, r))
  <2>1. Until(transactions, u, r) \in SUBSET DOMAIN transactions
    BY DEF Until, StandingOf
  <2> QED
    BY <1>1, <1>2, <1>5, <2>1, SameBooks
<1>7. ASSUME NEW u \in seated, NEW i \in DOMAIN transactions
      PROVE  i \in undone(u) <=> transactions[i].round = r /\ transactions[i].uid = u
  BY <1>1, <1>2
<1>8. ASSUME NEW u \in seated, NEW S, S \subseteq undone(u), S # {}
      PROVE  LET i == FirstOf(S) IN
             /\ i \in S /\ i \in DOMAIN transactions
             /\ \A j \in S : i <= j
             /\ transactions[i].round = r /\ transactions[i].uid = u
             /\ transactions[i].status = "committed"
  <2>1. S \in SUBSET Nat /\ S \subseteq DOMAIN transactions
    BY <1>1, <1>2, <1>8
  <2>2. FirstOf(S) \in S /\ \A j \in S : FirstOf(S) <= j
    BY <1>8, <2>1, FirstOfIs
  <2> QED
    BY <1>2, <1>7, <1>8, <2>1, <2>2
<1>9. ASSUME NEW u \in seated, NEW i \in DOMAIN transactions,
             transactions[i].round = r, transactions[i].uid = u, transactions[i].status = "committed"
      PROVE  /\ \A j \in DOMAIN transactions :
                   j \in Until(transactions, u, r) => j \in Ahead(transactions, u, i)
             /\ \A j \in DOMAIN transactions :
                   j \in Ahead(transactions, u, i) /\ j \notin Until(transactions, u, r)
                      => j \in undone(u) /\ j < i
  <2> SUFFICES ASSUME NEW j \in DOMAIN transactions
               PROVE  /\ j \in Until(transactions, u, r) => j \in Ahead(transactions, u, i)
                      /\ j \in Ahead(transactions, u, i) /\ j \notin Until(transactions, u, r)
                            => j \in undone(u) /\ j < i
    OBVIOUS
  <2>1. i \in Nat /\ j \in Nat /\ transactions[j].round \in Nat
    BY <1>2
  <2>2. ASSUME j \in Until(transactions, u, r) PROVE j \in Ahead(transactions, u, i)
    <3>1. transactions[j].status = "committed" /\ transactions[j].uid = u /\ transactions[j].round < r
      BY <2>2 DEF Until, StandingOf
    <3>2. ~(i <= j)
      BY <1>9, <2>1, <3>1 DEF StandingInOrder
    <3> QED
      BY <2>1, <2>2, <3>2 DEF Until, Ahead
  <2>3. ASSUME j \in Ahead(transactions, u, i), j \notin Until(transactions, u, r)
        PROVE  j \in undone(u) /\ j < i
    <3>1. transactions[j].status = "committed" /\ transactions[j].uid = u /\ j < i
          /\ ~(transactions[j].round < r)
      BY <2>3 DEF Until, Ahead, StandingOf
    <3>2. transactions[j].round <= r
      BY <1>9, <2>1, <3>1 DEF StandingInOrder
    <3>3. transactions[j].round = r
      BY <2>1, <3>1, <3>2
    <3> HIDE DEF undone
    <3> QED
      BY <1>7, <3>1, <3>3
  <2> QED
    BY <2>2, <2>3
<1>10. ASSUME NEW u \in seated
       PROVE  sh.gold[u] = GoldOf(transactions, Until(transactions, u, r))
  <2>1. CASE paid(u) = {}
    <3>1. \A i \in DOMAIN transactions :
             transactions[i].round = r /\ transactions[i].uid = u => transactions[i].delta = 0
      BY <1>1, <1>7, <2>1
    <3> HIDE DEF paid
    <3> QED
      BY <1>3, <2>1, <3>1 DEF Remembers
  <2>2. CASE paid(u) # {}
    <3> DEFINE i == FirstOf(paid(u))
               I == Until(transactions, u, r)
               J == Ahead(transactions, u, i)
    <3>1. paid(u) \subseteq undone(u)
      OBVIOUS
    <3>2. /\ i \in paid(u) /\ i \in DOMAIN transactions /\ \A j \in paid(u) : i <= j
          /\ transactions[i].round = r /\ transactions[i].uid = u
          /\ transactions[i].status = "committed"
      <4> HIDE DEF paid, undone
      <4> QED
        BY <1>8, <2>2, <3>1
    <3>3. ASSUME NEW j \in DOMAIN transactions, j \in undone(u), j < i
          PROVE  transactions[j].delta = 0
      <4>1. j \notin paid(u)
        <5>1. i \in Nat /\ j \in Nat
          BY <1>2, <3>2
        <5> HIDE DEF i, paid
        <5> QED
          BY <3>2, <3>3, <5>1
      <4> QED
        BY <1>1, <3>3, <4>1
    <3> HIDE DEF i, paid, undone
    <3>4. \A j \in DOMAIN transactions :
             (IF j \in J THEN transactions[j].delta ELSE 0)
                = IF j \in DOMAIN transactions /\ j \in I THEN transactions[j].delta ELSE 0
      <4> SUFFICES ASSUME NEW j \in DOMAIN transactions
                   PROVE  (j \in I => j \in J) /\ (j \in J /\ j \notin I => transactions[j].delta = 0)
        OBVIOUS
      <4>1. /\ j \in I => j \in J
            /\ j \in J /\ j \notin I => j \in undone(u) /\ j < i
        BY <1>9, <3>2
      <4> QED
        BY <3>3, <4>1
    <3> HIDE DEF I, J
    <3>5. Sum(transactions, J) = Sum(transactions, I)
      BY <1>2, <3>4, SameSum
    <3>6. transactions[i].before = GoldOf(transactions, J)
      BY <3>2 DEF ImagesAreTrue, J
    <3>7. sh.gold[u] = transactions[i].before
      BY <1>1, <1>3, <2>2, <3>2 DEF i
    <3> QED
      BY <3>5, <3>6, <3>7 DEF GoldOf, I
  <2> QED
    BY <2>1, <2>2
<1>11. ASSUME NEW u \in seated
       PROVE  sh.bag[u] = GoodsOf(transactions, Until(transactions, u, r))
  <2>1. CASE given(u) = {}
    <3>1. \A i \in DOMAIN transactions :
             transactions[i].round = r /\ transactions[i].uid = u => ~transactions[i].goods
      BY <1>1, <1>7, <2>1
    <3> HIDE DEF given
    <3> QED
      BY <1>3, <2>1, <3>1 DEF Remembers
  <2>2. CASE given(u) # {}
    <3> DEFINE i == FirstOf(given(u))
               I == Until(transactions, u, r)
               J == Ahead(transactions, u, i)
    <3>1. given(u) \subseteq undone(u)
      OBVIOUS
    <3>2. /\ i \in given(u) /\ i \in DOMAIN transactions /\ \A j \in given(u) : i <= j
          /\ transactions[i].round = r /\ transactions[i].uid = u
          /\ transactions[i].status = "committed"
      <4> HIDE DEF given, undone
      <4> QED
        BY <1>8, <2>2, <3>1
    <3>3. ASSUME NEW j \in DOMAIN transactions, j \in undone(u), j < i
          PROVE  ~transactions[j].goods
      <4>1. j \notin given(u)
        <5>1. i \in Nat /\ j \in Nat
          BY <1>2, <3>2
        <5> HIDE DEF i, given
        <5> QED
          BY <3>2, <3>3, <5>1
      <4> QED
        BY <1>1, <3>3, <4>1
    <3> HIDE DEF i, given, undone
    <3>4. ASSUME NEW j \in DOMAIN transactions
          PROVE  (j \in I => j \in J) /\ (j \in J /\ j \notin I => ~transactions[j].goods)
      <4>1. /\ j \in I => j \in J
            /\ j \in J /\ j \notin I => j \in undone(u) /\ j < i
        BY <1>9, <3>2
      <4> QED
        BY <3>3, <4>1
    <3>5. I \subseteq DOMAIN transactions /\ J \subseteq DOMAIN transactions
      BY DEF Until, Ahead, StandingOf
    <3>6. transactions[i].bag = GoodsOf(transactions, J)
      BY <3>2 DEF ImagesAreTrue
    <3> HIDE DEF I, J
    <3>7. GoodsOf(transactions, J) = GoodsOf(transactions, I)
      BY <3>4, <3>5 DEF GoodsOf
    <3>8. sh.bag[u] = transactions[i].bag
      BY <1>1, <1>3, <2>2, <3>2 DEF i
    <3> QED
      BY <3>6, <3>7, <3>8 DEF I
  <2> QED
    BY <2>1, <2>2
<1>12. sh.effects = CommittedIn(RewoundGroups(r))
  <2>1. snap.effects \subseteq Groups
    BY DEF Sheets
  <2>2. ASSUME NEW g \in Groups
        PROVE  g \in snap.effects <=> g \in CommittedIn(RewoundGroups(r))
    <3>1. groups[g] # None => groups[g].round \in Nat
      BY DEF TypeInv, TypeOK, Group
    <3>2. g \in snap.effects => groups[g] # None /\ ~(groups[g].round >= r)
      BY DEF CleanRewind, Remembers, GroupIn
    <3>3. g \in CommittedIn(RewoundGroups(r)) <=>
             /\ groups[g] # None /\ ~(groups[g].round >= r) /\ groups[g].status = "committed"
      BY RewindGroup DEF CommittedIn
    <3>4. groups[g] # None /\ groups[g].round < r =>
             (g \in snap.effects <=> groups[g].status = "committed")
      BY DEF Remembers
    <3> QED
      BY <3>1, <3>2, <3>3, <3>4
  <2> QED
    BY <1>4, <2>1, <2>2 DEF CommittedIn
<1> QED
  BY <1>6, <1>10, <1>11, <1>12 DEF SheetsAre, after, sh

LEMMA NextSheetsMatch ==
    /\ TypeInv /\ TypeInv' /\ Chronicle /\ EntriesAfterOffers /\ StandingInOrder
    /\ ImagesAreTrue /\ LogRemembers /\ SheetsMatchBooks /\ [Next /\ Careful]_vars
    => SheetsMatchBooks'
<1> SUFFICES ASSUME TypeInv, TypeInv', Chronicle, EntriesAfterOffers, StandingInOrder,
                    ImagesAreTrue, LogRemembers, SheetsMatchBooks, [Next /\ Careful]_vars
             PROVE  SheetsMatchBooks'
  OBVIOUS
<1> USE DEF progress, ledger, bounds
<1>0. /\ SheetsAre(sheets, transactions, groups, seated)
      /\ groups \in GroupMap /\ sheets \in Sheets /\ round \in Nat
  BY SheetsMatchIs DEF TypeInv, TypeOK, GroupMap
<1>1. SheetsAre(sheets', transactions', groups', seated') => SheetsMatchBooks'
  BY DEF SheetsMatchBooks, BooksBalance, GoodsMatchLedger, EffectsMatchGroups, SheetsAre,
     GoldOf, GoodsOf, StandingOf, Standing, CommittedIn
<1>2. ASSUME UNCHANGED <<sheets, transactions, seated>>, CommittedIn(groups') = CommittedIn(groups)
      PROVE  SheetsMatchBooks'
  BY <1>0, <1>1, <1>2 DEF SheetsAre
<1>3. ASSUME Careful,
             \/ \E o \in Offers, t \in Terms : QueueCharge(o, t)
             \/ \E done \in SUBSET Groups : DeliverMemory(done)
             \/ BeginJudgment \/ AbortJudgment \/ RecoverJudgment \/ ResumeGame
      PROVE  SheetsMatchBooks'
  <2>1. UNCHANGED <<sheets, transactions, seated, groups>>
    BY <1>3 DEF Careful, QueueCharge, QueueOffer, DeliverMemory, BeginJudgment, AbortJudgment,
       RecoverJudgment, ResumeGame
  <2> QED
    BY <1>2, <2>1
<1>4. CASE UNCHANGED vars
  BY <1>2, <1>4 DEF vars
<1>5. ASSUME NEW o \in Offers, NEW a \in Actors, RejectForFunds(o, a) \/ Refuse(o, a)
      PROVE  SheetsMatchBooks'
  <2>1. o \in Known /\ Refusals \subseteq OfferStatus
    BY <1>5 DEF RejectForFunds, Refuse, WithStatus, OfferStatus, Refusals
  <2>2. PICK s \in Refusals : Decide(o, s)
    BY <1>5 DEF RejectForFunds, Refuse, Refusals
  <2>3. CommittedIn(groups') = CommittedIn(groups)
    BY <2>1, <2>2, DecideGroup DEF CommittedIn
  <2> QED
    BY <1>2, <1>5, <2>3 DEF RejectForFunds, Refuse
<1>6. ASSUME NEW o \in Offers, NEW a \in Actors, PayDeposit(o, a)
      PROVE  SheetsMatchBooks'
  <2>1. o \in Known /\ Pays(o, "deposit") /\ UNCHANGED groups
    BY <1>6 DEF PayDeposit, Pays, WithStatus
  <2>2. sheets'.effects = sheets.effects
    BY <1>0, <1>6 DEF PayDeposit, Booked, Sheets
  <2> QED
    BY <1>0, <1>1, <2>1, <2>2, PaymentsAreBooked DEF SheetsAre
<1>7. ASSUME NEW o \in Offers, NEW a \in Actors, Settle(o, a)
      PROVE  SheetsMatchBooks'
  <2> DEFINE x == Receipt(o, "final")
  <2>1. o \in Known /\ Decide(o, "committed") /\ "committed" \in OfferStatus
    BY <1>7 DEF Settle, WithStatus, OfferStatus
  <2>2. x \in Transaction /\ x.uid \in Players
    BY <2>1, ReceiptParts
  <2> HIDE DEF x
  <2>3. Booked(x) \in Sheets /\ Booked(x).effects = sheets.effects
    BY <1>0, <2>2, BookedType DEF Booked, Sheets
  <2>4. sheets' = WithEffects(Booked(x), groups')
    BY <1>7 DEF Settle, x
  <2>5. Pays(o, "final")
    <3>1. sheets'.gold = Booked(x).gold /\ sheets'.bag = Booked(x).bag
      BY <2>3, <2>4 DEF WithEffects, Sheets
    <3> QED
      BY <1>7, <3>1 DEF Settle, Pays, x
  <2>6. sheets'.effects = CommittedIn(groups) \cup Released(groups')
    BY <1>0, <2>3, <2>4 DEF WithEffects, Sheets, SheetsAre
  <2>7. CommittedIn(groups') = CommittedIn(groups) \cup Released(groups')
    <3>1. ASSUME NEW g \in Groups
          PROVE  g \in CommittedIn(groups') <=> g \in CommittedIn(groups) \/ g \in Released(groups')
      BY <2>1, DecideGroup DEF CommittedIn, Released
    <3> QED
      BY <3>1 DEF CommittedIn, Released
  <2> QED
    BY <1>1, <2>1, <2>5, <2>6, <2>7, PaymentsAreBooked DEF SheetsAre
<1>8. ASSUME NEW u \in Players, DeleteCharacter(u)
      PROVE  SheetsMatchBooks'
  BY <1>8, DeletionIsBooked
<1>9. ASSUME NEW gs, NEW news, NEW g \in Groups \cup {None}, NEW q,
             g # None => gs[g] = None
      PROVE  CommittedIn(WithGroup(gs, news, g, q)) = CommittedIn(gs)
  <2> SUFFICES ASSUME NEW h \in Groups
               PROVE  h \in CommittedIn(WithGroup(gs, news, g, q)) <=> h \in CommittedIn(gs)
    BY DEF CommittedIn
  <2>1. CASE h = g
    <3>1. WithGroup(gs, news, g, q)[h].status = "pending" /\ gs[h] = None
      BY <1>9, <2>1, NoneAssumption DEF WithGroup
    <3> QED
      BY <3>1 DEF CommittedIn
  <2>2. CASE h # g
    BY <2>2 DEF CommittedIn, WithGroup
  <2> QED
    BY <2>1, <2>2
<1>10. ASSUME NEW news \in Responses, NEW g \in Groups \cup {None},
              FinishJudgment(news, g) \/ SwipeOpening(news, g)
       PROVE  SheetsMatchBooks'
  <2>1. /\ UNCHANGED <<sheets, transactions, seated>>
        /\ groups' = WithGroup(groups, news, g, round)
        /\ g # None => groups[g] = None
    BY <1>10, SwipeOpeningDoes DEF FinishJudgment, RecordRound, Fresh
  <2> QED
    BY <1>2, <1>9, <2>1
<1>11. ASSUME Careful, RollbackLastRound
       PROVE  SheetsMatchBooks'
  <2> DEFINE last == log[Len(log)]
             r == last.round
  <2>1. log # <<>> /\ log \in Seq(LogEntry)
    BY <1>11 DEF RollbackLastRound, TypeInv, TypeOK
  <2>2. Len(log) \in DOMAIN log
    BY <2>1
  <2>3. r \in Nat /\ r # 0 /\ CleanRewind(r, last.start)
    BY <1>11, <2>2, Entries DEF Careful
  <2>4. /\ transactions' = ReversedLedger(r) /\ groups' = RewoundGroups(r)
        /\ sheets' = RewoundSheets(r, last.start) /\ UNCHANGED seated
    BY <1>11, <2>3 DEF RollbackLastRound
  <2>5. last.start \in Sheets /\ Remembers(last.start, r, transactions, groups, seated)
    BY <2>2, <2>3, Entries DEF LogRemembers, LogEntry
  <2> HIDE DEF last, r
  <2>6. SheetsAre(sheets', transactions', groups', seated')
    BY <2>3, <2>4, <2>5, CleanRewindRestores
  <2> QED
    BY <1>1, <2>6
<1>12. ASSUME Careful, NEW news \in Responses, NEW g \in Groups \cup {None}, NEW i \in DOMAIN log,
              SwipeRound(i, news, g)
       PROVE  SheetsMatchBooks'
  <2> DEFINE r == log[i].round
             snap == log[i].pre
  <2>1. r \in Nat /\ snap # None /\ CleanRewind(r, snap)
    BY <1>12, Entries, SwipeRoundDoes DEF Careful
  <2>2. /\ transactions' = ReversedLedger(r)
        /\ groups' = WithGroup(RewoundGroups(r), news, g, r)
        /\ sheets' = RewoundSheets(r, snap) /\ UNCHANGED seated
        /\ g # None => groups[g] = None
    BY <1>12, SwipeRoundDoes DEF Fresh
  <2>3. snap \in Sheets /\ Remembers(snap, r, transactions, groups, seated)
    BY <2>1, Entries DEF LogRemembers, LogEntry
  <2> HIDE DEF snap, r
  <2>4. SheetsAre(sheets', transactions', RewoundGroups(r), seated')
    BY <2>1, <2>2, <2>3, CleanRewindRestores
  <2>5. g # None => RewoundGroups(r)[g] = None
    BY <2>1, <2>2, RewindGroup
  <2>6. CommittedIn(groups') = CommittedIn(RewoundGroups(r))
    BY <1>9, <2>2, <2>5
  <2> QED
    BY <1>1, <2>4, <2>6 DEF SheetsAre
<1> QED
  BY <1>3, <1>4, <1>5, <1>6, <1>7, <1>8, <1>10, <1>11, <1>12 DEF Next, Decision, Rewind

----------------------------------------------------------------------------
BooksInv == /\ EntriesAfterOffers /\ StandingInOrder /\ ImagesAreTrue
            /\ LogRemembers /\ JudgmentRemembers /\ SheetsMatchBooks

LEMMA InitBooksInv == Init => BooksInv
<1> SUFFICES ASSUME Init PROVE BooksInv
  OBVIOUS
<1>1. transactions = <<>> /\ DOMAIN transactions = {}
  BY DEF Init
<1>2. EntriesAfterOffers /\ StandingInOrder /\ ImagesAreTrue
  BY <1>1 DEF EntriesAfterOffers, StandingInOrder, ImagesAreTrue
<1>3. LogRemembers /\ JudgmentRemembers
  BY DEF Init, LogRemembers, JudgmentRemembers
<1>4. SheetsMatchBooks
  <2>1. ASSUME NEW I PROVE Sum(transactions, I) = 0
    <3>1. transactions \in Seq(Transaction) /\ Len(transactions) = 0
      BY <1>1
    <3>2. /\ Shares(transactions, I) \in Seq(Int) /\ Len(Shares(transactions, I)) = 0
          /\ Sum(transactions, I) = Total(Shares(transactions, I))
      BY <3>1, SharesAre
    <3> QED
      BY <3>2, TotalIs
  <2>2. BooksBalance
    BY <2>1, PurseAssumption DEF Init, BooksBalance
  <2>3. GoodsMatchLedger
    BY <1>1 DEF Init, GoodsMatchLedger, Standing
  <2>4. EffectsMatchGroups
    <3>1. PICK news \in Responses, g \in Groups \cup {None} :
             groups = WithGroup([h \in Groups |-> None], news, g, 1)
      BY Opening
    <3> QED
      BY <3>1 DEF Init, EffectsMatchGroups, WithGroup
  <2> QED
    BY <2>2, <2>3, <2>4 DEF SheetsMatchBooks
<1> QED
  BY <1>2, <1>3, <1>4 DEF BooksInv

LEMMA NextBooksInv ==
    /\ TypeInv /\ TypeInv' /\ Chronicle /\ Chronicle' /\ BooksInv /\ [Next /\ Careful]_vars
    => BooksInv'
<1> SUFFICES ASSUME TypeInv, TypeInv', Chronicle, Chronicle', BooksInv, [Next /\ Careful]_vars
             PROVE  BooksInv'
  OBVIOUS
<1>1. [Next]_vars
  OBVIOUS
<1> QED
  BY <1>1, NextEntriesAfterOffers, NextStandingInOrder, NextImages, NextLogRemembers,
     NextJudgmentRemembers, NextSheetsMatch DEF BooksInv

(***************************************************************************)
(* However rounds are taken back and told anew, the sheets carry exactly   *)
(* the money, the goods and the effects the books account for, as long as  *)
(* no step is one of those the findings are about: nothing settled in a    *)
(* judgment that fails, no rollback of the opening, no swipe during a      *)
(* judgment, and every rewind clean.                                       *)
(***************************************************************************)
THEOREM SheetsFollowTheBooks == CarefulSpec => []SheetsMatchBooks
<1>1. BooksInv => SheetsMatchBooks
  BY DEF BooksInv
<1>2. TypeInv /\ Chronicle /\ BooksInv /\ [Next /\ Careful]_vars
        => TypeInv' /\ Chronicle' /\ BooksInv'
  BY NextType, NextChronicle, NextBooksInv
<1> QED
  BY <1>1, <1>2, InitType, InitChronicle, InitBooksInv, PTL DEF CarefulSpec

----------------------------------------------------------------------------

(***************************************************************************)
(* What overlapping rounds keep, for any number of coroutines.             *)
(*                                                                         *)
(* Whoever holds the gate: no interleaving of planning, narrating and      *)
(* settling breaks the ledger.  The two steps a coroutine may come to too  *)
(* late, a quote and the record of a round, keep its invariants in any     *)
(* phase (UnguardedNext), and the two copies a swipe carries are as sound  *)
(* as the aggregate they replace (CopySound).  With every coroutine in the *)
(* gate there is at most one at work, its judgment stands while it works,  *)
(* nobody works during a swipe, and rounds and swipes are those of Economy *)
(* (GateInv).                                                              *)
(***************************************************************************)

LEMMA FingerprintType ==
    ASSUME NEW props \in ProposalMap
    PROVE  Fingerprint(props) \in [Offers -> OfferStatus \cup {"none"}]
<1>1. \A o \in Offers : props[o] # None => props[o].status \in OfferStatus
  BY DEF ProposalMap, Proposal
<1> QED
  BY <1>1 DEF Fingerprint

\* Also for the economy after the step.
LEMMA FingerprintNext ==
    ASSUME proposals' \in ProposalMap
    PROVE  Fingerprint(proposals') \in [Offers -> OfferStatus \cup {"none"}]
<1>1. \A o \in Offers : proposals'[o] # None => proposals'[o].status \in OfferStatus
  BY DEF ProposalMap, Proposal
<1> QED
  BY <1>1 DEF Fingerprint

LEMMA IdleType == Idle \in Task
<1>1. Fresh0 \in [Offers -> OfferStatus \cup {"none"}]
  BY DEF Fresh0, Fingerprint
<1> QED
  BY <1>1 DEF Idle, Task, Stages

LEMMA EnteringType ==
    ASSUME TypeInv, NEW stage \in Stages
    PROVE  Entering(stage, proposals) \in Task
<1>1. proposals \in ProposalMap /\ rewinds \in Nat
  BY DEF TypeInv, TypeOK, ProposalMap
<1> QED
  BY <1>1, FingerprintType DEF Entering, Task

LEMMA EnteringNext ==
    ASSUME TypeInv, TypeInv', NEW stage \in Stages
    PROVE  Entering(stage, proposals') \in Task
<1>1. proposals' \in ProposalMap /\ rewinds \in Nat
  BY DEF TypeInv, TypeOK, ProposalMap
<1> QED
  BY <1>1, FingerprintNext DEF Entering, Task

----------------------------------------------------------------------------
(***************************************************************************)
(* Any number of coroutines, in the gate or not.                           *)
(***************************************************************************)

LEMMA PlanOutcomeSteps ==
    ASSUME NEW t \in Tasks, PlanOutcome(t)
    PROVE  UNCHANGED vars \/ \E o \in Offers, c \in Terms : c.kind = "purchase" /\ QueueOffer(o, c)
BY DEF PlanOutcome

\* What a step of the table does to the aggregate.
LEMMA TableSteps == [TableNext]_allVars => [UnguardedNext]_vars \/ PublishSwipe \/ RevertSwipe
<1> SUFFICES ASSUME [TableNext]_allVars
             PROVE  [UnguardedNext]_vars \/ PublishSwipe \/ RevertSwipe
  OBVIOUS
<1>1. ASSUME NEW t \in Tasks, Advance(t) PROVE UnguardedNext
  BY <1>1 DEF Advance, UnguardedNext, Next
<1>2. ASSUME NEW t \in Tasks, Resume(t) \/ Call(t) \/ Discard(t) PROVE UNCHANGED vars
  BY <1>2 DEF Resume, Call, Discard
<1>3. ASSUME NEW t \in Tasks, Plan(t) \/ Replan(t) \/ LockedPlan(t)
      PROVE  UnguardedNext \/ UNCHANGED vars
  BY <1>3, PlanOutcomeSteps DEF Plan, Replan, LockedPlan, UnguardedNext
<1>4. ASSUME NEW t \in Tasks, NEW news \in Responses, NEW g \in Groups \cup {None},
             Commit(t, news, g)
      PROVE  UnguardedNext
  BY <1>4 DEF Commit, UnguardedNext
<1>5. ASSUME NEW t \in Tasks, Fail(t) PROVE UnguardedNext \/ UNCHANGED vars
  BY <1>5 DEF Fail, UnguardedNext, Next
<1>6. ASSUME DecideLuck PROVE UNCHANGED vars
  BY <1>6 DEF DecideLuck
<1>7. ASSUME Restart PROVE UnguardedNext \/ UNCHANGED vars
  BY <1>7 DEF Restart, UnguardedNext, Next
<1>8. ASSUME Manage PROVE UnguardedNext
  BY <1>8 DEF Manage, UnguardedNext, Next
<1>9. ASSUME Drain PROVE UnguardedNext
  BY <1>9 DEF Drain, UnguardedNext, Next
<1>10. ASSUME Rollback PROVE UnguardedNext
  BY <1>10 DEF Rollback, UnguardedNext, Next, Rewind
<1>11. ASSUME StageSwipe \/ DropSwipe PROVE UNCHANGED vars
  BY <1>11 DEF StageSwipe, BeginSwipe, DropSwipe
<1>12. ASSUME UNCHANGED allVars PROVE UNCHANGED vars
  BY <1>12 DEF allVars
<1> QED
  BY <1>1, <1>2, <1>3, <1>4, <1>5, <1>6, <1>7, <1>8, <1>9, <1>10, <1>11, <1>12
     DEF TableNext, Progress, EndSwipe

\* What it does to a swipe.
LEMMA SwipingSteps == [TableNext]_allVars => StageSwipe \/ EndSwipe \/ UNCHANGED swiping
<1> SUFFICES ASSUME [TableNext]_allVars PROVE StageSwipe \/ EndSwipe \/ UNCHANGED swiping
  OBVIOUS
<1>1. ASSUME NEW t \in Tasks, Advance(t) \/ Resume(t) \/ Progress(t) \/ Fail(t)
      PROVE  UNCHANGED swiping
  BY <1>1 DEF Advance, Resume, Fail, Progress, Plan, Call, Replan, LockedPlan, Commit, Discard
<1>2. ASSUME DecideLuck \/ Restart \/ Manage \/ Drain \/ Rollback \/ UNCHANGED allVars
      PROVE  UNCHANGED swiping
  BY <1>2 DEF DecideLuck, Restart, Manage, Drain, Rollback, allVars, table
<1> QED
  BY <1>1, <1>2 DEF TableNext

TasksInv ==
    /\ task \in [Tasks -> Task]
    /\ prepared \in BOOLEAN /\ luck \in BOOLEAN
    /\ luck => prepared

\* The two copies of a swipe are sound: whichever replaces the aggregate, its
\* invariants hold again.
CopySound(c) == CopyType(c) /\ CopyDated(c) /\ BooksOf(c.proposals, c.transactions)

SwipeInv ==
    /\ swipes \in Nat
    /\ swipe # None => /\ CopySound(swipe.before) /\ CopySound(swipe.after)
                       /\ swipe.prepared \in BOOLEAN /\ swipe.luck \in BOOLEAN
                       /\ swipe.luck => swipe.prepared

LEMMA InitTasks == TableInit => TypeInv /\ TasksInv /\ SwipeInv
<1>1. TableInit => TypeInv
  BY InitType DEF TableInit
<1>2. TableInit => TasksInv
  BY IdleType DEF TableInit, TasksInv
<1>3. TableInit => SwipeInv
  BY DEF TableInit, SwipeInv
<1> QED
  BY <1>1, <1>2, <1>3

LEMMA NextSwipe ==
    TypeInv /\ Chronicle /\ Books /\ TasksInv /\ SwipeInv /\ [TableNext]_allVars => SwipeInv'
<1> SUFFICES ASSUME TypeInv, Chronicle, Books, TasksInv, SwipeInv, [TableNext]_allVars
             PROVE  SwipeInv'
  OBVIOUS
<1>1. ASSUME NEW c, BeginSwipe(c), CopySound(c) PROVE SwipeInv'
  <2>1. CopySound(Aggregate)
    <3>1. Aggregate.proposals = proposals /\ Aggregate.transactions = transactions
      BY DEF Aggregate
    <3> QED
      BY <3>1, AggregateType, AggregateDated DEF CopySound, Books
  <2>2. /\ swipe' = [before |-> Aggregate, after |-> c, prepared |-> prepared, luck |-> luck]
        /\ swipes' = swipes + 1
    BY <1>1 DEF BeginSwipe
  <2>3. swipe'.before = Aggregate /\ swipe'.after = c /\ swipe'.prepared = prepared
        /\ swipe'.luck = luck
    BY <2>2
  <2> QED
    BY <1>1, <2>1, <2>2, <2>3 DEF SwipeInv, TasksInv
<1>2. ASSUME StageSwipe PROVE SwipeInv'
  <2>1. PICK news \in Responses, g \in Groups \cup {None} :
           \/ \E i \in DOMAIN log : CanSwipe(i, news, g) /\ BeginSwipe(Swiped(i, news, g))
           \/ CanSwipeOpening(news, g) /\ BeginSwipe(SwipedOpening(news, g))
    BY <1>2 DEF StageSwipe
  <2>2. ASSUME NEW i \in DOMAIN log, CanSwipe(i, news, g) PROVE CopySound(Swiped(i, news, g))
    BY <2>2, SwipedType, SwipedDated, SwipedBooks DEF CopySound, CanSwipe
  <2>3. ASSUME CanSwipeOpening(news, g) PROVE CopySound(SwipedOpening(news, g))
    BY <2>3, SwipedOpeningType, SwipedOpeningDated, SwipedOpeningBooks
       DEF CopySound, CanSwipeOpening
  <2> QED
    BY <1>1, <2>1, <2>2, <2>3
<1>3. ASSUME EndSwipe PROVE SwipeInv'
  BY <1>3 DEF EndSwipe, PublishSwipe, RevertSwipe, DropSwipe, SwipeInv
<1>4. ASSUME UNCHANGED swiping PROVE SwipeInv'
  BY <1>4 DEF swiping, SwipeInv
<1> QED
  BY <1>2, <1>3, <1>4, SwipingSteps

\* Whatever replaces the aggregate at the end of a swipe is sound.
LEMMA NextAggregate ==
    TypeInv /\ Chronicle /\ Books /\ SwipeInv /\ [TableNext]_allVars
       => TypeInv' /\ Chronicle' /\ Books'
<1> SUFFICES ASSUME TypeInv, Chronicle, Books, SwipeInv, [TableNext]_allVars
             PROVE  TypeInv' /\ Chronicle' /\ Books'
  OBVIOUS
<1>1. ASSUME NEW c, CopySound(c), Publish(c), rewinds' \in Nat, aborts' \in Nat
      PROVE  TypeInv' /\ Chronicle' /\ Books'
  <2>1. Books'
    BY <1>1 DEF CopySound, Publish, Books
  <2> QED
    BY <1>1, <2>1, PublishType, PublishChronicle DEF CopySound
<1>2. ASSUME PublishSwipe \/ RevertSwipe PROVE TypeInv' /\ Chronicle' /\ Books'
  <2>1. rewinds' \in Nat /\ aborts' \in Nat
    BY <1>2 DEF PublishSwipe, RevertSwipe, bounds, TypeInv, TypeOK
  <2>2. \E c : CopySound(c) /\ Publish(c)
    BY <1>2 DEF PublishSwipe, RevertSwipe, SwipeInv
  <2> QED
    BY <1>1, <2>1, <2>2
<1> QED
  BY <1>2, TableSteps, UnguardedType, UnguardedChronicle, UnguardedBooks

LEMMA NextTasks ==
    TypeInv /\ TypeInv' /\ TasksInv /\ SwipeInv /\ [TableNext]_allVars => TasksInv'
<1> SUFFICES ASSUME TypeInv, TypeInv', TasksInv, SwipeInv, [TableNext]_allVars PROVE TasksInv'
  OBVIOUS
<1> USE DEF TasksInv
<1>0. "planning" \in Stages /\ "calling" \in Stages /\ "replanning" \in Stages
      /\ "locked planning" \in Stages /\ "telling" \in Stages
  BY DEF Stages
<1>flags. ASSUME \/ (prepared' = FALSE /\ luck' = FALSE)
                 \/ (prepared' = prepared /\ luck' = FALSE)
                 \/ (prepared' = prepared /\ luck' = luck)
       PROVE  prepared' \in BOOLEAN /\ luck' \in BOOLEAN /\ (luck' => prepared')
  <2>1. prepared \in BOOLEAN /\ luck \in BOOLEAN /\ (luck => prepared)
    OBVIOUS
  <2>2. CASE prepared' = FALSE /\ luck' = FALSE
    BY <2>2
  <2>3. CASE prepared' = prepared /\ luck' = FALSE
    BY <2>1, <2>3
  <2>4. CASE prepared' = prepared /\ luck' = luck
    BY <2>1, <2>4
  <2> QED
    BY <1>flags, <2>2, <2>3, <2>4
<1>1. ASSUME NEW t \in Tasks, Advance(t) \/ Resume(t) PROVE TasksInv'
  <2>1. \A stage \in Stages : Entering(stage, proposals) \in Task
    BY EnteringType
  <2>2. \E k \in Task : task' = [task EXCEPT ![t] = k]
    BY <1>0, <1>1, <2>1 DEF Advance, Resume
  <2>3. (prepared' = FALSE /\ luck' = FALSE) \/ (prepared' = prepared /\ luck' = luck)
    BY <1>1 DEF Advance, Resume
  <2>4. prepared' \in BOOLEAN /\ luck' \in BOOLEAN /\ (luck' => prepared')
    BY <1>flags, <2>3
  <2> QED
    BY <2>2, <2>4
<1>2. ASSUME NEW t \in Tasks, PlanOutcome(t)
      PROVE  prepared' \in BOOLEAN /\ luck' \in BOOLEAN /\ (luck' => prepared')
  BY <1>2 DEF PlanOutcome
<1>3. ASSUME NEW t \in Tasks, Plan(t) PROVE TasksInv'
  <2>1. task' = [task EXCEPT ![t].stage = "calling"] /\ PlanOutcome(t)
    BY <1>3 DEF Plan
  <2>2. [task[t] EXCEPT !.stage = "calling"] \in Task
    BY <1>0 DEF Task
  <2> QED
    BY <1>2, <2>1, <2>2
<1>4. ASSUME NEW t \in Tasks, Call(t) PROVE TasksInv'
  BY <1>0, <1>4, IdleType, EnteringType DEF Call
<1>5. ASSUME NEW t \in Tasks, Replan(t) PROVE TasksInv'
  <2>1. PlanOutcome(t) /\ \E k \in Task : task' = [task EXCEPT ![t] = k]
    BY <1>0, <1>5, IdleType, EnteringNext DEF Replan
  <2> QED
    BY <1>2, <2>1
<1>6. ASSUME NEW t \in Tasks, LockedPlan(t) PROVE TasksInv'
  <2>1. PlanOutcome(t) /\ \E k \in Task : task' = [task EXCEPT ![t] = k]
    BY <1>0, <1>6, EnteringNext DEF LockedPlan
  <2> QED
    BY <1>2, <2>1
<1>7. ASSUME NEW t \in Tasks, NEW news \in Responses, NEW g \in Groups \cup {None},
             Commit(t, news, g)
      PROVE  TasksInv'
  BY <1>7, IdleType DEF Commit
<1>8. ASSUME NEW t \in Tasks, Discard(t) \/ Fail(t) PROVE TasksInv'
  <2>1. task' = [task EXCEPT ![t] = Idle]
    BY <1>8 DEF Discard, Fail
  <2>2. (prepared' = FALSE /\ luck' = FALSE) \/ (prepared' = prepared /\ luck' = luck)
    BY <1>8 DEF Discard, Fail
  <2>3. prepared' \in BOOLEAN /\ luck' \in BOOLEAN /\ (luck' => prepared')
    BY <1>flags, <2>2
  <2> QED
    BY <2>1, <2>3, IdleType
<1>9. ASSUME Restart PROVE TasksInv'
  BY <1>9, IdleType DEF Restart
<1>10. ASSUME DecideLuck \/ Manage \/ Drain \/ Rollback \/ StageSwipe \/ DropSwipe
       PROVE  TasksInv'
  <2>1. UNCHANGED task
    BY <1>10 DEF DecideLuck, Manage, Drain, Rollback, StageSwipe, BeginSwipe, DropSwipe, table
  <2>2. (luck' = FALSE /\ prepared' = prepared) \/ (luck' = FALSE /\ prepared' = FALSE)
        \/ (prepared' = prepared /\ luck' = luck)
    BY <1>10 DEF DecideLuck, Manage, Drain, Rollback, StageSwipe, BeginSwipe, DropSwipe, table
  <2>3. prepared' \in BOOLEAN /\ luck' \in BOOLEAN /\ (luck' => prepared')
    BY <1>flags, <2>2
  <2> QED
    BY <2>1, <2>3
<1>11. ASSUME PublishSwipe \/ RevertSwipe PROVE TasksInv'
  BY <1>11 DEF PublishSwipe, RevertSwipe, SwipeInv
<1>12. ASSUME UNCHANGED allVars PROVE TasksInv'
  BY <1>12 DEF allVars, table
<1> QED
  BY <1>1, <1>3, <1>4, <1>5, <1>6, <1>7, <1>8, <1>9, <1>10, <1>11, <1>12
     DEF TableNext, Progress, EndSwipe

\* All of it together.
TableInv == TypeInv /\ Chronicle /\ Books /\ TasksInv /\ SwipeInv

LEMMA InitTable == TableInit => TableInv
BY InitTasks, InitChronicle, InitBooks DEF TableInit, TableInv

LEMMA NextTable == TableInv /\ [TableNext]_allVars => TableInv'
BY NextAggregate, NextTasks, NextSwipe DEF TableInv

(***************************************************************************)
(* However the coroutines interleave, with each other and with a swipe,    *)
(* the aggregate, its copies and the records keep their shape, and luck is *)
(* awaited of a prepared round only.                                       *)
(***************************************************************************)
THEOREM TableTypes == TableSpec => []TableTypeOK
<1>1. TableInv => TableTypeOK
  BY DEF TableInv, TypeInv, TasksInv, SwipeInv, CopySound, CopyType, TableTypeOK
<1> QED
  BY <1>1, InitTable, NextTable, PTL DEF TableSpec

(***************************************************************************)
(* Two coroutines that plan, narrate and record the same round, outside    *)
(* the gate, with settlements, failures and rollbacks between any two of   *)
(* their steps, and swipes that undo what they did meanwhile, never make   *)
(* the ledger disagree with the offers.                                    *)
(***************************************************************************)
THEOREM OverlappingRoundsKeepBooks == TableSpec => []LedgerMatchesProposals
<1>1. TableInv => LedgerMatchesProposals
  BY BooksGive DEF TableInv
<1> QED
  BY <1>1, InitTable, NextTable, PTL DEF TableSpec

----------------------------------------------------------------------------
(***************************************************************************)
(* Every coroutine in the gate.                                            *)
(*                                                                         *)
(* The refinement mapping first.  Outside a swipe the outbox is taken as   *)
(* it is, so that a step of Economy is one of the mapped Economy: one fact *)
(* per action, each a matter of expanding it on both sides.                *)
(***************************************************************************)

Same == SeenOutbox = outbox

\* The instance has the library's operators under names of its own.
LEMMA SameLibrary ==
    ASSUME NEW S
    PROVE  Atomic!Cardinality(S) = Cardinality(S) /\ Atomic!SetToSeq(S) = SetToSeq(S)
<1>1. \A T : Atomic!Cardinality(T) = Cardinality(T)
  BY DEF Cardinality, Atomic!Cardinality
<1>2. Atomic!SetToSeq(S) = SetToSeq(S)
  BY <1>1, Zenon DEF SetToSeq, Atomic!SetToSeq, IsInjective, Atomic!IsInjective
<1> QED
  BY <1>1, <1>2

LEMMA SameReading ==
    ASSUME Same
    PROVE  /\ Atomic!Known = Known
           /\ \A s : Atomic!WithStatus(s) = WithStatus(s)
           /\ Atomic!BlockingDecision <=> BlockingDecision
BY DEF Same, Atomic!Known, Known, Atomic!WithStatus, WithStatus, Atomic!BlockingDecision,
   BlockingDecision, Atomic!NonblockingPurchase, NonblockingPurchase

\* A decision about an offer.
LEMMA SameDecisions ==
    ASSUME Same, Same', NEW o, NEW a,
           PayDeposit(o, a) \/ Settle(o, a) \/ RejectForFunds(o, a) \/ Refuse(o, a)
    PROVE  \/ Atomic!PayDeposit(o, a) \/ Atomic!Settle(o, a)
           \/ Atomic!RejectForFunds(o, a) \/ Atomic!Refuse(o, a)
<1> USE DEF Same, progress, Atomic!progress, bounds, Atomic!bounds, WithStatus, Atomic!WithStatus,
            Known, Atomic!Known, MayAccept, Atomic!MayAccept, Due, Atomic!Due,
            IsCharge, Atomic!IsCharge
<1>1. ASSUME NEW s, Decide(o, s) PROVE Atomic!Decide(o, s)
  BY <1>1 DEF Decide, Atomic!Decide, SettledGroups, Atomic!SettledGroups, WithMemory,
     Atomic!WithMemory, Released, Atomic!Released
<1>2. ASSUME PayDeposit(o, a) PROVE Atomic!PayDeposit(o, a)
  BY <1>2 DEF PayDeposit, Atomic!PayDeposit, Booked, Atomic!Booked, Receipt, Atomic!Receipt
<1>3. ASSUME Settle(o, a) PROVE Atomic!Settle(o, a)
  BY <1>1, <1>3 DEF Settle, Atomic!Settle, Booked, Atomic!Booked, Receipt, Atomic!Receipt,
     Released, Atomic!Released, WithEffects, Atomic!WithEffects
<1>4. ASSUME RejectForFunds(o, a) PROVE Atomic!RejectForFunds(o, a)
  BY <1>1, <1>4 DEF RejectForFunds, Atomic!RejectForFunds
<1>5. ASSUME Refuse(o, a) PROVE Atomic!Refuse(o, a)
  BY <1>1, <1>5 DEF Refuse, Atomic!Refuse, MayRefuse, Atomic!MayRefuse
<1> QED
  BY <1>2, <1>3, <1>4, <1>5

\* The other operations of the settlement service.
LEMMA SameService ==
    ASSUME Same, Same'
    PROVE  /\ \A o, c : QueueCharge(o, c) => Atomic!QueueCharge(o, c)
           /\ \A u : DeleteCharacter(u) => Atomic!DeleteCharacter(u)
           /\ \A done : DeliverMemory(done) => Atomic!DeliverMemory(done)
<1> USE DEF Same, progress, Atomic!progress, bounds, Atomic!bounds
<1>1. ASSUME NEW o, NEW c, QueueCharge(o, c) PROVE Atomic!QueueCharge(o, c)
  BY <1>1 DEF QueueCharge, Atomic!QueueCharge, QueueOffer, Atomic!QueueOffer, Known, Atomic!Known,
     IsCharge, Atomic!IsCharge, NewProposal, Atomic!NewProposal
<1>2. ASSUME NEW u, DeleteCharacter(u) PROVE Atomic!DeleteCharacter(u)
  <2>1. /\ Atomic!WithStatus("pending") = WithStatus("pending")
        /\ \A txs, o, stages : Atomic!Committed(txs, o, stages) = Committed(txs, o, stages)
        /\ \A o : Atomic!Refund(o) = Refund(o)
    BY SameReading DEF Atomic!Committed, Committed, Atomic!Refund, Refund
  <2> DEFINE gone    == {o \in WithStatus("pending") : proposals[o].terms.uid = u}
             refunds == {Refund(o) : o \in {p \in gone :
                            /\ proposals[p].stage = "deposit_paid"
                            /\ Committed(transactions, p, {"deposit"}) # {}}}
             goneA    == {o \in Atomic!WithStatus("pending") : proposals[o].terms.uid = u}
             refundsA == {Atomic!Refund(o) : o \in {p \in goneA :
                            /\ proposals[p].stage = "deposit_paid"
                            /\ Atomic!Committed(transactions, p, {"deposit"}) # {}}}
             Deletes(leavers, back) ==
                /\ u \in seated /\ seated # {u}
                /\ seated' = seated \ {u}
                /\ sheets' = [sheets EXCEPT !.gold[u] = 0, !.bag[u] = {}]
                /\ proposals' = [o \in Offers |-> IF o \in leavers
                                      THEN [proposals[o] EXCEPT !.status = "cancelled"]
                                      ELSE proposals[o]]
                /\ groups' = [g \in Groups |->
                                IF /\ groups[g] # None
                                   /\ groups[g].status = "pending"
                                   /\ groups[g].members \cap leavers # {}
                                THEN [groups[g] EXCEPT !.status = "discarded"]
                                ELSE groups[g]]
                /\ transactions' = transactions \o SetToSeq(back)
  <2>2. goneA = gone /\ refundsA = refunds
    BY <2>1
  <2>3. Deletes(gone, refunds)
    BY <1>2, Zenon DEF DeleteCharacter
  <2>4. UNCHANGED <<phase, round, log, startSnapshot, SeenOutbox, Atomic!bounds>>
    BY <1>2 DEF DeleteCharacter
  <2>5. Atomic!SetToSeq(refundsA) = SetToSeq(refundsA)
    BY SameLibrary, Zenon
  <2>6. Deletes(goneA, refundsA) => Atomic!DeleteCharacter(u)
    BY <2>4, <2>5, Zenon DEF Atomic!DeleteCharacter
  <2> HIDE DEF gone, refunds, goneA, refundsA, Deletes
  <2> QED
    BY <2>2, <2>3, <2>6
<1>3. ASSUME NEW done, DeliverMemory(done) PROVE Atomic!DeliverMemory(done)
  BY <1>3 DEF DeliverMemory, Atomic!DeliverMemory
<1> QED
  BY <1>1, <1>2, <1>3

\* The course of a round.
LEMMA SameRounds ==
    ASSUME Same, Same'
    PROVE  /\ BeginJudgment => Atomic!BeginJudgment
           /\ AbortJudgment => Atomic!AbortJudgment
           /\ RecoverJudgment => Atomic!RecoverJudgment
           /\ ResumeGame => Atomic!ResumeGame
           /\ \A news, g : FinishJudgment(news, g) => Atomic!FinishJudgment(news, g)
<1> USE SameReading DEF Same, ledger, Atomic!ledger, bounds, Atomic!bounds
<1>1. BeginJudgment => Atomic!BeginJudgment
  BY DEF BeginJudgment, Atomic!BeginJudgment
<1>2. AbortJudgment => Atomic!AbortJudgment
  BY DEF AbortJudgment, Atomic!AbortJudgment, Restored, Atomic!Restored
<1>3. /\ RecoverJudgment => Atomic!RecoverJudgment
      /\ ResumeGame => Atomic!ResumeGame
  BY DEF RecoverJudgment, Atomic!RecoverJudgment, ResumeGame, Atomic!ResumeGame
<1>4. ASSUME NEW news, NEW g, FinishJudgment(news, g) PROVE Atomic!FinishJudgment(news, g)
  BY <1>4 DEF FinishJudgment, Atomic!FinishJudgment, RecordRound, Atomic!RecordRound,
     Fresh, Atomic!Fresh, Known, Atomic!Known, WithRewards, Atomic!WithRewards,
     WithGroup, Atomic!WithGroup, NewProposal, Atomic!NewProposal
<1> QED
  BY <1>1, <1>2, <1>3, <1>4

LEMMA SameRollback == ASSUME Same, Same', RollbackLastRound PROVE Atomic!RollbackLastRound
BY DEF Same, RollbackLastRound, Atomic!RollbackLastRound, RewoundSheets, Atomic!RewoundSheets,
   Reconciled, Atomic!Reconciled, Restored, Atomic!Restored, FirstOf, Atomic!FirstOf,
   RewoundOutbox, Atomic!RewoundOutbox, RewoundGroups, Atomic!RewoundGroups,
   GroupIn, Atomic!GroupIn, RewoundProposals, Atomic!RewoundProposals,
   RewoundProposal, Atomic!RewoundProposal, Known, Atomic!Known, OriginIn, Atomic!OriginIn,
   SettledIn, Atomic!SettledIn, Resynced, Atomic!Resynced, Committed, Atomic!Committed,
   ReversedLedger, Atomic!ReversedLedger

\* What a swipe stages from the aggregate, and under which conditions, is what
\* the mapped Economy would make of it.
LEMMA SameSwipe ==
    ASSUME UNCHANGED <<vars, SeenOutbox>>, Same, NEW i, NEW news, NEW g
    PROVE  /\ CanSwipe(i, news, g) => Atomic!CanSwipe(i, news, g)'
           /\ CanSwipeOpening(news, g) => Atomic!CanSwipeOpening(news, g)'
           /\ Atomic!Swiped(i, news, g)' = Swiped(i, news, g)
           /\ Atomic!SwipedOpening(news, g)' = SwipedOpening(news, g)
<1> USE DEF Same, vars, Fresh, Atomic!Fresh, Known, Atomic!Known, progress, ledger, bounds
<1>1. CanSwipe(i, news, g) => Atomic!CanSwipe(i, news, g)'
  BY DEF CanSwipe, Atomic!CanSwipe
<1>2. CanSwipeOpening(news, g) => Atomic!CanSwipeOpening(news, g)'
  BY DEF CanSwipeOpening, Atomic!CanSwipeOpening
<1>3. Atomic!Swiped(i, news, g)' = Swiped(i, news, g)
  <2>0. ASSUME NEW r
        PROVE  /\ Atomic!OriginIn(r)' = OriginIn(r)
               /\ Atomic!SettledIn(r)' = SettledIn(r)
    BY DEF OriginIn, Atomic!OriginIn, SettledIn, Atomic!SettledIn
  <2>1. ASSUME NEW r PROVE Atomic!ReversedLedger(r)' = ReversedLedger(r)
    BY <2>0 DEF ReversedLedger, Atomic!ReversedLedger
  <2>6. ASSUME NEW r PROVE Atomic!BranchCut(r)' = BranchCut(r)
    BY SameLibrary, Zenon DEF BranchCut, Atomic!BranchCut
  <2>2. ASSUME NEW r PROVE Atomic!RewoundProposals(r)' = RewoundProposals(r)
    BY <2>0, <2>1 DEF RewoundProposals, Atomic!RewoundProposals, RewoundProposal,
       Atomic!RewoundProposal, Resynced, Atomic!Resynced, Committed, Atomic!Committed
  <2>3. ASSUME NEW r
        PROVE  /\ Atomic!RewoundGroups(r)' = RewoundGroups(r)
               /\ Atomic!RewoundOutbox(r)' = RewoundOutbox(r)
    BY DEF RewoundGroups, Atomic!RewoundGroups, RewoundOutbox, Atomic!RewoundOutbox,
       GroupIn, Atomic!GroupIn
  <2>4. ASSUME NEW r, NEW snap PROVE Atomic!RewoundSheets(r, snap)' = RewoundSheets(r, snap)
    <3>1. Atomic!Reconciled(snap, r, ReversedLedger(r)) = Reconciled(snap, r, ReversedLedger(r))
      BY DEF Reconciled, Atomic!Reconciled, FirstOf, Atomic!FirstOf
    <3>2. \A image : Atomic!Restored(image)' = Restored(image)
      BY DEF Restored, Atomic!Restored
    <3>3. Atomic!RewoundSheets(r, snap)'
             = IF snap = None THEN sheets'
               ELSE Atomic!Restored(Atomic!Reconciled(snap, r, Atomic!ReversedLedger(r)))'
      BY Zenon DEF Atomic!RewoundSheets
    <3>4. Atomic!Restored(Atomic!Reconciled(snap, r, Atomic!ReversedLedger(r)))'
             = Restored(Reconciled(snap, r, ReversedLedger(r)))
      <4>1. ASSUME NEW txs, Atomic!ReversedLedger(r)' = txs
            PROVE  Atomic!Reconciled(snap, r, Atomic!ReversedLedger(r))'
                      = Atomic!Reconciled(snap, r, txs)
        BY <4>1, Zenon DEF Atomic!Reconciled
      <4>2. Atomic!Reconciled(snap, r, Atomic!ReversedLedger(r))'
               = Reconciled(snap, r, ReversedLedger(r))
        BY <2>1, <3>1, <4>1
      <4> QED
        BY <3>2, <4>2 DEF Restored, Atomic!Restored
    <3> QED
      BY <3>3, <3>4 DEF RewoundSheets
  <2>5. ASSUME NEW props, NEW gs, NEW r
        PROVE  /\ Atomic!WithRewards(props, news, g, r) = WithRewards(props, news, g, r)
               /\ Atomic!WithGroup(gs, news, g, r) = WithGroup(gs, news, g, r)
    BY DEF WithRewards, Atomic!WithRewards, WithGroup, Atomic!WithGroup,
       NewProposal, Atomic!NewProposal
  <2> QED
    BY <2>1, <2>2, <2>3, <2>4, <2>5, <2>6 DEF Swiped, Atomic!Swiped
<1>4. Atomic!SwipedOpening(news, g)' = SwipedOpening(news, g)
  BY DEF SwipedOpening, Atomic!SwipedOpening, Aggregate, Atomic!Aggregate,
     WithRewards, Atomic!WithRewards, WithGroup, Atomic!WithGroup, NewProposal, Atomic!NewProposal
<1> QED
  BY <1>1, <1>2, <1>3, <1>4

\* And so it stays while nothing the mapped Economy sees changes.
LEMMA SwipeStays ==
    ASSUME UNCHANGED Atomic!vars, NEW i, NEW news, NEW g
    PROVE  /\ Atomic!CanSwipe(i, news, g) => Atomic!CanSwipe(i, news, g)'
           /\ Atomic!CanSwipeOpening(news, g) => Atomic!CanSwipeOpening(news, g)'
           /\ Atomic!Swiped(i, news, g)' = Atomic!Swiped(i, news, g)
           /\ Atomic!SwipedOpening(news, g)' = Atomic!SwipedOpening(news, g)
<1> USE DEF Atomic!vars, Atomic!progress, Atomic!ledger, Atomic!bounds, Atomic!Fresh, Atomic!Known
<1>1. /\ Atomic!CanSwipe(i, news, g) => Atomic!CanSwipe(i, news, g)'
      /\ Atomic!CanSwipeOpening(news, g) => Atomic!CanSwipeOpening(news, g)'
  BY DEF Atomic!CanSwipe, Atomic!CanSwipeOpening
<1>2. Atomic!Swiped(i, news, g)' = Atomic!Swiped(i, news, g)
  <2>1. ASSUME NEW r
        PROVE  /\ Atomic!ReversedLedger(r)' = Atomic!ReversedLedger(r)
               /\ Atomic!BranchCut(r)' = Atomic!BranchCut(r)
    BY DEF Atomic!ReversedLedger, Atomic!SettledIn, Atomic!OriginIn, Atomic!BranchCut
  <2>2. ASSUME NEW r PROVE Atomic!RewoundProposals(r)' = Atomic!RewoundProposals(r)
    BY DEF Atomic!RewoundProposals, Atomic!RewoundProposal, Atomic!OriginIn, Atomic!SettledIn,
       Atomic!Resynced, Atomic!Committed, Atomic!ReversedLedger
  <2>3. ASSUME NEW r
        PROVE  /\ Atomic!RewoundGroups(r)' = Atomic!RewoundGroups(r)
               /\ Atomic!RewoundOutbox(r)' = Atomic!RewoundOutbox(r)
    BY DEF Atomic!RewoundGroups, Atomic!RewoundOutbox, Atomic!GroupIn
  <2>4. ASSUME NEW r, NEW snap
        PROVE  Atomic!RewoundSheets(r, snap)' = Atomic!RewoundSheets(r, snap)
    BY DEF Atomic!RewoundSheets, Atomic!Reconciled, Atomic!Restored, Atomic!FirstOf,
       Atomic!ReversedLedger, Atomic!SettledIn, Atomic!OriginIn
  <2> QED
    BY <2>1, <2>2, <2>3, <2>4
       DEF Atomic!Swiped, Atomic!WithRewards, Atomic!WithGroup, Atomic!NewProposal
<1>3. Atomic!SwipedOpening(news, g)' = Atomic!SwipedOpening(news, g)
  BY DEF Atomic!SwipedOpening, Atomic!Aggregate, Atomic!WithRewards, Atomic!WithGroup,
     Atomic!NewProposal
<1> QED
  BY <1>1, <1>2, <1>3

\* The steps of Economy but for the swipes.
PlainNext ==
    \/ \E o \in Offers, t \in Terms : QueueCharge(o, t)
    \/ Decision
    \/ \E u \in Players : DeleteCharacter(u)
    \/ \E done \in SUBSET Groups : DeliverMemory(done)
    \/ BeginJudgment
    \/ \E news \in Responses, g \in Groups \cup {None} : FinishJudgment(news, g)
    \/ AbortJudgment
    \/ RecoverJudgment
    \/ RollbackLastRound

LEMMA SameNext == ASSUME Same, Same', [PlainNext]_vars PROVE [Atomic!Next]_(Atomic!vars)
<1>1. CASE UNCHANGED vars
  BY <1>1 DEF Same, vars, progress, ledger, bounds, Atomic!vars, Atomic!progress, Atomic!ledger,
     Atomic!bounds
<1>2. CASE Decision
  BY <1>2, SameDecisions DEF Decision, Actors, Atomic!Next, Atomic!Decision, Atomic!Actors
<1>3. CASE \E news \in Responses, g \in Groups \cup {None} : FinishJudgment(news, g)
  BY <1>3, SameRounds DEF Responses, Atomic!Next, Atomic!Responses
<1>4. CASE \/ \E o \in Offers, t \in Terms : QueueCharge(o, t)
           \/ \E u \in Players : DeleteCharacter(u)
           \/ \E done \in SUBSET Groups : DeliverMemory(done)
  BY <1>4, SameService DEF Atomic!Next
<1>5. CASE BeginJudgment \/ AbortJudgment \/ RecoverJudgment
  BY <1>5, SameRounds DEF Atomic!Next
<1>6. CASE RollbackLastRound
  BY <1>6, SameRollback DEF Atomic!Next, Atomic!Rewind
<1> QED
  BY <1>1, <1>2, <1>3, <1>4, <1>5, <1>6 DEF PlainNext

LEMMA SameInit == TableInit => Atomic!Init
<1> SUFFICES ASSUME TableInit PROVE Atomic!Init
  OBVIOUS
<1>1. SeenOutbox = outbox
  BY DEF TableInit, SeenOutbox
<1> QED
  BY <1>1 DEF TableInit, Init, Atomic!Init, Openings, Atomic!Openings, Responses,
     Atomic!Responses, WithRewards, Atomic!WithRewards, WithGroup, Atomic!WithGroup,
     NewProposal, Atomic!NewProposal

Working(t) == task[t].stage # "idle"

\* At most one is at work, on a judgment that nothing blocks, and no rewind
\* came between.
Alone       == \A t, u \in Tasks : Working(t) /\ Working(u) => t = u
Undisturbed == \A t \in Tasks : Working(t) =>
                  phase = "judgment" /\ ~BlockingDecision /\ task[t].born = rewinds

\* The purchase a planning offers to a player blocks nothing.
LEMMA QuotesDoNotBlock ==
    ASSUME TypeInv, NEW o \in Offers, NEW c \in Terms, c.kind = "purchase", QueueOffer(o, c),
           ~BlockingDecision
    PROVE  ~BlockingDecision'
<1>1. /\ proposals \in ProposalMap /\ proposals' = [proposals EXCEPT ![o] = NewProposal(c, None, round)]
      /\ UNCHANGED <<groups, outbox>>
  BY DEF QueueOffer, TypeInv, TypeOK, ProposalMap
<1>2. proposals'[o].terms.kind = "purchase" /\ proposals'[o].group = None
  BY <1>1 DEF NewProposal, ProposalMap
<1>3. \A p \in Offers \ {o} : proposals'[p] = proposals[p]
  BY <1>1 DEF ProposalMap
<1>4. \A p \in WithStatus("pending")' : NonblockingPurchase(p)'
  BY <1>2, <1>3 DEF BlockingDecision, WithStatus, Known, NonblockingPurchase
<1> QED
  BY <1>1, <1>4 DEF BlockingDecision

\* Nor does a drain bring a decision about.
LEMMA DrainsDoNotBlock ==
    ASSUME NEW done \in SUBSET Groups, DeliverMemory(done), ~BlockingDecision
    PROVE  ~BlockingDecision'
<1>1. UNCHANGED <<proposals, groups>>
  BY DEF DeliverMemory
<1>2. \A g \in Groups : outbox'[g] \in {"pending", "reversal_pending"} => outbox'[g] = outbox[g]
  BY DEF DeliverMemory
<1> QED
  BY <1>1, <1>2 DEF BlockingDecision, WithStatus, Known, NonblockingPurchase

LEMMA PlanOutcomeAtomic ==
    ASSUME TypeInv, NEW t \in Tasks, PlanOutcome(t), phase = "judgment", ~BlockingDecision
    PROVE  /\ [PlainNext]_vars
           /\ phase' = "judgment" /\ ~BlockingDecision' /\ UNCHANGED rewinds
<1>1. CASE UNCHANGED vars
  BY <1>1 DEF vars, progress, ledger, bounds, BlockingDecision, WithStatus, Known,
     NonblockingPurchase
<1>2. ASSUME NEW o \in Offers, NEW c \in Terms, c.kind = "purchase", QueueOffer(o, c)
      PROVE  /\ PlainNext
             /\ phase' = "judgment" /\ ~BlockingDecision' /\ UNCHANGED rewinds
  <2>1. QueueCharge(o, c)
    BY <1>2 DEF QueueCharge
  <2> QED
    BY <1>2, <2>1, QuotesDoNotBlock DEF PlainNext, QueueOffer, progress, bounds
<1> QED
  BY <1>1, <1>2, PlanOutcomeSteps

(***************************************************************************)
(* While a swipe is under way nobody is at work, and of the aggregate only *)
(* the outbox moves: what was pending is delivered or taken back, and not  *)
(* delivered while anything is left to be taken back.  The copy remains    *)
(* what the mapped Economy would make of the table in one step.            *)
(***************************************************************************)
Quiet ==
    swipe # None =>
        /\ \A t \in Tasks : ~Working(t)
        /\ swipe.before = [Aggregate EXCEPT !.outbox = SeenOutbox]

Drained ==
    /\ \A g \in Groups : outbox[g] # SeenOutbox[g] =>
          \/ SeenOutbox[g] = "pending" /\ outbox[g] = "delivered"
          \/ SeenOutbox[g] = "reversal_pending" /\ outbox[g] = "reversed"
    /\ \A g, h \in Groups :
          SeenOutbox[g] = "pending" /\ outbox[g] # SeenOutbox[g]
          /\ SeenOutbox[h] = "reversal_pending" => outbox[h] # SeenOutbox[h]

Promised ==
    swipe # None =>
        \E news \in Responses, g \in Groups \cup {None} :
            \/ \E i \in DOMAIN log : Atomic!CanSwipe(i, news, g)
                                    /\ swipe.after = Atomic!Swiped(i, news, g)
            \/ Atomic!CanSwipeOpening(news, g)
               /\ swipe.after = Atomic!SwipedOpening(news, g)

GateInv == Alone /\ Undisturbed /\ Quiet /\ Drained /\ Promised

LEMMA Copied ==
    ASSUME NEW c, BeginSwipe(c)
    PROVE  /\ swipe'.before = Aggregate /\ swipe'.after = c
           /\ UNCHANGED <<vars, task>> /\ AuthorityFree
BY DEF BeginSwipe

\* A swipe begins.
LEMMA GateBegin ==
    ASSUME Gated = Tasks, StageSwipe PROVE GateInv' /\ UNCHANGED Atomic!vars
<1>1. PICK news \in Responses, g \in Groups \cup {None} :
         \/ \E i \in DOMAIN log : CanSwipe(i, news, g) /\ BeginSwipe(Swiped(i, news, g))
         \/ CanSwipeOpening(news, g) /\ BeginSwipe(SwipedOpening(news, g))
  BY DEF StageSwipe
<1>2. /\ swipe'.before = Aggregate /\ UNCHANGED <<vars, task>>
      /\ swipe = None /\ \A t \in Tasks : ~Working(t)
  BY <1>1, Copied, Zenon DEF AuthorityFree, Working
<1>3. Same /\ UNCHANGED SeenOutbox
  BY <1>2 DEF Same, SeenOutbox, Aggregate, vars, ledger
<1>4. Alone' /\ Undisturbed' /\ Drained'
  BY <1>2, <1>3 DEF Alone, Undisturbed, Working, Drained, Same, vars, ledger
<1>5. Quiet'
  BY <1>2, <1>3 DEF Quiet, Working, Same, Aggregate, vars, progress, ledger
<1>6. Promised'
  <2>1. UNCHANGED <<vars, SeenOutbox>> /\ UNCHANGED log
    BY <1>2, <1>3 DEF vars, progress
  <2>2. ASSUME NEW i \in DOMAIN log, CanSwipe(i, news, g), BeginSwipe(Swiped(i, news, g))
        PROVE  /\ Atomic!CanSwipe(i, news, g)'
               /\ swipe'.after = Atomic!Swiped(i, news, g)'
    BY <1>3, <2>1, <2>2, SameSwipe, Copied, Zenon
  <2>3. ASSUME CanSwipeOpening(news, g), BeginSwipe(SwipedOpening(news, g))
        PROVE  /\ Atomic!CanSwipeOpening(news, g)'
               /\ swipe'.after = Atomic!SwipedOpening(news, g)'
    BY <1>3, <2>1, <2>3, SameSwipe, Copied, Zenon
  <2> QED
    BY <1>1, <2>1, <2>2, <2>3 DEF Promised
<1> QED
  BY <1>2, <1>3, <1>4, <1>5, <1>6 DEF GateInv, vars, progress, ledger, bounds, Atomic!vars,
     Atomic!progress, Atomic!ledger, Atomic!bounds

\* What can happen before it ends.
LEMMA SwipeGoesOn ==
    ASSUME Gated = Tasks, GateInv, [TableNext]_allVars, swipe # None
    PROVE  EndSwipe \/ DecideLuck \/ Drain \/ UNCHANGED allVars
<1>1. ~AuthorityFree /\ \A t \in Tasks : task[t].stage = "idle"
  BY DEF GateInv, Quiet, Working, AuthorityFree
<1>2. ASSUME NEW t \in Tasks PROVE ~(Advance(t) \/ Resume(t) \/ Progress(t) \/ Fail(t))
  BY <1>1 DEF Advance, Resume, Progress, Plan, Call, Replan, LockedPlan, Commit, Discard, Fail
<1>3. ~(Restart \/ Manage \/ Rollback \/ StageSwipe)
  BY <1>1 DEF Restart, Manage, Rollback, StageSwipe, BeginSwipe
<1> QED
  BY <1>2, <1>3 DEF TableNext

\* Nothing of it is a step of the mapped Economy.
LEMMA GateDuring ==
    ASSUME TableInv, GateInv, swipe # None, DecideLuck \/ Drain \/ UNCHANGED allVars
    PROVE  GateInv' /\ UNCHANGED Atomic!vars
<1>1. /\ UNCHANGED <<swipe, task, phase, round, log, startSnapshot, seated, sheets>>
      /\ UNCHANGED <<proposals, transactions, groups, rewinds, aborts>>
  BY DEF DecideLuck, Drain, DeliverMemory, allVars, table, swiping, vars, progress, ledger, bounds
<1>2. UNCHANGED SeenOutbox
  BY <1>1 DEF SeenOutbox
<1>3. UNCHANGED Atomic!vars
  BY <1>1, <1>2 DEF Atomic!vars, Atomic!progress, Atomic!ledger, Atomic!bounds
<1>4. Alone' /\ Undisturbed' /\ Quiet'
  BY <1>1, <1>2 DEF GateInv, Alone, Undisturbed, Quiet, Working, Aggregate
<1>5. Promised'
  BY <1>1, <1>3, SwipeStays DEF GateInv, Promised
<1>6. Drained'
  <2>1. CASE UNCHANGED outbox
    BY <1>2, <2>1 DEF GateInv, Drained
  <2>2. CASE Drain
    <3>1. PICK done \in SUBSET Groups : DeliverMemory(done)
      BY <2>2 DEF Drain
    <3> DEFINE Moved(g) == outbox[g] # SeenOutbox[g]
    <3>2. ASSUME NEW g \in Groups
          PROVE  outbox'[g] = IF g \in done
                              THEN IF outbox[g] = "reversal_pending" THEN "reversed"
                                   ELSE "delivered"
                              ELSE outbox[g]
      BY <3>1 DEF DeliverMemory
    <3>3. ASSUME NEW g \in done
          PROVE  /\ outbox[g] \in {"pending", "reversal_pending"}
                 /\ outbox[g] = "pending" =>
                       \A h \in Groups : outbox[h] = "reversal_pending" => h \in done
      BY <3>1, <3>3 DEF DeliverMemory
    <3>4. Drained
      BY DEF GateInv
    <3>5. ASSUME NEW g \in Groups, outbox'[g] # SeenOutbox[g]
          PROVE  \/ SeenOutbox[g] = "pending" /\ outbox'[g] = "delivered"
                 \/ SeenOutbox[g] = "reversal_pending" /\ outbox'[g] = "reversed"
      BY <3>2, <3>3, <3>4, <3>5 DEF Drained
    <3>6. ASSUME NEW g \in Groups, NEW h \in Groups, outbox'[g] # SeenOutbox[g],
                 SeenOutbox[g] = "pending", SeenOutbox[h] = "reversal_pending"
          PROVE  outbox'[h] # SeenOutbox[h]
      <4>1. CASE outbox[h] # SeenOutbox[h]
        BY <3>2, <3>3, <3>4, <3>6, <4>1 DEF Drained
      <4>2. CASE outbox[h] = SeenOutbox[h]
        <5>1. outbox[g] = SeenOutbox[g]
          BY <3>4, <3>6, <4>2 DEF Drained
        <5>2. g \in done
          BY <3>2, <3>6, <5>1
        <5>3. h \in done
          BY <3>3, <3>6, <4>2, <5>1, <5>2
        <5> QED
          BY <3>2, <3>6, <4>2, <5>3
      <4> QED
        BY <4>1, <4>2
    <3> QED
      BY <1>2, <3>5, <3>6 DEF Drained
  <2> QED
    BY <2>1, <2>2 DEF DecideLuck, allVars, vars, ledger
<1> QED
  BY <1>3, <1>4, <1>5, <1>6 DEF GateInv

\* It ends: the copy is published, or what the drains have noted counts.
LEMMA GateEnd ==
    ASSUME TableInv, GateInv, EndSwipe
    PROVE  GateInv' /\ [Atomic!Next]_(Atomic!vars)
<1>1. swipe # None /\ swipe' = None /\ UNCHANGED task /\ SeenOutbox' = outbox'
  BY DEF EndSwipe, PublishSwipe, RevertSwipe, DropSwipe, SeenOutbox
<1>2. GateInv'
  BY <1>1 DEF GateInv, Alone, Undisturbed, Quiet, Drained, Promised, Working
<1>3. /\ swipe.before = [Aggregate EXCEPT !.outbox = SeenOutbox]
      /\ SeenOutbox = swipe.before.outbox
  BY <1>1 DEF GateInv, Quiet, SeenOutbox
<1>4. ASSUME PublishSwipe PROVE Atomic!Next
  <2>1. PICK news \in Responses, g \in Groups \cup {None} :
           \/ \E i \in DOMAIN log : Atomic!CanSwipe(i, news, g)
                                   /\ swipe.after = Atomic!Swiped(i, news, g)
           \/ Atomic!CanSwipeOpening(news, g) /\ swipe.after = Atomic!SwipedOpening(news, g)
    BY <1>1 DEF GateInv, Promised
  <2>2. Atomic!Publish(swipe.after) /\ rewinds' = rewinds + 1 /\ UNCHANGED aborts
    BY <1>1, <1>4 DEF PublishSwipe, Publish, Atomic!Publish
  <2>3. Responses = Atomic!Responses
    BY DEF Responses, Atomic!Responses
  <2>4. ASSUME NEW i \in DOMAIN log, Atomic!CanSwipe(i, news, g),
               swipe.after = Atomic!Swiped(i, news, g)
        PROVE  Atomic!SwipeRound(i, news, g)
    BY <2>2, <2>4 DEF Atomic!SwipeRound
  <2>5. ASSUME Atomic!CanSwipeOpening(news, g), swipe.after = Atomic!SwipedOpening(news, g)
        PROVE  Atomic!SwipeOpening(news, g)
    BY <2>2, <2>5 DEF Atomic!SwipeOpening
  <2>6. Atomic!Rewind
    BY <2>1, <2>3, <2>4, <2>5 DEF Atomic!Rewind
  <2> QED
    BY <2>6 DEF Atomic!Next
<1>5. ASSUME RevertSwipe PROVE UNCHANGED Atomic!vars
  BY <1>1, <1>3, <1>5 DEF RevertSwipe, Publish, Aggregate, bounds, Atomic!vars, Atomic!progress,
     Atomic!ledger, Atomic!bounds
<1>6. ASSUME DropSwipe PROVE [Atomic!Next]_(Atomic!vars)
  <2> DEFINE done      == {g \in Groups : outbox[g] # SeenOutbox[g]}
             reversals == {g \in Groups : SeenOutbox[g] = "reversal_pending"}
             pending   == {g \in Groups : SeenOutbox[g] = "pending"}
  <2>1. UNCHANGED vars /\ SeenOutbox' = outbox
    BY <1>1, <1>6 DEF DropSwipe, vars, ledger
  <2>2. Drained /\ outbox \in [Groups -> Delivery] /\ SeenOutbox \in [Groups -> Delivery]
    BY <1>1, <1>3 DEF GateInv, TableInv, TypeInv, TypeOK, SwipeInv, CopySound, CopyType, Copies
  <2>3. CASE done = {}
    <3>1. SeenOutbox = outbox
      BY <2>2, <2>3
    <3> QED
      BY <2>1, <3>1 DEF vars, progress, ledger, bounds, Atomic!vars, Atomic!progress,
         Atomic!ledger, Atomic!bounds
  <2>4. CASE done # {}
    <3>1. done \subseteq reversals \cup pending
      BY <2>2 DEF Drained
    <3>2. done \cap pending # {} => reversals \subseteq done
      BY <2>2 DEF Drained
    <3>3. SeenOutbox' = [g \in Groups |->
                            CASE g \in done /\ g \in reversals -> "reversed"
                              [] g \in done /\ g \in pending   -> "delivered"
                              [] OTHER                         -> SeenOutbox[g]]
      BY <2>1, <2>2 DEF Drained
    <3>4. Atomic!DeliverMemory(done)
      BY <2>1, <2>4, <3>1, <3>2, <3>3 DEF Atomic!DeliverMemory, vars, progress, ledger, bounds,
         Atomic!progress, Atomic!bounds
    <3>5. done \in SUBSET Groups
      OBVIOUS
    <3> HIDE DEF done
    <3> QED
      BY <3>4, <3>5 DEF Atomic!Next
  <2> QED
    BY <2>3, <2>4
<1> QED
  BY <1>2, <1>4, <1>5, <1>6 DEF EndSwipe

\* One step per action while there is no swipe: it is a step of Economy, and
\* leaves at most one coroutine at work, undisturbed.
LEMMA GatePlain ==
    ASSUME Gated = Tasks, TableInv, TypeInv', TasksInv', GateInv, [TableNext]_allVars,
           swipe = None
    PROVE  StageSwipe \/ ([PlainNext]_vars /\ Alone' /\ Undisturbed')
<1>0. TypeInv /\ TasksInv' /\ TasksInv /\ Alone /\ Undisturbed
  BY DEF TableInv, GateInv
<1> USE DEF Working
<1>1. AuthorityFree <=> \A t \in Tasks : ~Working(t)
  BY DEF AuthorityFree
<1>2. ASSUME NEW t \in Tasks, NEW k \in Task, task' = [task EXCEPT ![t] = k],
             \A u \in Tasks \ {t} : ~Working(u),
             k.stage # "idle" => phase' = "judgment" /\ ~BlockingDecision' /\ k.born = rewinds'
      PROVE  Alone' /\ Undisturbed'
  BY <1>0, <1>2 DEF TasksInv, Alone, Undisturbed
<1>3. ASSUME NEW t \in Tasks, Working(t)
      PROVE  /\ \A u \in Tasks \ {t} : ~Working(u)
             /\ phase = "judgment" /\ ~BlockingDecision /\ task[t].born = rewinds
  BY <1>0, <1>3 DEF Alone, Undisturbed
<1>4. UNCHANGED vars => (BlockingDecision' <=> BlockingDecision) /\ UNCHANGED <<phase, rewinds>>
  BY DEF vars, progress, ledger, bounds, BlockingDecision, WithStatus, Known, NonblockingPurchase
<1>5. ASSUME NEW t \in Tasks, Advance(t) PROVE PlainNext /\ Alone' /\ Undisturbed'
  <2>1. BeginJudgment /\ phase' = "judgment" /\ UNCHANGED rewinds /\ ~BlockingDecision'
    BY <1>5 DEF Advance, BeginJudgment, ledger, bounds, BlockingDecision, WithStatus, Known,
       NonblockingPurchase
  <2>2. /\ Entering("planning", proposals) \in Task
        /\ Entering("planning", proposals).born = rewinds
    BY <1>0, EnteringType DEF Entering, Stages
  <2> QED
    BY <1>1, <1>2, <1>5, <2>1, <2>2 DEF Advance, PlainNext
<1>6. ASSUME NEW t \in Tasks, Resume(t) PROVE UNCHANGED vars /\ Alone' /\ Undisturbed'
  <2> DEFINE k == Entering(IF prepared THEN "calling" ELSE "planning", proposals)
  <2>1. k \in Task /\ k.born = rewinds
    BY <1>0, EnteringType DEF Entering, Stages
  <2>2. /\ UNCHANGED vars /\ phase = "judgment" /\ ~BlockingDecision
        /\ \A u \in Tasks : ~Working(u)
        /\ task' = [task EXCEPT ![t] = k]
    BY <1>1, <1>6 DEF Resume
  <2> HIDE DEF k
  <2> QED
    BY <1>2, <1>4, <2>1, <2>2
<1>7. ASSUME NEW t \in Tasks, Working(t), PlanOutcome(t)
      PROVE  /\ [PlainNext]_vars /\ phase' = "judgment" /\ ~BlockingDecision' /\ UNCHANGED rewinds
             /\ \A u \in Tasks \ {t} : ~Working(u)
  BY <1>0, <1>3, <1>7, PlanOutcomeAtomic
<1>8. ASSUME NEW t \in Tasks, Plan(t) PROVE [PlainNext]_vars /\ Alone' /\ Undisturbed'
  <2>1. /\ Working(t) /\ PlanOutcome(t)
        /\ task' = [task EXCEPT ![t] = [task[t] EXCEPT !.stage = "calling"]]
    BY <1>8 DEF Plan
  <2>2. /\ [task[t] EXCEPT !.stage = "calling"] \in Task
        /\ [task[t] EXCEPT !.stage = "calling"].born = task[t].born
    BY <1>0 DEF TasksInv, Task, Stages
  <2> QED
    BY <1>2, <1>3, <1>7, <2>1, <2>2
<1>9. ASSUME NEW t \in Tasks, Call(t) PROVE UNCHANGED vars /\ Alone' /\ Undisturbed'
  <2>1. UNCHANGED vars /\ Working(t)
    BY <1>9 DEF Call
  <2>2. \E k \in Task : /\ task' = [task EXCEPT ![t] = k]
                        /\ k.stage # "idle" => k.born = rewinds
    <3>1. \A s \in Stages : Entering(s, proposals) \in Task /\ Entering(s, proposals).born = rewinds
      BY <1>0, EnteringType DEF Entering
    <3> QED
      BY <1>9, <3>1, IdleType DEF Call, Idle, Stages
  <2> QED
    BY <1>2, <1>3, <1>4, <2>1, <2>2
<1>10. ASSUME NEW t \in Tasks, Replan(t) \/ LockedPlan(t)
       PROVE  [PlainNext]_vars /\ Alone' /\ Undisturbed'
  <2>1. PlanOutcome(t) /\ Working(t)
    BY <1>10 DEF Replan, LockedPlan
  <2>2. \E k \in Task : /\ task' = [task EXCEPT ![t] = k]
                        /\ k.stage # "idle" => k.born = rewinds
    <3>1. \A s \in Stages : Entering(s, proposals') \in Task /\ Entering(s, proposals').born = rewinds
      BY <1>0, EnteringNext DEF Entering
    <3> QED
      BY <1>10, <3>1, IdleType DEF Replan, LockedPlan, Idle, Stages
  <2> QED
    BY <1>2, <1>7, <2>1, <2>2
<1>11. ASSUME NEW t \in Tasks, NEW news \in Responses, NEW g \in Groups \cup {None},
              Commit(t, news, g)
       PROVE  PlainNext /\ Alone' /\ Undisturbed'
  <2>1. Working(t) /\ RecordRound(news, g) /\ task' = [task EXCEPT ![t] = Idle]
    BY <1>11 DEF Commit
  <2>2. FinishJudgment(news, g)
    BY <1>3, <2>1 DEF FinishJudgment
  <2> QED
    BY <1>2, <1>3, <2>1, <2>2, IdleType DEF PlainNext, Idle
<1>12. ASSUME NEW t \in Tasks, Discard(t) \/ Fail(t)
       PROVE  [PlainNext]_vars /\ Alone' /\ Undisturbed'
  <2>1. /\ Working(t) /\ task' = [task EXCEPT ![t] = Idle]
        /\ UNCHANGED vars \/ AbortJudgment
    BY <1>12 DEF Discard, Fail
  <2> QED
    BY <1>2, <1>3, <2>1, IdleType DEF PlainNext, Idle
<1>13. ASSUME Restart PROVE [PlainNext]_vars /\ Alone' /\ Undisturbed'
  <2>1. \A t \in Tasks : task'[t].stage = "idle"
    BY <1>13 DEF Restart, Idle
  <2> QED
    BY <1>13, <2>1 DEF Restart, PlainNext, Alone, Undisturbed
<1>14. ASSUME DecideLuck PROVE UNCHANGED vars /\ Alone' /\ Undisturbed'
  BY <1>0, <1>4, <1>14 DEF DecideLuck, Alone, Undisturbed
<1>15. ASSUME AuthorityFree, UNCHANGED task PROVE Alone' /\ Undisturbed'
  BY <1>1, <1>15 DEF Alone, Undisturbed
<1>16. ASSUME Manage \/ Rollback PROVE PlainNext /\ Alone' /\ Undisturbed'
  <2>1. AuthorityFree /\ UNCHANGED task
    BY <1>16 DEF Manage, Rollback, table
  <2>2. PlainNext
    BY <1>16 DEF Manage, Rollback, PlainNext
  <2> QED
    BY <1>15, <2>1, <2>2
<1>17. ASSUME Drain PROVE PlainNext /\ Alone' /\ Undisturbed'
  <2>1. PICK done \in SUBSET Groups : DeliverMemory(done)
    BY <1>17 DEF Drain
  <2>2. UNCHANGED <<task, phase, rewinds>>
    BY <1>17, <2>1 DEF Drain, DeliverMemory, table, progress, bounds
  <2>3. ~BlockingDecision => ~BlockingDecision'
    BY <2>1, DrainsDoNotBlock
  <2> QED
    BY <1>0, <2>1, <2>2, <2>3 DEF PlainNext, Alone, Undisturbed
<1>18. ASSUME UNCHANGED allVars PROVE UNCHANGED vars /\ Alone' /\ Undisturbed'
  BY <1>0, <1>4, <1>18 DEF allVars, table, Alone, Undisturbed
<1>19. ~EndSwipe
  BY DEF EndSwipe, PublishSwipe, RevertSwipe, DropSwipe
<1> QED
  BY <1>5, <1>6, <1>8, <1>9, <1>10, <1>11, <1>12, <1>13, <1>14, <1>16, <1>17, <1>18, <1>19
     DEF TableNext, Progress

\* All steps together.
LEMMA NextGated ==
    ASSUME Gated = Tasks, TableInv, TableInv', GateInv, [TableNext]_allVars
    PROVE  GateInv' /\ [Atomic!Next]_(Atomic!vars)
<1>1. CASE swipe # None
  BY <1>1, SwipeGoesOn, GateDuring, GateEnd
<1>2. CASE StageSwipe
  BY <1>2, GateBegin
<1>3. CASE swipe = None /\ ~StageSwipe
  <2>1. [PlainNext]_vars /\ Alone' /\ Undisturbed'
    BY <1>3, GatePlain DEF TableInv
  <2>2. swipe' = None
    BY <1>3, SwipingSteps DEF EndSwipe, PublishSwipe, RevertSwipe, DropSwipe, swiping
  <2>3. Same /\ Same'
    BY <1>3, <2>2 DEF Same, SeenOutbox
  <2>4. GateInv'
    BY <2>1, <2>2, <2>3 DEF GateInv, Quiet, Drained, Promised, Same
  <2> QED
    BY <2>1, <2>3, <2>4, SameNext
<1> QED
  BY <1>1, <1>2, <1>3

LEMMA InitGated == TableInit => GateInv
BY DEF TableInit, GateInv, Alone, Undisturbed, Quiet, Drained, Promised, SeenOutbox, Working, Idle

(***************************************************************************)
(* If every coroutine that progresses the table held the authority gate,   *)
(* then interleaved rounds and swipes would be the atomic ones of Economy, *)
(* but for the outbox during a swipe: of what drains note then, Economy    *)
(* sees all at the end of a swipe that is dropped, and nothing of one that *)
(* is published or taken back.  With the outbox so taken, each step of the *)
(* table is one of Economy's, or none.                                     *)
(***************************************************************************)
THEOREM GatedRoundsAreAtomic ==
    ASSUME Gated = Tasks
    PROVE  TableSpec => RoundsAreAtomic
<1>1. TableInv /\ GateInv /\ [TableNext]_allVars
        => TableInv' /\ GateInv' /\ [Atomic!Next]_(Atomic!vars)
  BY NextTable, NextGated
<1> QED
  BY <1>1, InitTable, SameInit, InitGated, PTL DEF TableSpec, RoundsAreAtomic, Atomic!Spec

(***************************************************************************)
(* And a narrative that was asked for before a rollback or a swipe would   *)
(* never be recorded after it.                                             *)
(***************************************************************************)
THEOREM GatedStoriesAreCurrent ==
    ASSUME Gated = Tasks
    PROVE  TableSpec => RolledBackStoryIsDropped
<1>1. TableInv /\ GateInv /\ [TableNext]_allVars
        => /\ TableInv' /\ GateInv'
           /\ [\A t \in Tasks : Committing(t) => task[t].born = rewinds]_allVars
  <2>1. GateInv => \A t \in Tasks : task[t].stage = "telling" => task[t].born = rewinds
    BY DEF GateInv, Undisturbed, Working
  <2> QED
    BY <2>1, NextTable, NextGated DEF Committing
<1> QED
  BY <1>1, InitTable, InitGated, PTL DEF TableSpec, RolledBackStoryIsDropped

=============================================================================
