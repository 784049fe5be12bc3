---------------------------- MODULE CombatProofs ----------------------------
(***************************************************************************)
(* What CombatRounds promises of the cost of an action, of its blows and of *)
(* its story, proved for any intents, targets and bounds, for failed       *)
(* judgments, purchases and rollbacks without end, and for swipes of the   *)
(* last entry of the log, also in the middle of a judgment.                *)
(*                                                                         *)
(* A rewind returns to a payload that was put aside, and to a qi that may  *)
(* have been put aside in another round, or not at all: a round without    *)
(* actions has no snapshot.  The two agree because the payloads of         *)
(* consecutive entries are linked, each beginning where the last one ends. *)
(***************************************************************************)
EXTENDS CombatRounds, FiniteSetTheorems, WellFoundedInduction, TLAPS

Entry    == [round : 1..MaxRound, told : SUBSET Intents,
             players : Values(Carried), prePlayers : Values(Carried),
             start : Snapshot, pre : Snapshot]
Purchase == [round : Int, reversed : BOOLEAN, before : Values(Carried)]

Typed ==
    /\ world \in Values(Fields)
    /\ payload \in Payload
    /\ snapshots \in [Rounds -> Snapshot \cup {None}]
    /\ round \in Rounds /\ (phase = "judgment" => round <= MaxRound)
    /\ phase = "judgment" => entry \in [players : Values(Carried), npcs : Values(Npcs)]
    /\ log \in Seq(Entry)
    /\ purchases \in Seq(Purchase)

\* Story order, and only the round that goes on has an open snapshot.
Ordered ==
    /\ \A i \in DOMAIN log : log[i].round <= round
    /\ \A i, j \in DOMAIN log : i <= j => log[i].round <= log[j].round
    /\ \A n \in Rounds : n # round => snapshots[n] = None

\* A payload that leaves what is not settled unpaid, with qi q.
Balanced(p, q) == q + Cardinality(p.intents \cap Palms) = Plenty

\* A payload to which the first k entries of the log fit.
Recorded(p, k) ==
    /\ \A x \in Intents :
          x \in p.intents <=> x \in p.pending \/ \E j \in 1..k : x \in log[j].told
    /\ \A j \in 1..k : log[j].told \cap p.pending = {}

\* A snapshot that follows qi has the one of its payload.
Faithful(s) == "qi" \in DOMAIN s.fields => Balanced(s.payload, s.fields["qi"])

Linked ==
    \A i \in DOMAIN log :
        /\ Recorded(log[i].start.payload, i - 1) /\ Recorded(log[i].pre.payload, i - 1)
        /\ log[i].told = log[i].pre.payload.pending
        /\ Faithful(log[i].start) /\ Faithful(log[i].pre)
        /\ "qi" \in DOMAIN log[i].start.fields <=> "qi" \in DOMAIN log[i].pre.fields
        /\ "qi" \notin DOMAIN log[i].start.fields
              => log[i].start.payload.intents = log[i].pre.payload.intents
        /\ i > 1 => log[i].start.payload.intents = log[i - 1].pre.payload.intents

\* The round that goes on began where the last entry ends, and can be undone.
Open ==
    /\ Recorded(StartOfRound.payload, Len(log))
    /\ Balanced(StartOfRound.payload, OpenUndone["qi"])
    /\ snapshots[round] # None => "qi" \in DOMAIN snapshots[round].fields
    /\ log # <<>> => StartOfRound.payload.intents = log[Len(log)].pre.payload.intents

Current == Recorded(payload, Len(log)) /\ Balanced(payload, world["qi"])

CombatInv == Typed /\ Ordered /\ Linked /\ Open /\ Current
-----------------------------------------------------------------------------
\* What is put aside, and what is laid over a sheet.
LEMMA PartOf ==
    ASSUME NEW f \in Partial, NEW S
    PROVE  /\ Part(f, S) \in Partial
           /\ DOMAIN Part(f, S) = S \cap DOMAIN f
           /\ \A x \in S \cap DOMAIN f : Part(f, S)[x] = f[x]
<1>1. PICK D \in SUBSET Fields : f \in [D -> Int]  BY DEF Partial, Values
<1>2. Part(f, S) \in [S \cap D -> Int]  BY <1>1 DEF Part
<1>3. S \cap D \in SUBSET Fields  BY <1>1
<1> QED  BY <1>1, <1>2, <1>3 DEF Partial, Values, Part

LEMMA Overlay ==
    ASSUME NEW f \in Partial, NEW g \in Partial
    PROVE  /\ Over(f, g) \in Partial
           /\ DOMAIN (Over(f, g)) = DOMAIN f \cup DOMAIN g
           /\ \A x \in DOMAIN f \cup DOMAIN g :
                 Over(f, g)[x] = IF x \in DOMAIN f THEN f[x] ELSE g[x]
<1>1. PICK D \in SUBSET Fields : f \in [D -> Int]  BY DEF Partial, Values
<1>2. PICK E \in SUBSET Fields : g \in [E -> Int]  BY DEF Partial, Values
<1>3. Over(f, g) \in [D \cup E -> Int]  BY <1>1, <1>2 DEF Over
<1>4. D \cup E \in SUBSET Fields  BY <1>1, <1>2
<1> QED  BY <1>1, <1>2, <1>3, <1>4 DEF Partial, Values, Over

LEMMA WholeSheet ==
    ASSUME NEW f \in Partial, NEW g \in Values(Fields)
    PROVE  /\ Over(f, g) \in Values(Fields)
           /\ Over(f, g)["qi"] = IF "qi" \in DOMAIN f THEN f["qi"] ELSE g["qi"]
<1>1. PICK D \in SUBSET Fields : f \in [D -> Int]  BY DEF Partial, Values
<1>2. Over(f, g) \in [D \cup Fields -> Int]  BY <1>1 DEF Over, Values
<1>3. D \cup Fields = Fields  BY <1>1
<1> QED  BY <1>1, <1>2, <1>3 DEF Values, Over, Fields

LEMMA Sheets ==
    /\ Values(Fields) \subseteq Partial
    /\ Values(Carried) \subseteq Partial
    /\ Values(Npcs) \subseteq Partial
    /\ "qi" \in Fields /\ "qi" \notin Carried /\ "qi" \notin Npcs
BY NamesAssumption DEF Values, Partial, Fields, Carried

LEMMA PartOfSheet ==
    ASSUME NEW f \in Values(Fields)
    PROVE  /\ Part(f, Carried) \in Values(Carried)
           /\ Part(f, Npcs) \in Values(Npcs)
<1>1. Carried \cap Fields = Carried /\ Npcs \cap Fields = Npcs  BY DEF Fields
<1> QED  BY <1>1 DEF Part, Values

-----------------------------------------------------------------------------
\* The snapshot of the round that goes on, and the sheet once it is undone.
LEMMA StartTyped ==
    ASSUME Typed
    PROVE  /\ StartOfRound \in Snapshot
           /\ NoFields \in Partial /\ DOMAIN NoFields = {}
<1>1. world \in Partial  BY Sheets DEF Typed
<1>2. NoFields \in Partial /\ DOMAIN NoFields = {}
  <2>1. /\ Part(world, {}) \in Partial
        /\ DOMAIN Part(world, {}) = {} \cap DOMAIN world
    BY <1>1, PartOf
  <2> QED  BY <2>1 DEF NoFields
<1>3. snapshots[round] \in Snapshot \cup {None}  BY DEF Typed
<1> QED  BY <1>2, <1>3 DEF StartOfRound, Snapshot, Typed

LEMMA UndoneTyped ==
    ASSUME Typed
    PROVE  /\ OpenUndone \in Values(Fields)
           /\ OpenUndone["qi"] = IF "qi" \in DOMAIN StartOfRound.fields
                                 THEN StartOfRound.fields["qi"] ELSE world["qi"]
<1>1. StartOfRound.fields \in Partial  BY StartTyped DEF Snapshot
<1> QED  BY <1>1, WholeSheet DEF OpenUndone, Typed

\* The same facts of the state after a step.
LEMMA UndonePrimed ==
    ASSUME Typed'
    PROVE  /\ StartOfRound' \in Snapshot
           /\ NoFields' \in Partial /\ DOMAIN NoFields' = {}
           /\ OpenUndone'["qi"] = IF "qi" \in DOMAIN StartOfRound'.fields
                                  THEN StartOfRound'.fields["qi"] ELSE world'["qi"]
<1>1. world' \in Values(Fields) /\ world' \in Partial  BY Sheets DEF Typed
<1>2. NoFields' \in Partial /\ DOMAIN NoFields' = {}
  <2>1. /\ Part(world', {}) \in Partial
        /\ DOMAIN Part(world', {}) = {} \cap DOMAIN world'
    BY <1>1, PartOf
  <2> QED  BY <2>1 DEF NoFields, Part
<1>3. snapshots'[round'] \in Snapshot \cup {None}  BY DEF Typed
<1>4. StartOfRound' \in Snapshot  BY <1>2, <1>3 DEF StartOfRound, Snapshot, Typed
<1>5. StartOfRound'.fields \in Partial  BY <1>4 DEF Snapshot
<1>6. OpenUndone' = Over(StartOfRound'.fields, world')  BY DEF OpenUndone, Over
<1> QED  BY <1>1, <1>2, <1>4, <1>5, <1>6, WholeSheet

LEMMA InitInv == Init => CombatInv
<1> SUFFICES ASSUME Init PROVE CombatInv  OBVIOUS
<1> USE DEF Init
<1>1. Typed
  <2>1. world \in Values(Fields)  BY BoundsAssumption DEF Values
  <2>2. payload \in Payload  BY DEF Payload
  <2>3. snapshots \in [Rounds -> Snapshot \cup {None}]  OBVIOUS
  <2>4. round \in Rounds  BY BoundsAssumption DEF Rounds
  <2> QED  BY <2>1, <2>2, <2>3, <2>4 DEF Typed
<1>2. Ordered /\ Linked  BY DEF Ordered, Linked
<1>3. Cardinality(payload.intents \cap Palms) = 0  BY FS_EmptySet
<1>4. Current  BY <1>3, BoundsAssumption, Sheets DEF Current, Recorded, Balanced
<1>5. snapshots[round] = None  BY BoundsAssumption DEF Rounds
<1>6. StartOfRound = [payload |-> payload, fields |-> NoFields]  BY <1>5 DEF StartOfRound
<1>7. OpenUndone["qi"] = world["qi"]  BY <1>1, <1>6, StartTyped, UndoneTyped
<1>8. Open  BY <1>4, <1>5, <1>6, <1>7 DEF Open, Current
<1> QED  BY <1>1, <1>2, <1>4, <1>8 DEF CombatInv
-----------------------------------------------------------------------------
\* An intent is added to a record that does not have it.
LEMMA IntentAdded ==
    ASSUME NEW p \in Payload, NEW i \in Intents, i \notin p.intents
    PROVE  Cardinality((p.intents \cup {i}) \cap Palms) =
               Cardinality(p.intents \cap Palms) + (IF i \in Palms THEN 1 ELSE 0)
<1>1. IsFiniteSet(p.intents \cap Palms)  BY FS_Subset, NamesAssumption DEF Payload
<1>2. CASE i \in Palms
  <2>1. (p.intents \cup {i}) \cap Palms = (p.intents \cap Palms) \cup {i}  BY <1>2
  <2> QED  BY <1>1, <1>2, <2>1, FS_AddElement
<1>3. CASE i \notin Palms
  <2>1. (p.intents \cup {i}) \cap Palms = p.intents \cap Palms  BY <1>3
  <2>2. Cardinality(p.intents \cap Palms) \in Nat  BY <1>1, FS_CardinalityType
  <2> DEFINE c == Cardinality(p.intents \cap Palms)
  <2>3. Cardinality((p.intents \cup {i}) \cap Palms) = c  BY <2>1
  <2> HIDE DEF c
  <2>4. c + 0 = c  BY <2>2 DEF c
  <2> QED  BY <1>3, <2>3, <2>4 DEF c
<1> QED  BY <1>2, <1>3

LEMMA CardinalityOfRecord ==
    ASSUME NEW p \in Payload
    PROVE  Cardinality(p.intents \cap Palms) \in Nat
BY FS_Subset, FS_CardinalityType, NamesAssumption DEF Payload

LEMMA ActKeepsInv ==
    ASSUME CombatInv, NEW i \in Intents, Act(i)
    PROVE  CombatInv'
<1> USE DEF Act, story
<1>1. Typed /\ Ordered /\ Linked /\ Open /\ Current  BY DEF CombatInv
<1>2. Payment(i) \in Fields /\ Target[i] \in Fields /\ Target[i] # "qi"
  BY NamesAssumption, Sheets DEF Payment, Fields, Carried
<1>3. "qi" \in Touched(i)  BY DEF Touched
<1>4. world' \in Values(Fields)  BY <1>1, <1>2 DEF Typed, Values
<1>5. world'["qi"] = world["qi"] - (IF i \in Palms THEN 1 ELSE 0)
  BY <1>1, <1>2, Sheets DEF Typed, Values, Payment
<1>6. payload' \in Payload  BY <1>1 DEF Typed, Payload
<1> DEFINE put == Part(world, Touched(i))
<1>7. put \in Partial /\ "qi" \in DOMAIN put /\ put["qi"] = world["qi"]
  <2>1. world \in Partial /\ DOMAIN world = Fields  BY <1>1, Sheets DEF Typed, Values
  <2> QED  BY <1>3, <2>1, PartOf, Sheets
<1> DEFINE new == Captured(Touched(i))
<1>8. /\ new \in Snapshot /\ new.payload = StartOfRound.payload
      /\ "qi" \in DOMAIN new.fields /\ new.fields["qi"] = OpenUndone["qi"]
  <2>1. CASE snapshots[round] = None
    <3>1. new = [payload |-> payload, fields |-> put]  BY <2>1 DEF Captured
    <3>2. StartOfRound = [payload |-> payload, fields |-> NoFields]  BY <2>1 DEF StartOfRound
    <3>3. OpenUndone["qi"] = world["qi"]  BY <1>1, <3>2, UndoneTyped, StartTyped
    <3> QED  BY <1>1, <1>7, <3>1, <3>2, <3>3 DEF Snapshot, Typed
  <2>2. CASE snapshots[round] # None
    <3>1. new = [snapshots[round] EXCEPT !.fields = Over(@, put)]  BY <2>2 DEF Captured
    <3>2. StartOfRound = snapshots[round]  BY <2>2 DEF StartOfRound
    <3>3. snapshots[round] \in Snapshot  BY <1>1, <2>2 DEF Typed
    <3>4. "qi" \in DOMAIN snapshots[round].fields  BY <1>1, <2>2 DEF Open
    <3> DEFINE kept == snapshots[round].fields  laid == Over(kept, put)
    <3>5. laid \in Partial /\ "qi" \in DOMAIN laid /\ laid["qi"] = kept["qi"]
      <4>1. kept \in Partial  BY <3>3 DEF Snapshot
      <4>2. "qi" \in DOMAIN kept  BY <3>4
      <4>3. /\ Over(kept, put) \in Partial
            /\ DOMAIN Over(kept, put) = DOMAIN kept \cup DOMAIN put
            /\ \A x \in DOMAIN kept \cup DOMAIN put :
                  Over(kept, put)[x] = IF x \in DOMAIN kept THEN kept[x] ELSE put[x]
        BY <1>7, <4>1, Overlay
      <4> HIDE DEF kept, put
      <4> QED  BY <4>2, <4>3
    <3>6. OpenUndone["qi"] = snapshots[round].fields["qi"]
      BY <1>1, <3>2, <3>4, UndoneTyped
    <3>7. new.payload = snapshots[round].payload /\ new.fields = laid /\ new \in Snapshot
      BY <3>1, <3>3, <3>5 DEF Snapshot
    <3> QED  BY <3>2, <3>5, <3>6, <3>7
  <2> QED  BY <2>1, <2>2
<1>9. snapshots' \in [Rounds -> Snapshot \cup {None}] /\ snapshots'[round] = new
  BY <1>1, <1>8 DEF Typed
<1>10. new # None  BY <1>8, NamesAssumption
<1>11. Typed'  BY <1>1, <1>4, <1>6, <1>9 DEF Typed
<1>12. Ordered'  BY <1>1 DEF Ordered, Typed
<1>13. Linked'  BY <1>1 DEF Linked, Recorded, Faithful, Balanced
<1>14. StartOfRound' = new  BY <1>9, <1>10 DEF StartOfRound
<1>15. OpenUndone'["qi"] = new.fields["qi"]  BY <1>8, <1>11, <1>14, UndonePrimed
<1>16. Open'
  BY <1>1, <1>8, <1>9, <1>14, <1>15 DEF Open, Recorded, Balanced
<1>17. Current'
  <2>1. Recorded(payload, Len(log))'  BY <1>1 DEF Current, Recorded, Typed, Payload
  <2>2. Cardinality(payload'.intents \cap Palms) = Cardinality(payload.intents \cap Palms)
            + (IF i \in Palms THEN 1 ELSE 0)
    BY <1>1, IntentAdded DEF Typed
  <2>3. Cardinality(payload.intents \cap Palms) \in Nat /\ world["qi"] \in Int
    BY <1>1, CardinalityOfRecord, Sheets DEF Typed, Values
  <2> QED  BY <1>1, <1>5, <2>1, <2>2, <2>3 DEF Current, Balanced
<1> QED  BY <1>11, <1>12, <1>13, <1>16, <1>17 DEF CombatInv
-----------------------------------------------------------------------------
\* A step that leaves the books of the fight alone, and the qi.
LEMMA QuietStep ==
    ASSUME CombatInv, Typed', UNCHANGED <<payload, snapshots, round, log>>,
           world'["qi"] = world["qi"]
    PROVE  CombatInv'
<1>1. Typed /\ Ordered /\ Linked /\ Open /\ Current  BY DEF CombatInv
<1>2. Ordered'  BY <1>1 DEF Ordered
<1>3. Linked'  BY <1>1 DEF Linked, Recorded, Faithful, Balanced
<1>4. Current'  BY <1>1 DEF Current, Recorded, Balanced
<1>5. StartOfRound'.payload = StartOfRound.payload /\ OpenUndone'["qi"] = OpenUndone["qi"]
  <2>1. CASE snapshots[round] = None
    <3>1. /\ StartOfRound = [payload |-> payload, fields |-> NoFields]
          /\ StartOfRound' = [payload |-> payload, fields |-> NoFields']
      BY <2>1 DEF StartOfRound
    <3> QED  BY <1>1, <3>1, StartTyped, UndoneTyped, UndonePrimed
  <2>2. CASE snapshots[round] # None
    <3>1. StartOfRound = snapshots[round] /\ StartOfRound' = snapshots[round]
      BY <2>2 DEF StartOfRound
    <3> QED  BY <1>1, <3>1, UndoneTyped, UndonePrimed
  <2> QED  BY <2>1, <2>2
<1>6. Open'  BY <1>1, <1>5 DEF Open, Recorded, Balanced
<1> QED  BY <1>2, <1>3, <1>4, <1>6 DEF CombatInv

\* A step after which a round begins: it is undone by nothing.
LEMMA FreshRound ==
    ASSUME Typed', Ordered', Linked', Current', snapshots'[round'] = None,
           log' # <<>> => payload'.intents = log'[Len(log')].pre.payload.intents
    PROVE  CombatInv'
<1>1. StartOfRound' = [payload |-> payload', fields |-> NoFields']  BY DEF StartOfRound
<1>2. OpenUndone'["qi"] = world'["qi"]  BY <1>1, UndonePrimed
<1>3. Open'  BY <1>1, <1>2 DEF Open, Current, Recorded, Balanced
<1> QED  BY <1>3 DEF CombatInv

LEMMA BuyKeepsInv == ASSUME CombatInv, Buy PROVE CombatInv'
<1> USE DEF Buy, story
<1>1. Typed  BY DEF CombatInv
<1>2. world' \in Values(Fields) /\ world'["qi"] = world["qi"]
  <2>1. {"qi", "gold", "bag"} \subseteq Fields  BY DEF Fields, Carried
  <2>2. world \in [Fields -> Int]  BY <1>1 DEF Typed, Values
  <2> QED  BY <2>1, <2>2 DEF Values
<1>3. Part(world, Carried) \in Values(Carried)  BY <1>1, PartOfSheet DEF Typed
<1>4. round \in Int  BY <1>1, BoundsAssumption DEF Typed, Rounds
<1>5. purchases' \in Seq(Purchase)  BY <1>1, <1>3, <1>4 DEF Typed, Purchase
<1>6. Typed'  BY <1>1, <1>2, <1>5 DEF Typed
<1> QED  BY <1>2, <1>6, QuietStep

LEMMA JudgeKeepsInv == ASSUME CombatInv, Judge PROVE CombatInv'
<1> USE DEF Judge, fight
<1>1. Typed  BY DEF CombatInv
<1>2. entry' \in [players : Values(Carried), npcs : Values(Npcs)]
  BY <1>1, PartOfSheet DEF Typed
<1>3. Typed'  BY <1>1, <1>2 DEF Typed
<1> QED  BY <1>3, QuietStep

LEMMA CommitKeepsInv == ASSUME CombatInv, Commit PROVE CombatInv'
<1> USE DEF Commit
<1>1. Typed /\ Ordered /\ Linked /\ Open /\ Current  BY DEF CombatInv
<1> DEFINE e == [round |-> round, told |-> payload.pending,
                 players |-> entry.players, prePlayers |-> Part(world, Carried),
                 start |-> StartOfRound, pre |-> EndOfRound]
           n == Len(log)
<1>2. round \in 1..MaxRound /\ MaxRound \in Nat
  BY <1>1, BoundsAssumption DEF Typed, Rounds
<1>3. StartOfRound \in Snapshot  BY <1>1, StartTyped
<1> DEFINE S == DOMAIN StartOfRound.fields
<1>4. EndOfRound = [payload |-> payload, fields |-> Part(world, S)]  BY DEF EndOfRound
<1>5. /\ Part(world, S) \in Partial /\ DOMAIN Part(world, S) = S
      /\ "qi" \in S => Part(world, S)["qi"] = world["qi"]
  <2>1. world \in Partial /\ DOMAIN world = Fields  BY <1>1, Sheets DEF Typed, Values
  <2>2. S \subseteq Fields  BY <1>3 DEF Snapshot, Partial, Values
  <2>3. /\ Part(world, S) \in Partial /\ DOMAIN Part(world, S) = S \cap DOMAIN world
        /\ \A x \in S \cap DOMAIN world : Part(world, S)[x] = world[x]
    BY <2>1, PartOf
  <2> HIDE DEF S
  <2> QED  BY <2>1, <2>2, <2>3, Sheets
<1>6. EndOfRound \in Snapshot  BY <1>1, <1>4, <1>5 DEF Snapshot, Typed
<1>7. e \in Entry
  <2>1. Part(world, Carried) \in Values(Carried)  BY <1>1, PartOfSheet DEF Typed
  <2>2. payload.pending \subseteq Intents  BY <1>1 DEF Typed, Payload
  <2>3. entry.players \in Values(Carried)  BY <1>1 DEF Typed
  <2> QED  BY <1>2, <1>3, <1>6, <2>1, <2>2, <2>3 DEF Entry
<1>8. /\ log' \in Seq(Entry) /\ n \in Nat /\ Len(log') = n + 1 /\ log'[n + 1] = e
      /\ DOMAIN log = 1..n /\ DOMAIN log' = 1..n + 1
      /\ \A i \in 1..n : log'[i] = log[i]
  <2> HIDE DEF e
  <2>1. log \in Seq(Entry) /\ log' = Append(log, e)  BY <1>1 DEF Typed, e
  <2> QED  BY <1>7, <2>1
<1>9. payload' \in Payload  BY <1>1 DEF Typed, Payload
<1>10. Typed'
  <2>1. snapshots' \in [Rounds -> Snapshot \cup {None}]  BY <1>1 DEF Typed
  <2>2. round' \in Rounds  BY <1>2 DEF Rounds
  <2> QED  BY <1>1, <1>8, <1>9, <2>1, <2>2 DEF Typed
<1>11. Ordered'
  <2>1. \A i \in DOMAIN log' : log'[i].round <= round
    <3>1. \A i \in 1..n : log'[i].round <= round  BY <1>1, <1>8 DEF Ordered
    <3>2. log'[n + 1].round <= round  BY <1>2, <1>8
    <3> QED  BY <1>8, <3>1, <3>2
  <2>2. \A i \in DOMAIN log' : log'[i].round \in Int
    <3>1. \A i \in DOMAIN log' : log'[i] \in Entry  BY <1>8
    <3> QED  BY <1>2, <3>1 DEF Entry
  <2>3. \A i, j \in DOMAIN log' : i <= j => log'[i].round <= log'[j].round
    <3> SUFFICES ASSUME NEW i \in 1..n + 1, NEW j \in 1..n + 1, i <= j
                 PROVE  log'[i].round <= log'[j].round
      BY <1>8
    <3>1. CASE j \in 1..n
      <4>1. i \in 1..n  BY <1>8, <3>1
      <4> QED  BY <1>1, <1>8, <3>1, <4>1 DEF Ordered
    <3>2. CASE j = n + 1
      BY <1>8, <2>1, <3>2
    <3> QED  BY <1>8, <3>1, <3>2
  <2>4. \A r \in Rounds : r # round' => snapshots'[r] = None
    BY <1>1 DEF Ordered, Typed
  <2>5. \A i \in DOMAIN log' : log'[i].round <= round'  BY <1>2, <2>1, <2>2
  <2> QED  BY <2>3, <2>4, <2>5 DEF Ordered
<1>12. snapshots'[round'] = None
  <2>1. round' \in Rounds /\ round' # round  BY <1>2 DEF Rounds
  <2> QED  BY <1>1, <2>1 DEF Ordered, Typed
<1>13. /\ Faithful(e.start) /\ Faithful(e.pre)
       /\ "qi" \in DOMAIN e.start.fields <=> "qi" \in DOMAIN e.pre.fields
       /\ "qi" \notin DOMAIN e.start.fields
             => e.start.payload.intents = e.pre.payload.intents
  <2>1. "qi" \in S => OpenUndone["qi"] = StartOfRound.fields["qi"]
    BY <1>1, UndoneTyped
  <2>2. Faithful(StartOfRound)  BY <1>1, <2>1 DEF Open, Faithful, Balanced
  <2>3. Faithful(EndOfRound)  BY <1>1, <1>4, <1>5 DEF Current, Faithful, Balanced
  <2>4. "qi" \notin S => StartOfRound.payload = payload
    <3>1. "qi" \notin S => snapshots[round] = None  BY <1>1 DEF Open, StartOfRound
    <3> QED  BY <3>1 DEF StartOfRound
  <2>5. DOMAIN EndOfRound.fields = S /\ EndOfRound.payload = payload  BY <1>4, <1>5
  <2> HIDE DEF S
  <2>6. e.start = StartOfRound /\ e.pre = EndOfRound  OBVIOUS
  <2>7. e.start.payload = StartOfRound.payload  BY <2>6
  <2> QED  BY <2>2, <2>3, <2>4, <2>5, <2>6, <2>7 DEF S
<1>14. Linked'
  <2> HIDE DEF e
  <2> SUFFICES ASSUME NEW i \in 1..n + 1
               PROVE  /\ Recorded(log[i].start.payload, i - 1)'
                      /\ Recorded(log[i].pre.payload, i - 1)'
                      /\ log'[i].told = log'[i].pre.payload.pending
                      /\ Faithful(log[i].start)' /\ Faithful(log[i].pre)'
                      /\ "qi" \in DOMAIN log'[i].start.fields
                            <=> "qi" \in DOMAIN log'[i].pre.fields
                      /\ "qi" \notin DOMAIN log'[i].start.fields
                            => log'[i].start.payload.intents = log'[i].pre.payload.intents
                      /\ i > 1 => log'[i].start.payload.intents
                                    = log'[i - 1].pre.payload.intents
    BY <1>8 DEF Linked
  <2>2. CASE i \in 1..n
    <3>1. i \in DOMAIN log /\ i - 1 \in 0..n  BY <1>8, <2>2
    <3>2. i > 1 => i - 1 \in 1..n  BY <1>8, <2>2
    <3>3. log'[i] = log[i] /\ (i > 1 => log'[i - 1] = log[i - 1])  BY <1>8, <2>2, <3>2
    <3>4. /\ Recorded(log[i].start.payload, i - 1) /\ Recorded(log[i].pre.payload, i - 1)
          /\ Faithful(log[i].start) /\ Faithful(log[i].pre)
      BY <1>1, <3>1 DEF Linked
    <3>5. /\ Recorded(log[i].start.payload, i - 1)'
          /\ Recorded(log[i].pre.payload, i - 1)'
      BY <1>8, <2>2, <3>3, <3>4 DEF Recorded
    <3>6. Faithful(log[i].start)' /\ Faithful(log[i].pre)'
      BY <3>3, <3>4 DEF Faithful, Balanced
    <3> QED  BY <1>1, <3>1, <3>3, <3>5, <3>6 DEF Linked
  <2>3. CASE i = n + 1
    <3>1. /\ log'[i] = e /\ i - 1 = n /\ e.start = StartOfRound /\ e.pre = EndOfRound
          /\ e.told = payload.pending /\ EndOfRound.payload = payload
      BY <1>4, <1>8, <2>3 DEF e
    <3>2. Recorded(StartOfRound.payload, n) /\ Recorded(payload, n)
      BY <1>1 DEF Open, Current
    <3>3. \A j \in 1..n : log'[j] = log[j]  BY <1>8
    <3>4. /\ Recorded(log[i].start.payload, i - 1)'
          /\ Recorded(log[i].pre.payload, i - 1)'
      BY <3>1, <3>2, <3>3 DEF Recorded
    <3>5. Faithful(log[i].start)' /\ Faithful(log[i].pre)'
      BY <1>13, <3>1 DEF Faithful, Balanced
    <3>6. ASSUME i > 1
          PROVE  log'[i].start.payload.intents = log'[i - 1].pre.payload.intents
      <4>1. n \in 1..n  BY <1>8, <2>3, <3>6
      <4>2. log # <<>>  BY <1>8, <4>1
      <4>3. StartOfRound.payload.intents = log[n].pre.payload.intents
        BY <1>1, <4>2 DEF Open
      <4> QED  BY <3>1, <3>3, <4>1, <4>3
    <3> QED  BY <1>13, <3>1, <3>4, <3>5, <3>6
  <2> QED  BY <1>8, <2>2, <2>3
<1>15. Current'
  <2>1. payload'.intents = payload.intents /\ payload'.pending = {}
    BY <1>1 DEF Typed, Payload
  <2>2. Balanced(payload, world["qi"])'  BY <1>1, <2>1 DEF Current, Balanced
  <2>3. log'[n + 1].told = payload.pending  BY <1>8
  <2>4. Recorded(payload, Len(log))'
    BY <1>1, <1>8, <2>1, <2>3 DEF Current, Recorded
  <2> QED  BY <2>2, <2>4 DEF Current
<1>16. log' # <<>> => payload'.intents = log'[Len(log')].pre.payload.intents
  BY <1>1, <1>4, <1>8 DEF Typed, Payload
<1> QED  BY <1>10, <1>11, <1>12, <1>14, <1>15, <1>16, FreshRound

LEMMA AbortKeepsInv == ASSUME CombatInv, Abort PROVE CombatInv'
<1> USE DEF Abort
<1>1. Typed /\ Ordered /\ Linked /\ Open /\ Current  BY DEF CombatInv
<1>2. StartOfRound \in Snapshot  BY <1>1, StartTyped
<1>3. entry \in [players : Values(Carried), npcs : Values(Npcs)]  BY <1>1 DEF Typed
<1> DEFINE a == Over(entry.players, world)
           b == Over(StartOfRound.fields, a)
<1>4. a \in Values(Fields) /\ a["qi"] = world["qi"]
  <2>1. entry.players \in Partial /\ "qi" \notin DOMAIN entry.players
    BY <1>3, Sheets DEF Values
  <2> QED  BY <1>1, <2>1, WholeSheet DEF Typed
<1>5. b \in Values(Fields) /\ b["qi"] = OpenUndone["qi"]
  <2>1. StartOfRound.fields \in Partial  BY <1>2 DEF Snapshot
  <2> HIDE DEF a
  <2> QED  BY <1>1, <1>4, <2>1, WholeSheet, UndoneTyped
<1>6. world' \in Values(Fields) /\ world'["qi"] = OpenUndone["qi"]
  <2>1. entry.npcs \in Partial /\ "qi" \notin DOMAIN entry.npcs
    BY <1>3, Sheets DEF Values
  <2>2. world' = Over(entry.npcs, b)  OBVIOUS
  <2> HIDE DEF b
  <2> QED  BY <1>5, <2>1, <2>2, WholeSheet
<1>7. payload' = StartOfRound.payload /\ payload' \in Payload
  BY <1>2 DEF StartOfRound, Snapshot
<1>8. Typed'  BY <1>1, <1>6, <1>7 DEF Typed
<1>9. Ordered'  BY <1>1 DEF Ordered
<1>10. Linked'  BY <1>1 DEF Linked, Recorded, Faithful, Balanced
<1>11. Current'  BY <1>1, <1>6, <1>7 DEF Current, Open, Recorded, Balanced
<1>12. CASE snapshots[round] = None
  <2>1. snapshots'[round'] = None  BY <1>12
  <2>2. log' # <<>> => payload'.intents = log'[Len(log')].pre.payload.intents
    BY <1>1, <1>7 DEF Open
  <2> QED  BY <1>8, <1>9, <1>10, <1>11, <2>1, <2>2, FreshRound
<1>13. CASE snapshots[round] # None
  <2>1. StartOfRound = snapshots[round] /\ StartOfRound' = snapshots[round]
    BY <1>13 DEF StartOfRound
  <2>2. "qi" \in DOMAIN snapshots[round].fields  BY <1>1, <1>13 DEF Open
  <2>3. OpenUndone'["qi"] = OpenUndone["qi"]
    BY <1>1, <1>8, <2>1, <2>2, UndoneTyped, UndonePrimed
  <2>4. Open'  BY <1>1, <2>1, <2>3 DEF Open, Recorded, Balanced
  <2> QED  BY <1>8, <1>9, <1>10, <1>11, <2>4 DEF CombatInv
<1> QED  BY <1>12, <1>13

-----------------------------------------------------------------------------
\* Withdrawing purchases does not reach the qi.
LEMMA ReconciledTyped ==
    ASSUME Typed, NEW players \in Values(Carried), NEW r
    PROVE  Reconciled(players, r) \in Values(Carried)
<1> DEFINE undone == {i \in DOMAIN purchases : purchases[i].round = r}
<1>1. purchases \in Seq(Purchase)  BY DEF Typed
<1>2. undone \subseteq Nat /\ undone \subseteq DOMAIN purchases  BY <1>1
<1>3. CASE undone = {}
  BY <1>3 DEF Reconciled
<1>4. CASE undone # {}
  <2>1. PICK x \in undone : \A y \in undone : ~(<<y, x>> \in OpToRel(<, Nat))
    <3> HIDE DEF undone
    <3> QED  BY <1>2, <1>4, NatLessThanWellFounded, WFMin
  <2>2. ASSUME NEW y \in undone PROVE x <= y
    <3>1. <<y, x>> \in Nat \X Nat  BY <1>2
    <3>2. ~(y < x)  BY <2>1, <3>1 DEF OpToRel
    <3> HIDE DEF undone
    <3> QED  BY <1>2, <3>2
  <2> DEFINE first == CHOOSE i \in undone : \A j \in undone : i <= j
  <2>3. first \in undone  BY <2>2
  <2>4. Reconciled(players, r) = purchases[first].before  BY <1>4 DEF Reconciled
  <2>5. purchases[first] \in Purchase  BY <1>1, <1>2, <2>3
  <2> HIDE DEF first
  <2> QED  BY <2>4, <2>5 DEF Purchase
<1> QED  BY <1>3, <1>4

LEMMA RewindTyped ==
    ASSUME CombatInv, NEW r \in 1..MaxRound, NEW players \in Values(Carried),
           NEW s \in Snapshot, RewoundTo(r, players, s)
    PROVE  /\ world' \in Values(Fields)
           /\ world'["qi"] = IF "qi" \in DOMAIN s.fields THEN s.fields["qi"]
                             ELSE OpenUndone["qi"]
           /\ round' \in Rounds /\ round' = r
           /\ snapshots' \in [Rounds -> Snapshot \cup {None}]
           /\ r <= round => \A n \in Rounds : snapshots'[n] = None
           /\ purchases' \in Seq(Purchase)
<1> USE DEF RewoundTo
<1>1. Typed /\ Ordered  BY DEF CombatInv
<1> DEFINE under == Over(Reconciled(players, r), OpenUndone)
<1>2. under \in Values(Fields) /\ under["qi"] = OpenUndone["qi"]
  <2>1. Reconciled(players, r) \in Values(Carried)  BY <1>1, ReconciledTyped
  <2>2. /\ Reconciled(players, r) \in Partial
        /\ "qi" \notin DOMAIN Reconciled(players, r)
    BY <2>1, Sheets DEF Values
  <2> QED  BY <1>1, <2>2, UndoneTyped, WholeSheet
<1>3. /\ world' \in Values(Fields)
      /\ world'["qi"] = IF "qi" \in DOMAIN s.fields THEN s.fields["qi"]
                        ELSE OpenUndone["qi"]
  <2>1. world' = Over(s.fields, under) /\ s.fields \in Partial  BY DEF Snapshot
  <2> HIDE DEF under
  <2> QED  BY <1>2, <2>1, WholeSheet
<1>4. round' \in Rounds /\ round' = r  BY BoundsAssumption DEF Rounds
<1>5. snapshots' = [n \in Rounds |-> IF n >= r THEN None ELSE snapshots[n]]
  BY DEF DiscardedFrom
<1>6. snapshots' \in [Rounds -> Snapshot \cup {None}]  BY <1>1, <1>5 DEF Typed
<1>7. ASSUME r <= round, NEW n \in Rounds PROVE snapshots'[n] = None
  <2>1. n >= r \/ n # round
    BY <1>1, <1>7, BoundsAssumption DEF Typed, Rounds
  <2> QED  BY <1>1, <1>5, <2>1 DEF Ordered
<1>8. purchases' \in Seq(Purchase)
  <2>1. purchases \in Seq(Purchase)  BY <1>1 DEF Typed
  <2>2. ASSUME NEW i \in DOMAIN purchases
        PROVE  [purchases[i] EXCEPT !.reversed = @ \/ purchases[i].round >= r] \in Purchase
    <3> DEFINE gone == purchases[i].reversed \/ purchases[i].round >= r
    <3>1. purchases[i] \in Purchase  BY <2>1
    <3>2. gone \in BOOLEAN  OBVIOUS
    <3>3. [purchases[i] EXCEPT !.reversed = gone] \in Purchase
      <4> HIDE DEF gone
      <4> QED  BY <3>1, <3>2 DEF Purchase
    <3> QED  BY <3>3
  <2>3. purchases' = [i \in DOMAIN purchases |->
            [purchases[i] EXCEPT !.reversed = @ \/ purchases[i].round >= r]]
    BY DEF Withdrawn
  <2>4. DOMAIN purchases = 1..Len(purchases) /\ Len(purchases) \in Nat  BY <2>1
  <2> QED  BY <2>2, <2>3, <2>4
<1> QED  BY <1>3, <1>4, <1>6, <1>7, <1>8

LEMMA RollbackKeepsInv == ASSUME CombatInv, Rollback PROVE CombatInv'
<1> USE DEF Rollback
<1>1. Typed /\ Ordered /\ Linked /\ Open /\ Current  BY DEF CombatInv
<1> DEFINE n == Len(log)  last == log[n]
<1>2. log \in Seq(Entry) /\ n \in Nat /\ n > 0 /\ n \in DOMAIN log /\ DOMAIN log = 1..n
  BY <1>1 DEF Typed
<1>3. last \in Entry  BY <1>2
<1>4. /\ last.round \in 1..MaxRound /\ last.players \in Values(Carried)
      /\ last.start \in Snapshot
  BY <1>3 DEF Entry
<1>5. RewoundTo(last.round, last.players, last.start) /\ payload' = last.start.payload
  OBVIOUS
<1>6. log' = SubSeq(log, 1, n - 1) /\ phase' = "action" /\ entry' = None  OBVIOUS
<1> HIDE DEF last
<1>7. last.round <= round  BY <1>1, <1>2 DEF Ordered, last
<1>8. /\ world' \in Values(Fields)
      /\ world'["qi"] = IF "qi" \in DOMAIN last.start.fields THEN last.start.fields["qi"]
                        ELSE OpenUndone["qi"]
      /\ round' \in Rounds /\ round' = last.round
      /\ snapshots' \in [Rounds -> Snapshot \cup {None}]
      /\ \A r \in Rounds : snapshots'[r] = None
      /\ purchases' \in Seq(Purchase)
  BY <1>4, <1>5, <1>7, RewindTyped
<1>9. /\ log' \in Seq(Entry) /\ Len(log') = n - 1 /\ DOMAIN log' = 1..n - 1
      /\ \A i \in 1..n - 1 : log'[i] = log[i]
  BY <1>2, <1>6
<1>10. Typed'
  <2>1. payload' \in Payload  BY <1>4, <1>5 DEF Snapshot
  <2> QED  BY <1>6, <1>8, <1>9, <2>1 DEF Typed
<1>11. Ordered'
  BY <1>1, <1>2, <1>8, <1>9 DEF Ordered, last
<1>12. Linked'
  <2> SUFFICES ASSUME NEW i \in 1..n - 1
               PROVE  /\ Recorded(log[i].start.payload, i - 1)'
                      /\ Recorded(log[i].pre.payload, i - 1)'
                      /\ log'[i].told = log'[i].pre.payload.pending
                      /\ Faithful(log[i].start)' /\ Faithful(log[i].pre)'
                      /\ "qi" \in DOMAIN log'[i].start.fields
                            <=> "qi" \in DOMAIN log'[i].pre.fields
                      /\ "qi" \notin DOMAIN log'[i].start.fields
                            => log'[i].start.payload.intents = log'[i].pre.payload.intents
                      /\ i > 1 => log'[i].start.payload.intents
                                    = log'[i - 1].pre.payload.intents
    BY <1>9 DEF Linked
  <2>1. i \in DOMAIN log /\ log'[i] = log[i] /\ (i > 1 => log'[i - 1] = log[i - 1])
    BY <1>2, <1>9
  <2>2. \A j \in 1..i - 1 : log'[j] = log[j]  BY <1>2, <1>9
  <2>3. /\ Recorded(log[i].start.payload, i - 1)'
        /\ Recorded(log[i].pre.payload, i - 1)'
    BY <1>1, <2>1, <2>2 DEF Linked, Recorded
  <2>4. Faithful(log[i].start)' /\ Faithful(log[i].pre)'
    BY <1>1, <2>1 DEF Linked, Faithful, Balanced
  <2> QED  BY <1>1, <2>1, <2>3, <2>4 DEF Linked
<1>13. Current'
  <2>1. Recorded(last.start.payload, n - 1)  BY <1>1, <1>2 DEF Linked, last
  <2>2. Recorded(payload, Len(log))'
    BY <1>2, <1>5, <1>9, <2>1 DEF Recorded
  <2>3. Balanced(last.start.payload, world'["qi"])
    <3>1. CASE "qi" \in DOMAIN last.start.fields
      BY <1>1, <1>2, <1>8, <3>1 DEF Linked, Faithful, last
    <3>2. CASE "qi" \notin DOMAIN last.start.fields
      <4>1. last.start.payload.intents = last.pre.payload.intents
        BY <1>1, <1>2, <3>2 DEF Linked, last
      <4>2. StartOfRound.payload.intents = last.pre.payload.intents
        BY <1>1, <1>2 DEF Open, last
      <4> QED  BY <1>1, <1>8, <3>2, <4>1, <4>2 DEF Open, Balanced
    <3> QED  BY <3>1, <3>2
  <2> QED  BY <1>5, <2>2, <2>3 DEF Current, Balanced
<1>14. ASSUME log' # <<>>
       PROVE  payload'.intents = log'[Len(log')].pre.payload.intents
  <2>1. n > 1 /\ n - 1 \in 1..n - 1  BY <1>2, <1>9, <1>14
  <2>2. last.start.payload.intents = log[n - 1].pre.payload.intents
    BY <1>1, <1>2, <2>1 DEF Linked, last
  <2> QED  BY <1>5, <1>9, <2>1, <2>2
<1> QED  BY <1>8, <1>10, <1>11, <1>12, <1>13, <1>14, FreshRound

\* The last entry is narrated anew: its text apart, the log stays what it is.
LEMMA LastSwiped ==
    ASSUME CombatInv, SwipeBack <= 1, NEW i \in 1..MaxRound, Swipe(i)
    PROVE  i = Len(log) /\ log' = log
<1> USE DEF Swipe
<1>1. Typed /\ Ordered /\ Linked  BY DEF CombatInv
<1> DEFINE n == Len(log)  e == log[n]
<1>2. log \in Seq(Entry) /\ n \in Nat /\ DOMAIN log = 1..n  BY <1>1 DEF Typed
<1>3. i = n /\ n > 0 /\ n \in DOMAIN log  BY <1>2, BoundsAssumption
<1>4. {j \in DOMAIN log : log[j].round <= e.round} = 1..n
  BY <1>1, <1>2, <1>3 DEF Ordered
<1>5. Cardinality(1..n) = n
  <2> HIDE DEF n
  <2>1. Cardinality(1..n) = IF 1 <= n THEN n - 1 + 1 ELSE 0  BY <1>2, FS_Interval
  <2> QED  BY <1>2, <1>3, <2>1
<1>6. BranchCut(e.round) = SubSeq(log, 1, n)  BY <1>4, <1>5 DEF BranchCut
<1>7. BranchCut(e.round) = log  BY <1>2, <1>6
<1>8. log' = [log EXCEPT ![n].told = e.pre.payload.pending]  BY <1>3, <1>7
<1>9. e.told = e.pre.payload.pending  BY <1>1, <1>3 DEF Linked
<1>10. e \in Entry  BY <1>2, <1>3
<1>11. [e EXCEPT !.told = e.pre.payload.pending] = e
  <2> HIDE DEF e
  <2> QED  BY <1>9, <1>10 DEF Entry
<1>12. log' = [log EXCEPT ![n] = e]  BY <1>8, <1>11
<1> QED  BY <1>2, <1>3, <1>12

LEMMA SwipeKeepsInv ==
    ASSUME CombatInv, SwipeBack <= 1, NEW i \in 1..MaxRound, Swipe(i)
    PROVE  CombatInv'
<1>1. Typed /\ Ordered /\ Linked /\ Open /\ Current  BY DEF CombatInv
<1> DEFINE n == Len(log)  e == log[n]
<1>2. i = n /\ log' = log  BY LastSwiped
<1>3. log \in Seq(Entry) /\ n \in Nat /\ n > 0 /\ n \in DOMAIN log /\ DOMAIN log = 1..n
  BY <1>1, <1>2 DEF Typed, Swipe
<1>4. e \in Entry  BY <1>3
<1>5. e.round \in 1..MaxRound /\ e.prePlayers \in Values(Carried) /\ e.pre \in Snapshot
  BY <1>4 DEF Entry
<1>6. /\ RewoundTo(e.round, e.prePlayers, e.pre)
      /\ payload' = [e.pre.payload EXCEPT !.pending = {}]
      /\ phase' = phase /\ entry' = entry
  BY <1>2 DEF Swipe
<1> HIDE DEF e
<1>7. e.round <= round  BY <1>1, <1>3 DEF Ordered, e
<1>8. /\ world' \in Values(Fields)
      /\ world'["qi"] = IF "qi" \in DOMAIN e.pre.fields THEN e.pre.fields["qi"]
                        ELSE OpenUndone["qi"]
      /\ round' \in Rounds /\ round' = e.round
      /\ snapshots' \in [Rounds -> Snapshot \cup {None}]
      /\ \A r \in Rounds : snapshots'[r] = None
      /\ purchases' \in Seq(Purchase)
  BY <1>5, <1>6, <1>7, RewindTyped
<1>9. /\ payload' \in Payload /\ payload'.pending = {}
      /\ payload'.intents = e.pre.payload.intents
  <2>1. e.pre.payload \in Payload  BY <1>5 DEF Snapshot
  <2> QED  BY <1>6, <2>1 DEF Payload
<1>10. Typed'
  <2>1. round' <= MaxRound  BY <1>5, <1>8, BoundsAssumption
  <2> QED  BY <1>1, <1>2, <1>6, <1>8, <1>9, <2>1 DEF Typed
<1>11. Ordered'  BY <1>1, <1>2, <1>3, <1>8 DEF Ordered, e
<1>12. Linked'  BY <1>1, <1>2 DEF Linked, Recorded, Faithful, Balanced
<1>13. Current'
  <2>1. Recorded(e.pre.payload, n - 1) /\ e.told = e.pre.payload.pending
    BY <1>1, <1>3 DEF Linked, e
  <2>2. \A x \in Intents :
            x \in e.pre.payload.intents <=> \E j \in 1..n : x \in log[j].told
    BY <1>3, <2>1 DEF Recorded, e
  <2>3. Recorded(payload, Len(log))'  BY <1>2, <1>9, <2>2 DEF Recorded
  <2>4. Balanced(e.pre.payload, world'["qi"])
    <3>1. CASE "qi" \in DOMAIN e.pre.fields
      BY <1>1, <1>3, <1>8, <3>1 DEF Linked, Faithful, e
    <3>2. CASE "qi" \notin DOMAIN e.pre.fields
      <4>1. StartOfRound.payload.intents = e.pre.payload.intents
        BY <1>1, <1>3 DEF Open, e
      <4> QED  BY <1>1, <1>8, <3>2, <4>1 DEF Open, Balanced
    <3> QED  BY <3>1, <3>2
  <2> QED  BY <1>9, <2>3, <2>4 DEF Current, Balanced
<1>14. log' # <<>> => payload'.intents = log'[Len(log')].pre.payload.intents
  BY <1>2, <1>9 DEF e
<1> QED  BY <1>8, <1>10, <1>11, <1>12, <1>13, <1>14, FreshRound

-----------------------------------------------------------------------------
LEMMA NextKeepsInv ==
    ASSUME CombatInv, SwipeBack <= 1, [Next]_vars
    PROVE  CombatInv'
<1>1. ASSUME NEW i \in Intents, Act(i) PROVE CombatInv'  BY <1>1, ActKeepsInv
<1>2. CASE Buy  BY <1>2, BuyKeepsInv
<1>3. CASE Judge  BY <1>3, JudgeKeepsInv
<1>4. CASE Commit  BY <1>4, CommitKeepsInv
<1>5. CASE Abort  BY <1>5, AbortKeepsInv
<1>6. CASE Rollback  BY <1>6, RollbackKeepsInv
<1>7. ASSUME NEW i \in 1..MaxRound, Swipe(i) PROVE CombatInv'  BY <1>7, SwipeKeepsInv
<1>8. CASE UNCHANGED vars
  <2>1. Typed  BY DEF CombatInv
  <2>2. Typed'  BY <1>8, <2>1 DEF Typed, vars, fight, story
  <2> QED  BY <1>8, <2>2, QuietStep DEF vars, fight, story
<1> QED  BY <1>1, <1>2, <1>3, <1>4, <1>5, <1>6, <1>7, <1>8 DEF Next

\* What is settled is paid for, and told by one entry or still pending.
LEMMA InvImplies == ASSUME CombatInv PROVE PaidOnce /\ ToldOnce
<1>1. Typed /\ Linked /\ Current  BY DEF CombatInv
<1>2. log \in Seq(Entry) /\ DOMAIN log = 1..Len(log) /\ Len(log) \in Nat
  BY <1>1 DEF Typed
<1>3. PaidOnce  BY <1>1 DEF Current, Balanced, PaidOnce, Settled
<1>4. payload.intents = payload.pending \cup UNION {log[i].told : i \in DOMAIN log}
  <2>1. payload.intents \subseteq Intents /\ payload.pending \subseteq Intents
    BY <1>1 DEF Typed, Payload
  <2>2. \A i \in DOMAIN log : log[i].told \subseteq Intents
    <3>1. \A i \in DOMAIN log : log[i] \in Entry  BY <1>2
    <3> QED  BY <3>1 DEF Entry
  <2>3. \A x \in Intents :
            x \in payload.intents
                <=> x \in payload.pending \/ \E j \in DOMAIN log : x \in log[j].told
    BY <1>1, <1>2 DEF Current, Recorded
  <2> QED  BY <2>1, <2>2, <2>3
<1>5. \A i \in DOMAIN log : log[i].told \cap payload.pending = {}
  BY <1>1, <1>2 DEF Current, Recorded
<1>6. ASSUME NEW i \in DOMAIN log, NEW j \in DOMAIN log, i < j
      PROVE  log[i].told \cap log[j].told = {}
  <2>1. Recorded(log[j].pre.payload, j - 1) /\ log[j].told = log[j].pre.payload.pending
    BY <1>1 DEF Linked
  <2>2. i \in 1..j - 1  BY <1>2, <1>6
  <2> QED  BY <2>1, <2>2 DEF Recorded
<1>7. ASSUME NEW i \in DOMAIN log, NEW j \in DOMAIN log, i # j
      PROVE  log[i].told \cap log[j].told = {}
  BY <1>2, <1>6, <1>7
<1> QED  BY <1>3, <1>4, <1>5, <1>7 DEF ToldOnce

\* The inductive invariant, for swipes of the last entry of the log.
THEOREM FightIsLinked ==
    ASSUME SwipeBack <= 1
    PROVE  Spec => []CombatInv
<1>1. Init => CombatInv  BY InitInv
<1>2. CombatInv /\ [Next]_vars => CombatInv'  BY NextKeepsInv
<1> QED  BY <1>1, <1>2, PTL DEF Spec

(***************************************************************************)
(* An action of a fight is paid for exactly once as long as the server     *)
(* remembers it, and not at all once it has forgotten it: through failed   *)
(* judgments, rollbacks and swipes of the last entry, settlement           *)
(* (combat_extension.py) and the restores of round_recovery.py and         *)
(* swipe_generator.py agree on the qi.                                     *)
(***************************************************************************)
THEOREM PaidExactlyOnce ==
    ASSUME SwipeBack <= 1
    PROVE  Spec => []PaidOnce
<1>1. CombatInv => PaidOnce  BY InvImplies
<1> QED  BY <1>1, FightIsLinked, PTL

(***************************************************************************)
(* The story tells every settled action exactly once: it is pending or     *)
(* told by one entry of the log that stands (combat_narrative.py), however *)
(* often that story fails, is rolled back or told anew.                    *)
(***************************************************************************)
THEOREM ToldExactlyOnce ==
    ASSUME SwipeBack <= 1
    PROVE  Spec => []ToldOnce
<1>1. CombatInv => ToldOnce  BY InvImplies
<1> QED  BY <1>1, FightIsLinked, PTL

-----------------------------------------------------------------------------
(***************************************************************************)
(* What actions do to their targets, until a judgment fails.  Unlike the   *)
(* qi, an NPC is in the snapshot of a round only if it was struck then: of *)
(* one that is not, the round began with what it has now.                  *)
(***************************************************************************)
Hits(n) == {i \in Intents : Target[i] = n}

\* A payload whose blows leave n with hit points hp.
Struck(p, hp, n) == hp + Cardinality(p.intents \cap Hits(n)) = Plenty

SameBlows(p, q, n) == p.intents \cap Hits(n) = q.intents \cap Hits(n)

\* A snapshot that follows n has the hit points of its payload.
Follows(s, n) == n \in DOMAIN s.fields => Struck(s.payload, s.fields[n], n)

LogStruck(n) ==
    \A i \in DOMAIN log :
        /\ Follows(log[i].start, n) /\ Follows(log[i].pre, n)
        /\ n \notin DOMAIN log[i].start.fields
              => SameBlows(log[i].start.payload, log[i].pre.payload, n)

OpenStruck(n) ==
    /\ Follows(StartOfRound, n)
    /\ n \notin DOMAIN StartOfRound.fields => SameBlows(StartOfRound.payload, payload, n)

Wounded(n) == LogStruck(n) /\ OpenStruck(n) /\ Struck(payload, world[n], n)

WoundsInv == failures \in Nat /\ (failures = 0 => \A n \in Npcs : Wounded(n))

LEMMA NpcsAreFields == \A n \in Npcs : n \in Fields /\ n \notin Carried /\ n # "qi"
BY NamesAssumption DEF Fields, Carried

LEMMA SheetAt ==
    ASSUME NEW f \in Partial, NEW g \in Values(Fields), NEW x \in Fields
    PROVE  Over(f, g)[x] = IF x \in DOMAIN f THEN f[x] ELSE g[x]
<1>1. DOMAIN g = Fields  BY DEF Values
<1> QED  BY <1>1 DEF Over

\* The round that goes on, once undone, is as its payload began.
LEMMA UndoneStruck ==
    ASSUME Typed, NEW n \in Npcs, OpenStruck(n), Struck(payload, world[n], n)
    PROVE  Struck(StartOfRound.payload, OpenUndone[n], n)
<1>1. StartOfRound.fields \in Partial  BY StartTyped DEF Snapshot
<1>2. OpenUndone[n] = IF n \in DOMAIN StartOfRound.fields THEN StartOfRound.fields[n]
                      ELSE world[n]
  BY <1>1, SheetAt, NpcsAreFields DEF OpenUndone, Typed
<1> QED  BY <1>2 DEF OpenStruck, Follows, Struck, SameBlows

LEMMA RewoundStruck ==
    ASSUME CombatInv, NEW n \in Npcs, Wounded(n), NEW r \in 1..MaxRound,
           NEW players \in Values(Carried), NEW s \in Snapshot,
           RewoundTo(r, players, s), Follows(s, n),
           n \notin DOMAIN s.fields => SameBlows(s.payload, StartOfRound.payload, n)
    PROVE  Struck(s.payload, world'[n], n)
<1>1. Typed  BY DEF CombatInv
<1>2. Struck(StartOfRound.payload, OpenUndone[n], n)
  BY <1>1, UndoneStruck DEF Wounded
<1> DEFINE under == Over(Reconciled(players, r), OpenUndone)
<1>3. under \in Values(Fields) /\ under[n] = OpenUndone[n]
  <2>1. Reconciled(players, r) \in Values(Carried)  BY <1>1, ReconciledTyped
  <2>2. Reconciled(players, r) \in Partial /\ n \notin DOMAIN Reconciled(players, r)
    BY <2>1, Sheets, NpcsAreFields DEF Values
  <2> QED  BY <1>1, <2>2, UndoneTyped, WholeSheet, SheetAt, NpcsAreFields
<1>4. world'[n] = IF n \in DOMAIN s.fields THEN s.fields[n] ELSE OpenUndone[n]
  <2>1. world' = Over(s.fields, under) /\ s.fields \in Partial  BY DEF Snapshot, RewoundTo
  <2> HIDE DEF under
  <2> QED  BY <1>3, <2>1, SheetAt, NpcsAreFields
<1> QED  BY <1>2, <1>4 DEF Follows, Struck, SameBlows

\* A step after which a round begins, and one that leaves the books alone.
LEMMA FreshWounds ==
    ASSUME Typed', NEW n \in Npcs, LogStruck(n)', Struck(payload, world[n], n)',
           snapshots'[round'] = None
    PROVE  Wounded(n)'
<1>1. StartOfRound' = [payload |-> payload', fields |-> NoFields']  BY DEF StartOfRound
<1>2. OpenStruck(n)'  BY <1>1, UndonePrimed DEF OpenStruck, Follows, SameBlows
<1> QED  BY <1>2 DEF Wounded

LEMMA QuietWounds ==
    ASSUME Typed, Typed', NEW n \in Npcs, Wounded(n),
           UNCHANGED <<payload, snapshots, round, log>>, world'[n] = world[n]
    PROVE  Wounded(n)'
<1>1. LogStruck(n)'  BY DEF Wounded, LogStruck, Follows, Struck, SameBlows
<1>2. Struck(payload, world[n], n)'  BY DEF Wounded, Struck
<1>3. CASE snapshots[round] = None
  BY <1>1, <1>2, <1>3, FreshWounds
<1>4. CASE snapshots[round] # None
  <2>1. StartOfRound' = StartOfRound  BY <1>4 DEF StartOfRound
  <2>2. OpenStruck(n)'
    BY <2>1 DEF Wounded, OpenStruck, Follows, Struck, SameBlows
  <2> QED  BY <1>1, <1>2, <2>2 DEF Wounded
<1> QED  BY <1>3, <1>4

-----------------------------------------------------------------------------
LEMMA BlowCounted ==
    ASSUME NEW p \in Payload, NEW i \in Intents, i \notin p.intents, NEW n \in Npcs
    PROVE  /\ Cardinality(p.intents \cap Hits(n)) \in Nat
           /\ Target[i] = n => Cardinality((p.intents \cup {i}) \cap Hits(n))
                                   = Cardinality(p.intents \cap Hits(n)) + 1
           /\ Target[i] # n => (p.intents \cup {i}) \cap Hits(n) = p.intents \cap Hits(n)
<1>1. IsFiniteSet(p.intents \cap Hits(n))  BY FS_Subset, NamesAssumption DEF Payload
<1>2. CASE Target[i] = n
  <2>1. (p.intents \cup {i}) \cap Hits(n) = (p.intents \cap Hits(n)) \cup {i}
    BY <1>2 DEF Hits
  <2>2. i \notin p.intents \cap Hits(n)  OBVIOUS
  <2> QED  BY <1>1, <1>2, <2>1, <2>2, FS_AddElement, FS_CardinalityType
<1>3. CASE Target[i] # n
  BY <1>1, <1>3, FS_CardinalityType DEF Hits
<1> QED  BY <1>2, <1>3

LEMMA ActKeepsWounds ==
    ASSUME CombatInv, CombatInv', NEW i \in Intents, Act(i), NEW n \in Npcs, Wounded(n)
    PROVE  Wounded(n)'
<1> USE DEF Act, story
<1>1. Typed /\ Typed'  BY DEF CombatInv
<1>2. /\ LogStruck(n) /\ OpenStruck(n) /\ Struck(payload, world[n], n)
      /\ n \in Fields /\ n \notin Carried /\ n # "qi"
  BY NpcsAreFields DEF Wounded
<1>3. LogStruck(n)'  BY <1>2 DEF LogStruck, Follows, Struck, SameBlows
<1>4. payload \in Payload /\ payload'.intents = payload.intents \cup {i}  BY <1>1 DEF Typed
<1>5. world'[n] = IF Target[i] = n THEN world[n] - 1 ELSE world[n]
  <2>1. world \in [Fields -> Int]  BY <1>1 DEF Typed, Values
  <2>2. Payment(i) \in Fields /\ Payment(i) # n  BY <1>2 DEF Payment, Fields, Carried
  <2>3. Target[i] \in Fields  BY NpcsAreFields, NamesAssumption
  <2> QED  BY <1>2, <2>1, <2>2, <2>3
<1>6. Struck(payload, world[n], n)'
  <2>1. world[n] \in Int  BY <1>1, <1>2 DEF Typed, Values
  <2> DEFINE old == Cardinality(payload.intents \cap Hits(n))
             all == Cardinality((payload.intents \cup {i}) \cap Hits(n))
  <2>2. old \in Nat /\ all = old + (IF Target[i] = n THEN 1 ELSE 0)
    <3>1. old \in Nat  BY <1>4, BlowCounted
    <3>2. CASE Target[i] = n
      <4>1. all = old + 1  BY <1>4, <3>2, BlowCounted
      <4> HIDE DEF old, all
      <4> QED  BY <3>1, <3>2, <4>1
    <3>3. CASE Target[i] # n
      <4>1. all = old  BY <1>4, <3>3, BlowCounted
      <4> HIDE DEF old, all
      <4> QED  BY <3>1, <3>3, <4>1
    <3> QED  BY <3>2, <3>3, <3>1
  <2>3. world[n] + old = Plenty  BY <1>2 DEF Struck
  <2>4. world'[n] + all = Plenty
    <3> HIDE DEF old, all
    <3> QED  BY <1>5, <2>1, <2>2, <2>3
  <2> QED  BY <1>4, <2>4 DEF Struck
<1> DEFINE put == Part(world, Touched(i))  new == Captured(Touched(i))
<1>7. StartOfRound' = new
  <2>1. snapshots'[round] = new  BY <1>1 DEF Typed
  <2>2. new # None
    <3>1. CASE snapshots[round] = None
      <4>1. new = [payload |-> payload, fields |-> put]  BY <3>1 DEF Captured
      <4>2. put \in Partial  BY <1>1, Sheets, PartOf DEF Typed
      <4>3. new \in Snapshot
        <5> HIDE DEF put, new
        <5> QED  BY <1>4, <4>1, <4>2 DEF Snapshot
      <4> QED  BY <4>3, NamesAssumption
    <3>2. CASE snapshots[round] # None
      <4>1. new = [snapshots[round] EXCEPT !.fields = Over(@, put)]  BY <3>2 DEF Captured
      <4>2. snapshots[round] \in Snapshot  BY <1>1, <3>2 DEF Typed
      <4>3. world \in Partial  BY <1>1, Sheets DEF Typed
      <4>4. Over(snapshots[round].fields, put) \in Partial
        BY <4>2, <4>3, PartOf, Overlay DEF Snapshot
      <4>5. new \in Snapshot  BY <4>1, <4>2, <4>4 DEF Snapshot
      <4> QED  BY <4>5, NamesAssumption
    <3> QED  BY <3>1, <3>2
  <2> QED  BY <2>1, <2>2 DEF StartOfRound
<1>8. /\ n \in DOMAIN put <=> Target[i] = n
      /\ n \in DOMAIN put => put[n] = world[n]
  <2>1. world \in Partial /\ DOMAIN world = Fields  BY <1>1, Sheets DEF Typed, Values
  <2>2. n \in Touched(i) <=> Target[i] = n  BY <1>2 DEF Touched, Payment, Carried
  <2>3. /\ DOMAIN put = Touched(i) \cap DOMAIN world
        /\ \A x \in Touched(i) \cap DOMAIN world : put[x] = world[x]
    BY <2>1, PartOf
  <2> HIDE DEF put
  <2> QED  BY <1>2, <2>1, <2>2, <2>3
<1>9. /\ new.payload = StartOfRound.payload
      /\ n \in DOMAIN new.fields <=> n \in DOMAIN StartOfRound.fields \/ Target[i] = n
      /\ n \in DOMAIN StartOfRound.fields => new.fields[n] = StartOfRound.fields[n]
      /\ n \in DOMAIN new.fields /\ n \notin DOMAIN StartOfRound.fields
            => new.fields[n] = world[n]
  <2>1. CASE snapshots[round] = None
    <3>1. new = [payload |-> payload, fields |-> put]  BY <2>1 DEF Captured
    <3>2. StartOfRound = [payload |-> payload, fields |-> NoFields]  BY <2>1 DEF StartOfRound
    <3>3. DOMAIN NoFields = {}  BY <1>1, StartTyped
    <3> HIDE DEF put
    <3> QED  BY <1>8, <3>1, <3>2, <3>3
  <2>2. CASE snapshots[round] # None
    <3>1. new = [snapshots[round] EXCEPT !.fields = Over(@, put)]  BY <2>2 DEF Captured
    <3>2. StartOfRound = snapshots[round]  BY <2>2 DEF StartOfRound
    <3>3. snapshots[round] \in Snapshot  BY <1>1, <2>2 DEF Typed
    <3> DEFINE kept == snapshots[round].fields
    <3>4. new.payload = snapshots[round].payload /\ new.fields = Over(kept, put)
      BY <3>1, <3>3 DEF Snapshot
    <3>5. kept \in Partial /\ put \in Partial
      BY <1>1, <3>3, Sheets, PartOf DEF Snapshot, Typed
    <3>6. /\ DOMAIN Over(kept, put) = DOMAIN kept \cup DOMAIN put
          /\ \A x \in DOMAIN kept \cup DOMAIN put :
                Over(kept, put)[x] = IF x \in DOMAIN kept THEN kept[x] ELSE put[x]
      <4> HIDE DEF kept, put
      <4> QED  BY <3>5, Overlay
    <3>7. StartOfRound.fields = kept  BY <3>2
    <3> HIDE DEF kept, put, new
    <3> QED  BY <1>8, <3>2, <3>4, <3>6, <3>7
  <2> QED  BY <2>1, <2>2
<1> HIDE DEF put, new
<1>10. Follows(StartOfRound, n)'
  <2>1. Follows(new, n)
    <3>1. CASE n \in DOMAIN StartOfRound.fields
      BY <1>2, <1>9, <3>1 DEF OpenStruck, Follows, Struck
    <3>2. CASE n \notin DOMAIN StartOfRound.fields
      BY <1>2, <1>9, <3>2 DEF OpenStruck, Follows, Struck, SameBlows
    <3> QED  BY <3>1, <3>2
  <2> QED  BY <1>7, <2>1 DEF Follows, Struck
<1>11. n \notin DOMAIN StartOfRound'.fields
          => SameBlows(StartOfRound'.payload, payload', n)
  <2> SUFFICES ASSUME n \notin DOMAIN new.fields
               PROVE  SameBlows(new.payload, payload', n)
    BY <1>7
  <2>1. n \notin DOMAIN StartOfRound.fields /\ Target[i] # n  BY <1>9
  <2>2. payload'.intents \cap Hits(n) = payload.intents \cap Hits(n)
    BY <1>4, <2>1, BlowCounted
  <2> QED  BY <1>2, <1>9, <2>1, <2>2 DEF OpenStruck, SameBlows
<1>12. OpenStruck(n)'  BY <1>10, <1>11 DEF OpenStruck, SameBlows
<1> QED  BY <1>3, <1>6, <1>12 DEF Wounded

LEMMA CommitKeepsWounds ==
    ASSUME CombatInv, CombatInv', Commit, NEW n \in Npcs, Wounded(n)
    PROVE  Wounded(n)'
<1> USE DEF Commit
<1>1. Typed /\ Typed' /\ Ordered  BY DEF CombatInv
<1>2. LogStruck(n) /\ OpenStruck(n) /\ Struck(payload, world[n], n)  BY DEF Wounded
<1> DEFINE e == [round |-> round, told |-> payload.pending,
                 players |-> entry.players, prePlayers |-> Part(world, Carried),
                 start |-> StartOfRound, pre |-> EndOfRound]
           k == Len(log)
<1>3. /\ e.start = StartOfRound /\ e.pre.payload = payload
      /\ e.pre.fields = Part(world, DOMAIN StartOfRound.fields)
  BY DEF EndOfRound
<1>4. DOMAIN log' = DOMAIN log \cup {k + 1} /\ log'[k + 1] = e
      /\ \A i \in DOMAIN log : log'[i] = log[i]
  <2> HIDE DEF e
  <2>1. log \in Seq(Entry) /\ log' = Append(log, e)  BY <1>1 DEF Typed, e
  <2> QED  BY <2>1
<1>5. Follows(e.pre, n)
  <2>1. n \in DOMAIN Part(world, DOMAIN StartOfRound.fields)
            => Part(world, DOMAIN StartOfRound.fields)[n] = world[n]
    BY DEF Part
  <2> QED  BY <1>2, <1>3, <2>1 DEF Follows, Struck
<1>6. LogStruck(n)'
  <2> HIDE DEF e, k
  <2> SUFFICES ASSUME NEW i \in DOMAIN log'
               PROVE  /\ Follows(log'[i].start, n) /\ Follows(log'[i].pre, n)
                      /\ n \notin DOMAIN log'[i].start.fields
                            => SameBlows(log'[i].start.payload, log'[i].pre.payload, n)
    BY DEF LogStruck, Follows, Struck, SameBlows
  <2>1. CASE i \in DOMAIN log
    BY <1>2, <1>4, <2>1 DEF LogStruck
  <2>2. CASE i = k + 1
    BY <1>2, <1>3, <1>4, <1>5, <2>2 DEF OpenStruck
  <2> QED  BY <1>4, <2>1, <2>2
<1>7. Struck(payload, world[n], n)'
  <2>1. payload'.intents = payload.intents  BY <1>1 DEF Typed, Payload
  <2> QED  BY <1>2, <2>1 DEF Struck
<1>8. snapshots'[round'] = None
  <2>1. round' \in Rounds /\ round' # round  BY <1>1, BoundsAssumption DEF Typed, Rounds
  <2> QED  BY <1>1, <2>1 DEF Ordered, Typed
<1> QED  BY <1>1, <1>6, <1>7, <1>8, FreshWounds

LEMMA RollbackKeepsWounds ==
    ASSUME CombatInv, CombatInv', Rollback, NEW n \in Npcs, Wounded(n)
    PROVE  Wounded(n)'
<1> USE DEF Rollback
<1>1. Typed /\ Typed' /\ Ordered /\ Open  BY DEF CombatInv
<1>2. LogStruck(n)  BY DEF Wounded
<1> DEFINE k == Len(log)  last == log[k]
<1>3. log \in Seq(Entry) /\ k \in Nat /\ k \in DOMAIN log /\ DOMAIN log = 1..k
  BY <1>1 DEF Typed
<1>4. last \in Entry  BY <1>3
<1>5. /\ last.round \in 1..MaxRound /\ last.players \in Values(Carried)
      /\ last.start \in Snapshot
  BY <1>4 DEF Entry
<1>6. /\ RewoundTo(last.round, last.players, last.start)
      /\ payload' = last.start.payload /\ log' = SubSeq(log, 1, k - 1)
  OBVIOUS
<1> HIDE DEF last
<1>7. /\ Follows(last.start, n)
      /\ n \notin DOMAIN last.start.fields
            => SameBlows(last.start.payload, last.pre.payload, n)
      /\ StartOfRound.payload.intents = last.pre.payload.intents
  BY <1>1, <1>2, <1>3 DEF LogStruck, Open, last
<1>8. Struck(last.start.payload, world'[n], n)
  BY <1>5, <1>6, <1>7, RewoundStruck DEF SameBlows
<1>9. Struck(payload, world[n], n)'  BY <1>6, <1>8 DEF Struck
<1>10. DOMAIN log' \subseteq DOMAIN log /\ \A i \in DOMAIN log' : log'[i] = log[i]
  BY <1>3, <1>6
<1>11. LogStruck(n)'
  BY <1>2, <1>10 DEF LogStruck, Follows, Struck, SameBlows
<1>12. snapshots'[round'] = None
  <2>1. last.round <= round  BY <1>1, <1>3 DEF Ordered, last
  <2>2. round' \in Rounds /\ \A r \in Rounds : snapshots'[r] = None
    BY <1>5, <1>6, <2>1, RewindTyped
  <2> QED  BY <2>2
<1> QED  BY <1>1, <1>9, <1>11, <1>12, FreshWounds

LEMMA SwipeKeepsWounds ==
    ASSUME CombatInv, CombatInv', SwipeBack <= 1, NEW i \in 1..MaxRound, Swipe(i),
           NEW n \in Npcs, Wounded(n)
    PROVE  Wounded(n)'
<1>1. Typed /\ Typed' /\ Ordered /\ Open  BY DEF CombatInv
<1>2. LogStruck(n)  BY DEF Wounded
<1> DEFINE k == Len(log)  e == log[k]
<1>3. i = k /\ log' = log  BY LastSwiped
<1>4. log \in Seq(Entry) /\ k \in DOMAIN log  BY <1>1, <1>3 DEF Typed, Swipe
<1>5. e \in Entry  BY <1>4
<1>6. e.round \in 1..MaxRound /\ e.prePlayers \in Values(Carried) /\ e.pre \in Snapshot
  BY <1>5 DEF Entry
<1>7. /\ RewoundTo(e.round, e.prePlayers, e.pre)
      /\ payload' = [e.pre.payload EXCEPT !.pending = {}]
  BY <1>3 DEF Swipe
<1> HIDE DEF e
<1>8. Follows(e.pre, n) /\ StartOfRound.payload.intents = e.pre.payload.intents
  BY <1>1, <1>2, <1>4 DEF LogStruck, Open, e
<1>9. Struck(e.pre.payload, world'[n], n)
  BY <1>6, <1>7, <1>8, RewoundStruck DEF SameBlows
<1>10. payload'.intents = e.pre.payload.intents  BY <1>6, <1>7 DEF Snapshot, Payload
<1>11. Struck(payload, world[n], n)'  BY <1>9, <1>10 DEF Struck
<1>12. LogStruck(n)'  BY <1>2, <1>3 DEF LogStruck, Follows, Struck, SameBlows
<1>13. snapshots'[round'] = None
  <2>1. e.round <= round  BY <1>1, <1>4 DEF Ordered, e
  <2>2. round' \in Rounds /\ \A r \in Rounds : snapshots'[r] = None
    BY <1>6, <1>7, <2>1, RewindTyped
  <2> QED  BY <2>2
<1> QED  BY <1>1, <1>11, <1>12, <1>13, FreshWounds

-----------------------------------------------------------------------------
LEMMA InitWounds == Init => WoundsInv
<1> SUFFICES ASSUME Init, NEW n \in Npcs PROVE Wounded(n)
  BY DEF Init, WoundsInv
<1>1. CombatInv  BY InitInv
<1>2. snapshots[round] = None  BY BoundsAssumption DEF Init, Rounds
<1>3. StartOfRound = [payload |-> payload, fields |-> NoFields]  BY <1>2 DEF StartOfRound
<1>4. DOMAIN NoFields = {}  BY <1>1, StartTyped DEF CombatInv
<1>5. OpenStruck(n)  BY <1>3, <1>4 DEF OpenStruck, Follows, SameBlows
<1>6. payload.intents \cap Hits(n) = {}  BY DEF Init
<1>7. Struck(payload, world[n], n)
  BY <1>6, FS_EmptySet, NpcsAreFields, BoundsAssumption DEF Init, Struck
<1> QED  BY <1>5, <1>7 DEF Init, Wounded, LogStruck

LEMMA NextKeepsWounds ==
    ASSUME CombatInv, CombatInv', SwipeBack <= 1, WoundsInv, [Next]_vars
    PROVE  WoundsInv'
<1>1. Typed /\ Typed'  BY DEF CombatInv
<1>2. CASE Abort
  BY <1>2 DEF Abort, WoundsInv
<1>3. CASE ~Abort
  <2>1. failures' = failures
    BY <1>3 DEF Next, Act, Buy, Judge, Commit, Rollback, Swipe, RewoundTo, vars
  <2> SUFFICES ASSUME failures = 0, NEW n \in Npcs PROVE Wounded(n)'
    BY <2>1 DEF WoundsInv
  <2>2. Wounded(n)  BY DEF WoundsInv
  <2>3. ASSUME NEW i \in Intents, Act(i) PROVE Wounded(n)'
    BY <2>2, <2>3, ActKeepsWounds
  <2>4. CASE Buy
    <3>1. world'[n] = world[n]
      <4>1. world \in [Fields -> Int]  BY <1>1 DEF Typed, Values
      <4> QED  BY <2>4, <4>1, NpcsAreFields DEF Buy, Carried
    <3> QED  BY <1>1, <2>2, <2>4, <3>1, QuietWounds DEF Buy, story
  <2>5. CASE Judge
    BY <1>1, <2>2, <2>5, QuietWounds DEF Judge, fight
  <2>6. CASE Commit
    BY <2>2, <2>6, CommitKeepsWounds
  <2>7. CASE Rollback
    BY <2>2, <2>7, RollbackKeepsWounds
  <2>8. ASSUME NEW i \in 1..MaxRound, Swipe(i) PROVE Wounded(n)'
    BY <2>2, <2>8, SwipeKeepsWounds
  <2>9. CASE UNCHANGED vars
    BY <1>1, <2>2, <2>9, QuietWounds DEF vars, fight, story
  <2> QED  BY <1>3, <2>3, <2>4, <2>5, <2>6, <2>7, <2>8, <2>9 DEF Next
<1> QED  BY <1>2, <1>3

(***************************************************************************)
(* Until a judgment fails, an action is felt exactly once by its target as *)
(* long as the server remembers it, and not at all once it is forgotten:   *)
(* the hit points that current_combat_extension_snapshot puts aside and    *)
(* restore_combat_extension_snapshot lays back fit the settled intents.    *)
(***************************************************************************)
THEOREM FeltExactlyOnce ==
    ASSUME SwipeBack <= 1
    PROVE  Spec => []HitUnlessFailed
<1>1. Init => CombatInv /\ WoundsInv  BY InitInv, InitWounds
<1>2. CombatInv /\ WoundsInv /\ [Next]_vars => (CombatInv /\ WoundsInv)'
  BY NextKeepsInv, NextKeepsWounds
<1>3. WoundsInv => HitUnlessFailed
  BY DEF WoundsInv, Wounded, Struck, Hits, HitUnlessFailed, HitOnce, Settled
<1> QED  BY <1>1, <1>2, <1>3, PTL DEF Spec
=============================================================================
