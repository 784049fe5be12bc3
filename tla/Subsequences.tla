---------------------------- MODULE Subsequences ----------------------------
(***************************************************************************)
(* Numbers in order, and what a filter leaves of a list.  Both are written *)
(* without recursion, so that they can be reasoned about.                  *)
(***************************************************************************)
EXTENDS Integers, Sequences, FiniteSets, FiniteSetTheorems, SequenceTheorems, TLAPS

\* How many members of a set of numbers come up to i.
Rank(S, i) == Cardinality({j \in S : j <= i})

\* The members of a set of numbers, smallest first.
Sorted(S) == [k \in 1..Cardinality(S) |-> CHOOSE i \in S : Rank(S, i) = k]

\* The entries of s at the positions I, in their order.
Subsequence(s, I) == [k \in 1..Cardinality(I) |-> s[Sorted(I)[k]]]

----------------------------------------------------------------------------
(***************************************************************************)
(* That they do what they say.                                             *)
(***************************************************************************)

\* The ranks of a set of n numbers are 1..n, in their order.
LEMMA Ranks ==
    ASSUME NEW S \in SUBSET Nat, IsFiniteSet(S)
    PROVE  /\ Cardinality(S) \in Nat
           /\ \A i \in S : Rank(S, i) \in 1..Cardinality(S)
           /\ \A i, j \in S : i < j => Rank(S, i) < Rank(S, j)
           /\ \A k \in 1..Cardinality(S) : \E i \in S : Rank(S, i) = k
<1> DEFINE UpTo(i) == {j \in S : j <= i}
<1>1. Cardinality(S) \in Nat
  BY FS_CardinalityType
<1>2. ASSUME NEW i \in S
      PROVE  /\ IsFiniteSet(UpTo(i)) /\ Rank(S, i) \in 1..Cardinality(S)
             /\ Rank(S, i) = Cardinality(UpTo(i))
  <2>1. UpTo(i) \in SUBSET S /\ i \in UpTo(i)
    OBVIOUS
  <2>2. Rank(S, i) = Cardinality(UpTo(i))
    BY DEF Rank
  <2> HIDE DEF UpTo
  <2>3. IsFiniteSet(UpTo(i)) /\ Cardinality(UpTo(i)) <= Cardinality(S)
    BY <2>1, FS_Subset
  <2>4. Cardinality(UpTo(i)) \in Nat /\ Cardinality(UpTo(i)) # 0
    BY <2>1, <2>3, FS_CardinalityType, FS_EmptySet
  <2> QED
    BY <1>1, <2>2, <2>3, <2>4
<1>3. ASSUME NEW i \in S, NEW j \in S, i < j PROVE Rank(S, i) < Rank(S, j)
  <2>1. i \in Nat /\ j \in Nat /\ \A k \in S : k \in Nat
    OBVIOUS
  <2>2. UpTo(i) \in SUBSET UpTo(j) /\ j \in UpTo(j) /\ j \notin UpTo(i)
    <3>1. ASSUME NEW k \in S, k <= i PROVE k <= j
      BY <1>3, <2>1, <3>1
    <3>2. ~(j <= i) /\ j <= j
      BY <1>3, <2>1
    <3> QED
      BY <3>1, <3>2
  <2> HIDE DEF UpTo
  <2>3. /\ Cardinality(UpTo(i)) <= Cardinality(UpTo(j))
        /\ Cardinality(UpTo(i)) # Cardinality(UpTo(j))
    BY <1>2, <2>2, FS_Subset
  <2> QED
    BY <1>2, <2>3
<1> HIDE DEF UpTo
<1>4. \A k \in 1..Cardinality(S) : \E i \in S : Rank(S, i) = k
  <2> DEFINE n == Cardinality(S)
             rank == [i \in S |-> Rank(S, i)]
  <2>1. rank \in [S -> 1..n]
    BY <1>2
  <2>2. ASSUME NEW i \in S, NEW j \in S, i # j PROVE rank[i] # rank[j]
    <3>1. i \in Nat /\ j \in Nat /\ Rank(S, i) \in Nat /\ Rank(S, j) \in Nat
      BY <1>2
    <3>2. i < j \/ j < i
      BY <2>2, <3>1
    <3> QED
      BY <1>3, <3>1, <3>2
  <2>3. rank \in Injection(S, 1..n)
    <3> HIDE DEF rank, n
    <3> QED
      BY <2>1, <2>2 DEF Injection, IsInjective
  <2>4. IsFiniteSet(1..n) /\ Cardinality(1..n) = n
    BY <1>1, FS_Interval
  <2>5. rank \in Surjection(S, 1..n)
    <3> HIDE DEF rank
    <3> QED
      BY <2>3, <2>4, FS_Injection
  <2>6. \A k \in 1..n : \E i \in S : rank[i] = k
    <3> HIDE DEF rank, n
    <3> QED
      BY <2>5 DEF Surjection
  <2> QED
    BY <2>6
<1> QED
  BY <1>1, <1>2, <1>3, <1>4

\* A set of numbers in their order: all of them, each once.
LEMMA SortedIs ==
    ASSUME NEW S \in SUBSET Nat, IsFiniteSet(S)
    PROVE  /\ Cardinality(S) \in Nat
           /\ Sorted(S) \in [1..Cardinality(S) -> S]
           /\ \A k, l \in 1..Cardinality(S) : k < l => Sorted(S)[k] < Sorted(S)[l]
           /\ \A i \in S : \E k \in 1..Cardinality(S) : Sorted(S)[k] = i
<1> DEFINE n == Cardinality(S)
<1>1. n \in Nat
  BY Ranks
<1>2. ASSUME NEW k \in 1..n PROVE Sorted(S)[k] \in S /\ Rank(S, Sorted(S)[k]) = k
  <2>1. \E i \in S : Rank(S, i) = k
    BY Ranks
  <2>2. Sorted(S)[k] = CHOOSE i \in S : Rank(S, i) = k
    BY DEF Sorted
  <2> QED
    BY <2>1, <2>2
<1>3. Sorted(S) \in [1..n -> S]
  <2>1. DOMAIN Sorted(S) = 1..n /\ Sorted(S) = [k \in 1..n |-> Sorted(S)[k]]
    BY DEF Sorted
  <2> HIDE DEF n
  <2> QED
    BY <1>2, <2>1
<1>4. ASSUME NEW k \in 1..n, NEW l \in 1..n, k < l PROVE Sorted(S)[k] < Sorted(S)[l]
  <2> DEFINE i == Sorted(S)[k]
             j == Sorted(S)[l]
  <2>1. i \in S /\ j \in S /\ Rank(S, i) = k /\ Rank(S, j) = l
    BY <1>2
  <2> HIDE DEF i, j
  <2>2. i \in Nat /\ j \in Nat /\ i # j
    BY <1>4, <2>1
  <2>3. ~(j < i)
    BY <1>1, <1>4, <2>1, Ranks
  <2> QED
    BY <2>2, <2>3 DEF i, j
<1>5. ASSUME NEW i \in S PROVE \E k \in 1..n : Sorted(S)[k] = i
  <2>1. Rank(S, i) \in 1..n
    BY Ranks
  <2> DEFINE k == Rank(S, i)
             j == Sorted(S)[k]
  <2>2. j \in S /\ Rank(S, j) = k
    BY <1>2, <2>1
  <2> HIDE DEF j
  <2>3. ~(i < j) /\ ~(j < i)
    BY <1>1, <2>1, <2>2, Ranks
  <2>4. i = j
    BY <2>2, <2>3
  <2> QED
    BY <2>1, <2>4 DEF j
<1> QED
  BY <1>1, <1>3, <1>4, <1>5

\* What a filter leaves: the entries that were picked, in their order.
LEMMA SubsequenceIs ==
    ASSUME NEW T, NEW s \in Seq(T), NEW I \in SUBSET DOMAIN s
    PROVE  /\ Subsequence(s, I) \in Seq(T)
           /\ \A i \in I : \E k \in DOMAIN Subsequence(s, I) : Subsequence(s, I)[k] = s[i]
           /\ \E at \in [DOMAIN Subsequence(s, I) -> I] :
                 \A k, l \in DOMAIN Subsequence(s, I) :
                    /\ Subsequence(s, I)[k] = s[at[k]]
                    /\ k < l => at[k] < at[l]
<1> DEFINE n == Cardinality(I)
           rest == Subsequence(s, I)
<1>1. DOMAIN s = 1..Len(s) /\ Len(s) \in Nat /\ \A i \in DOMAIN s : s[i] \in T
  BY LenProperties, ElementOfSeq
<1>2. IsFiniteSet(I) /\ I \in SUBSET Nat
  <2>1. IsFiniteSet(1..Len(s)) /\ I \in SUBSET (1..Len(s))
    BY <1>1, FS_Interval
  <2> QED
    BY <2>1, FS_Subset
<1>3. /\ n \in Nat /\ Sorted(I) \in [1..n -> I]
      /\ \A k, l \in 1..n : k < l => Sorted(I)[k] < Sorted(I)[l]
      /\ \A i \in I : \E k \in 1..n : Sorted(I)[k] = i
  BY <1>2, SortedIs
<1>4. rest = [k \in 1..n |-> s[Sorted(I)[k]]]
  BY DEF Subsequence
<1> HIDE DEF n, rest
<1>5. rest \in [1..n -> T] /\ DOMAIN rest = 1..n
  BY <1>1, <1>3, <1>4
<1>6. rest \in Seq(T)
  BY <1>3, <1>5, SeqDef
<1>7. \A i \in I : \E k \in DOMAIN rest : rest[k] = s[i]
  BY <1>3, <1>4, <1>5
<1>8. \A k, l \in DOMAIN rest :
         rest[k] = s[Sorted(I)[k]] /\ (k < l => Sorted(I)[k] < Sorted(I)[l])
  BY <1>3, <1>4, <1>5
<1> QED
  BY <1>3, <1>5, <1>6, <1>7, <1>8 DEF rest
=============================================================================
