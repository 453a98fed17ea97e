----------------------------- MODULE OrderProofs -----------------------------
(* Nth(S, 1), Nth(S, 2), ... are the members of S, each once and in order.    *)
EXTENDS Order, FiniteSetTheorems, WellFoundedInduction, TLAPS

LEMMA Least ==
  ASSUME NEW S \in SUBSET Nat, S # {}
  PROVE  \E i \in S : \A j \in S : i <= j
<1> DEFINE R == OpToRel(<, Nat)
<1>1. \A j, i \in Nat : <<j, i>> \in R <=> j < i
  BY DEF OpToRel
<1>2. IsWellFoundedOn(R, Nat)
  BY NatLessThanWellFounded
<1> HIDE DEF R
<1>3. PICK i \in S : \A j \in S : ~ (<<j, i>> \in R)
  BY <1>2, WFMin
<1>4. i \in Nat /\ \A j \in S : j \in Nat /\ ~ (j < i)
  BY <1>1, <1>3
<1>5. QED
  BY <1>4

LEMMA RankIs ==
  ASSUME NEW S \in SUBSET Nat, IsFiniteSet(S), NEW i \in S, NEW j \in S
  PROVE  /\ Rank(S, i) \in 1..Cardinality(S)
         /\ i < j => Rank(S, i) < Rank(S, j)
<1> DEFINE below(k) == {m \in S : m <= k}
<1>1. /\ IsFiniteSet(below(i)) /\ IsFiniteSet(below(j))
      /\ Cardinality(below(i)) <= Cardinality(S)
  BY FS_Subset
<1>2. Cardinality(below(i)) \in Nat /\ Cardinality(below(j)) \in Nat /\ Cardinality(S) \in Nat
  BY <1>1, FS_CardinalityType
<1>0. \A m \in S : m \in Int
  OBVIOUS
<1>3. i \in below(i)
  BY <1>0
<1>4. Cardinality(below(i)) # 0
  BY <1>1, <1>3, FS_EmptySet
<1>5. ASSUME i < j PROVE Cardinality(below(i)) < Cardinality(below(j))
  <2>4. \A m \in S : m <= i => m <= j
    BY <1>0, <1>5
  <2>1. below(i) \in SUBSET below(j) /\ j \in below(j) /\ j \notin below(i)
    <3>1. below(i) \in SUBSET below(j)
      BY <2>4
    <3>2. j \in below(j) /\ j \notin below(i)
      BY <1>0, <1>5
    <3>3. QED
      BY <3>1, <3>2
  <2> HIDE DEF below
  <2>2. /\ Cardinality(below(i)) <= Cardinality(below(j))
        /\ Cardinality(below(i)) # Cardinality(below(j))
    BY <1>1, <2>1, FS_Subset
  <2>3. QED
    BY <1>2, <2>2
<1>6. QED
  BY <1>1, <1>2, <1>4, <1>5 DEF Rank

LEMMA NthIs ==
  ASSUME NEW S \in SUBSET Nat, IsFiniteSet(S), NEW n \in 1..Cardinality(S)
  PROVE  Nth(S, n) \in S /\ Rank(S, Nth(S, n)) = n
<1> DEFINE T == 1..Cardinality(S)
           rank == [i \in S |-> Rank(S, i)]
<1>1. Cardinality(S) \in Nat
  BY FS_CardinalityType
<1>2. IsFiniteSet(T) /\ Cardinality(T) = Cardinality(S)
  BY <1>1, FS_Interval
<1>3. rank \in [S -> T]
  BY RankIs
<1>4. ASSUME NEW i \in S, NEW j \in S, Rank(S, i) = Rank(S, j) PROVE i = j
  <2>1. Rank(S, i) \in Nat /\ Rank(S, j) \in Nat
    BY <1>1, RankIs
  <2>2. ~ (i < j) /\ ~ (j < i)
    BY <1>4, <2>1, RankIs
  <2>3. QED
    BY <2>2
<1>5. rank \in Injection(S, T)
  BY <1>3, <1>4 DEF Injection, IsInjective
<1> HIDE DEF T
<1>6. rank \in Surjection(S, T)
  BY <1>2, <1>5, FS_Injection
<1>7. \E i \in S : Rank(S, i) = n
  BY <1>6 DEF Surjection, T
<1>8. QED
  BY <1>7 DEF Nth

LEMMA NthOfRank ==
  ASSUME NEW S \in SUBSET Nat, IsFiniteSet(S), NEW i \in S
  PROVE  Nth(S, Rank(S, i)) = i
<1>1. Rank(S, i) \in 1..Cardinality(S)
  BY RankIs
<1>2. PICK j \in S : j = Nth(S, Rank(S, i)) /\ Rank(S, j) = Rank(S, i)
  BY <1>1, NthIs
<1>3. Cardinality(S) \in Nat /\ Rank(S, i) \in Int /\ Rank(S, j) \in Int
  BY <1>1, <1>2, FS_CardinalityType
<1>4. ~ (i < j) /\ ~ (j < i)
  BY <1>2, <1>3, RankIs
<1>5. QED
  BY <1>2, <1>4
=============================================================================
