------------------------------- MODULE NatSets -------------------------------
(***************************************************************************)
(* Facts about sets of natural numbers, which are the positions in a file  *)
(* and the entries of a journal.                                           *)
(***************************************************************************)
EXTENDS Integers, FiniteSets, FiniteSetsExt, FiniteSetTheorems, WellFoundedInduction, TLAPS

\* A non-empty set of natural numbers has a least element.
LEMMA LeastNat ==
  ASSUME NEW S \in SUBSET Nat, S # {}
  PROVE  \E m \in S : \A k \in S : m <= k
<1>1. PICK m \in S : \A k \in S : ~(<<k, m>> \in OpToRel(<, Nat))
  BY WFMin, NatLessThanWellFounded
<1>2. ASSUME NEW a \in Nat, NEW b \in Nat, a < b
      PROVE  <<a, b>> \in OpToRel(<, Nat)
  <2>1. <<a, b>> \in Nat \X Nat
    OBVIOUS
  <2>2. <<a, b>>[1] < <<a, b>>[2]
    BY <1>2
  <2>3. QED
    BY <2>1, <2>2, Zenon DEF OpToRel
<1>3. \A k \in S : ~(k < m)
  BY <1>1, <1>2, Zenon
<1>4. QED
  BY <1>3

\* A non-empty bounded set of natural numbers has a greatest element.
LEMMA GreatestNat ==
  ASSUME NEW S \in SUBSET Nat, S # {}, NEW h \in Nat, \A k \in S : k <= h
  PROVE  \E m \in S : \A k \in S : k <= m
<1> DEFINE T == {x \in 0 .. h : h - x \in S}
<1>1. T \in SUBSET Nat
  OBVIOUS
<1>2. ASSUME NEW k \in S
      PROVE  h - k \in T
  <2>1. h - k \in 0 .. h /\ h - (h - k) = k
    OBVIOUS
  <2>2. QED
    BY <2>1
<1>3. T # {}
  BY <1>2
<1> HIDE DEF T
<1>4. PICK m \in T : \A k \in T : m <= k
  BY <1>1, <1>3, LeastNat
<1> USE DEF T
<1>5. h - m \in S /\ \A k \in S : k <= h - m
  BY <1>2, <1>4
<1>6. QED
  BY <1>5

\* Max of a non-empty bounded set of natural numbers.
LEMMA MaxNat ==
  ASSUME NEW S \in SUBSET Nat, S # {}, NEW h \in Nat, \A k \in S : k <= h
  PROVE  Max(S) \in S /\ \A k \in S : k <= Max(S)
<1>1. PICK m \in S : \A k \in S : k <= m
  BY GreatestNat
<1>2. QED
  BY <1>1 DEF Max

\* Min of a non-empty set of natural numbers.
LEMMA MinNat ==
  ASSUME NEW S \in SUBSET Nat, S # {}
  PROVE  Min(S) \in S /\ \A k \in S : Min(S) <= k
<1>1. PICK m \in S : \A k \in S : m <= k
  BY LeastNat
<1>2. QED
  BY <1>1 DEF Min

\* A finite set of c elements or more has a c-th one, counted from below.
LEMMA RankedFromBelow ==
  ASSUME NEW S \in SUBSET Nat, NEW h \in Nat, \A k \in S : k <= h,
         NEW c \in 1 .. Cardinality(S)
  PROVE  \E e \in S : Cardinality({k \in S : k <= e}) = c
<1> DEFINE Low(e) == {k \in S : k <= e}
           T == {e \in S : c <= Cardinality(Low(e))}
<1>1. IsFiniteSet(S) /\ Cardinality(S) \in Nat
  BY FS_BoundedSetOfNaturals, FS_CardinalityType
<1>2. \A e : IsFiniteSet(Low(e)) /\ Cardinality(Low(e)) \in Nat
  <2>1. \A e : Low(e) \in SUBSET S
    OBVIOUS
  <2> HIDE DEF Low
  <2>2. QED
    BY <1>1, <2>1, FS_Subset, FS_CardinalityType
<1>3. S # {}
  BY FS_EmptySet
<1>4. PICK top \in S : \A k \in S : k <= top
  BY <1>3, GreatestNat
<1>5. T # {}
  <2>1. Low(top) = S
    BY <1>4
  <2>2. QED
    BY <1>1, <2>1
<1>6. PICK m \in T : \A k \in T : m <= k
  <2>1. T \in SUBSET Nat
    OBVIOUS
  <2> HIDE DEF T
  <2>2. QED
    BY <1>5, <2>1, LeastNat
<1>7. ASSUME Cardinality(Low(m)) # c
      PROVE  FALSE
  <2> DEFINE U == Low(m) \ {m}
  <2>1. m \in Low(m) /\ c < Cardinality(Low(m))
    BY <1>2, <1>6, <1>7
  <2>2. /\ IsFiniteSet(U)
        /\ Cardinality(U) = Cardinality(Low(m)) - 1
    <3> HIDE DEF Low
    <3>1. QED
      BY <1>2, <2>1, FS_RemoveElement
  <2>3. c <= Cardinality(U)
    BY <1>2, <2>1, <2>2
  <2>4. U # {} /\ U \in SUBSET Nat /\ \A k \in U : k <= h
    <3>1. U \in SUBSET Nat /\ \A k \in U : k <= h
      OBVIOUS
    <3> HIDE DEF U
    <3>2. QED
      BY <2>3, <3>1, FS_EmptySet
  <2>5. PICK e \in U : \A k \in U : k <= e
    <3> HIDE DEF U
    <3>1. QED
      BY <2>4, GreatestNat
  <2>6. Low(e) = U
    <3>1. m \in Nat /\ e \in Nat /\ e <= m /\ e # m
      BY <1>6, <2>5
    <3>2. ASSUME NEW k \in S
          PROVE  k <= e <=> (k <= m /\ k # m)
      BY <2>5, <3>1
    <3>3. QED
      BY <3>2
  <2>7. e \in T
    BY <2>3, <2>6
  <2>8. QED
    BY <1>6, <2>7
<1>8. QED
  BY <1>6, <1>7

\* And one counted from above.
LEMMA RankedFromAbove ==
  ASSUME NEW S \in SUBSET Nat, NEW h \in Nat, \A k \in S : k <= h,
         NEW c \in 1 .. Cardinality(S)
  PROVE  \E e \in S : Cardinality({k \in S : k >= e}) = c
<1> DEFINE High(e) == {k \in S : k >= e}
           T == {e \in S : c <= Cardinality(High(e))}
<1>1. IsFiniteSet(S) /\ Cardinality(S) \in Nat
  BY FS_BoundedSetOfNaturals, FS_CardinalityType
<1>2. \A e : IsFiniteSet(High(e)) /\ Cardinality(High(e)) \in Nat
  <2>1. \A e : High(e) \in SUBSET S
    OBVIOUS
  <2> HIDE DEF High
  <2>2. QED
    BY <1>1, <2>1, FS_Subset, FS_CardinalityType
<1>3. S # {}
  BY FS_EmptySet
<1>4. PICK bottom \in S : \A k \in S : bottom <= k
  BY <1>3, LeastNat
<1>5. T # {}
  <2>1. High(bottom) = S
    BY <1>4
  <2>2. QED
    BY <1>1, <2>1
<1>6. PICK m \in T : \A k \in T : k <= m
  <2>1. T \in SUBSET Nat /\ \A k \in T : k <= h
    OBVIOUS
  <2> HIDE DEF T
  <2>2. QED
    BY <1>5, <2>1, GreatestNat
<1>7. ASSUME Cardinality(High(m)) # c
      PROVE  FALSE
  <2> DEFINE U == High(m) \ {m}
  <2>1. m \in High(m) /\ c < Cardinality(High(m))
    BY <1>2, <1>6, <1>7
  <2>2. /\ IsFiniteSet(U)
        /\ Cardinality(U) = Cardinality(High(m)) - 1
    <3> HIDE DEF High
    <3>1. QED
      BY <1>2, <2>1, FS_RemoveElement
  <2>3. c <= Cardinality(U)
    BY <1>2, <2>1, <2>2
  <2>4. U # {} /\ U \in SUBSET Nat
    <3>1. U \in SUBSET Nat
      OBVIOUS
    <3> HIDE DEF U
    <3>2. QED
      BY <2>3, <3>1, FS_EmptySet
  <2>5. PICK e \in U : \A k \in U : e <= k
    <3> HIDE DEF U
    <3>1. QED
      BY <2>4, LeastNat
  <2>6. High(e) = U
    <3>1. m \in Nat /\ e \in Nat /\ e >= m /\ e # m
      BY <1>6, <2>5
    <3>2. ASSUME NEW k \in S
          PROVE  k >= e <=> (k >= m /\ k # m)
      BY <2>5, <3>1
    <3>3. QED
      BY <3>2
  <2>7. e \in T
    BY <2>3, <2>6
  <2>8. QED
    BY <1>6, <2>7
<1>8. QED
  BY <1>6, <1>7
=============================================================================
