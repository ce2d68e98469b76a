---------------------------- MODULE JournalProofs ----------------------------
(***************************************************************************)
(* Where the calls of libsystemd leave a handle, for every journal V of    *)
(* finitely many entries: lemmas for JournalReaderProofs.                  *)
(***************************************************************************)
EXTENDS Journal, NatSets

\* A journal of which h bounds the entries.
Bounded(V, h) == V \in SUBSET Nat /\ h \in Nat /\ \A e \in V : e <= h

\* What lies on either side of a handle is a part of the journal.
LEMMA SidesBounded ==
  ASSUME NEW V, NEW h, Bounded(V, h), NEW loc
  PROVE  Bounded(Ahead(V, loc), h) /\ Bounded(Behind(V, loc), h)
BY DEF Bounded, Ahead, Behind

\* How many of n entries a skip moves over.
LEMMA AtMostFacts ==
  ASSUME NEW S, NEW h, Bounded(S, h), NEW n \in Nat
  PROVE  /\ AtMost(n, S) \in 0 .. Cardinality(S)
         /\ AtMost(n, S) \in Nat
         /\ n = 0 \/ S = {} => AtMost(n, S) = 0
         /\ n > 0 /\ S # {} => AtMost(n, S) > 0
         /\ n = 1 /\ S # {} => AtMost(n, S) = 1
<1>1. IsFiniteSet(S)
  BY FS_BoundedSetOfNaturals DEF Bounded
<1>2. Cardinality(S) \in Nat /\ (Cardinality(S) = 0 <=> S = {})
  BY <1>1, FS_CardinalityType, FS_EmptySet
<1>3. QED
  BY <1>2 DEF AtMost

\* Next goes to the entry that follows, unless the handle is at the tail.
LEMMA NextsFacts ==
  ASSUME NEW V, NEW h, Bounded(V, h), NEW loc, NEW e \in Nexts(V, loc)
  PROVE  /\ e \in V
         /\ loc.kind # "tail" => e \in Ahead(V, loc) /\ \A k \in Ahead(V, loc) : e <= k
<1> DEFINE A == Ahead(V, loc)
<1>1. A \in SUBSET Nat /\ A \subseteq V
  BY DEF Bounded, Ahead
<1>2. CASE A # {}
  <2>1. e = Min(A)
    BY <1>2 DEF Nexts
  <2> HIDE DEF A
  <2>2. QED
    BY <1>1, <1>2, <2>1, MinNat DEF A
<1>3. CASE A = {}
  BY <1>3 DEF Nexts
<1>4. QED
  BY <1>2, <1>3

\* Previous goes to the entry before, unless the handle is at the head.
LEMMA PreviousesFacts ==
  ASSUME NEW V, NEW h, Bounded(V, h), NEW loc, NEW e \in Previouses(V, loc)
  PROVE  /\ e \in V
         /\ loc.kind # "head" => e \in Behind(V, loc) /\ \A k \in Behind(V, loc) : k <= e
<1> DEFINE B == Behind(V, loc)
<1>1. B \in SUBSET Nat /\ B \subseteq V /\ h \in Nat /\ \A k \in B : k <= h
  BY DEF Bounded, Behind
<1>2. CASE B # {}
  <2>1. e = Max(B)
    BY <1>2 DEF Previouses
  <2> HIDE DEF B
  <2>2. QED
    BY <1>1, <1>2, <2>1, MaxNat DEF B
<1>3. CASE B = {}
  BY <1>3 DEF Previouses
<1>4. QED
  BY <1>2, <1>3

\* NextSkip stays where it is or goes to the last entry it moves over.
LEMMA NextSkipFacts ==
  ASSUME NEW V, NEW h, Bounded(V, h), NEW loc, NEW n \in Nat
  PROVE  /\ n = 0 => NextSkip(V, loc, n) = loc
         /\ Ahead(V, loc) = {} => NextSkip(V, loc, n) = loc
         /\ n > 0 /\ Ahead(V, loc) # {} =>
              \E e \in Ahead(V, loc) : NextSkip(V, loc, n) = On(e)
<1> DEFINE A == Ahead(V, loc)
           c == AtMost(n, A)
<1>1. Bounded(A, h)
  BY SidesBounded
<1>2. /\ c \in 0 .. Cardinality(A)
      /\ n = 0 \/ A = {} => c = 0
      /\ n > 0 /\ A # {} => c > 0
  <2> HIDE DEF A
  <2>1. QED
    BY <1>1, AtMostFacts
<1>3. NextSkip(V, loc, n) =
        IF c = 0 THEN loc ELSE On(CHOOSE e \in A : Cardinality({k \in A : k <= e}) = c)
  BY DEF NextSkip, SkippedNext
<1>4. n > 0 /\ A # {} => \E e \in A : Cardinality({k \in A : k <= e}) = c
  <2> HIDE DEF A
  <2>1. c > 0 => c \in 1 .. Cardinality(A)
    BY <1>2, FS_CardinalityType, FS_BoundedSetOfNaturals, <1>1 DEF Bounded
  <2>2. QED
    BY <1>1, <1>2, <2>1, RankedFromBelow DEF Bounded
<1> DEFINE m == CHOOSE e \in A : Cardinality({k \in A : k <= e}) = c
<1>5. n > 0 /\ A # {} => m \in A /\ Cardinality({k \in A : k <= m}) = c
  <2> HIDE DEF A, c
  <2>1. QED
    BY <1>4, Zenon
<1>6. NextSkip(V, loc, n) = IF c = 0 THEN loc ELSE On(m)
  BY <1>3
<1> HIDE DEF c, m
<1>7. CASE n > 0 /\ A # {}
  BY <1>2, <1>5, <1>6, <1>7 DEF c
<1>8. CASE ~(n > 0 /\ A # {})
  BY <1>2, <1>6, <1>8
<1>9. QED
  BY <1>7, <1>8

\* PreviousSkip likewise; it counts the entries it moves over.
LEMMA PreviousSkipFacts ==
  ASSUME NEW V, NEW h, Bounded(V, h), NEW loc, NEW n \in Nat
  PROVE  /\ n = 0 => PreviousSkip(V, loc, n) = loc
         /\ Behind(V, loc) = {} => PreviousSkip(V, loc, n) = loc
         /\ n > 0 /\ Behind(V, loc) # {} =>
              \E e \in Behind(V, loc) :
                /\ PreviousSkip(V, loc, n) = On(e)
                /\ Cardinality({k \in Behind(V, loc) : k >= e}) = AtMost(n, Behind(V, loc))
<1> DEFINE B == Behind(V, loc)
           c == AtMost(n, B)
<1>1. Bounded(B, h)
  BY SidesBounded
<1>2. /\ c \in 0 .. Cardinality(B)
      /\ n = 0 \/ B = {} => c = 0
      /\ n > 0 /\ B # {} => c > 0
  <2> HIDE DEF B
  <2>1. QED
    BY <1>1, AtMostFacts
<1>3. PreviousSkip(V, loc, n) =
        IF c = 0 THEN loc ELSE On(CHOOSE e \in B : Cardinality({k \in B : k >= e}) = c)
  BY DEF PreviousSkip, SkippedPrev
<1>4. n > 0 /\ B # {} => \E e \in B : Cardinality({k \in B : k >= e}) = c
  <2> HIDE DEF B
  <2>1. c > 0 => c \in 1 .. Cardinality(B)
    BY <1>2, FS_CardinalityType, FS_BoundedSetOfNaturals, <1>1 DEF Bounded
  <2>2. QED
    BY <1>1, <1>2, <2>1, RankedFromAbove DEF Bounded
<1> DEFINE m == CHOOSE e \in B : Cardinality({k \in B : k >= e}) = c
<1>5. n > 0 /\ B # {} => m \in B /\ Cardinality({k \in B : k >= m}) = c
  <2> HIDE DEF B, c
  <2>1. QED
    BY <1>4, Zenon
<1>6. PreviousSkip(V, loc, n) = IF c = 0 THEN loc ELSE On(m)
  BY <1>3
<1> HIDE DEF c, m
<1>7. CASE n > 0 /\ B # {}
  BY <1>2, <1>5, <1>6, <1>7 DEF c
<1>8. CASE ~(n > 0 /\ B # {})
  BY <1>2, <1>6, <1>8
<1>9. QED
  BY <1>7, <1>8

\* A skip stays where it is or ends on an entry.
LEMMA SkipsLand ==
  ASSUME NEW V, NEW h, Bounded(V, h), NEW loc, NEW n \in Nat
  PROVE  /\ NextSkip(V, loc, n) = loc \/ \E e \in V : NextSkip(V, loc, n) = On(e)
         /\ PreviousSkip(V, loc, n) = loc \/ \E e \in V : PreviousSkip(V, loc, n) = On(e)
<1>1. Ahead(V, loc) \subseteq V /\ Behind(V, loc) \subseteq V
  BY DEF Ahead, Behind
<1>2. NextSkip(V, loc, n) = loc \/ \E e \in V : NextSkip(V, loc, n) = On(e)
  BY <1>1, NextSkipFacts
<1>3. CASE n > 0 /\ Behind(V, loc) # {}
  <2>1. PICK e \in Behind(V, loc) :
               /\ PreviousSkip(V, loc, n) = On(e)
               /\ Cardinality({k \in Behind(V, loc) : k >= e}) = AtMost(n, Behind(V, loc))
    BY <1>3, PreviousSkipFacts
  <2>2. QED
    BY <1>1, <1>2, <2>1
<1>4. CASE ~(n > 0 /\ Behind(V, loc) # {})
  <2>1. PreviousSkip(V, loc, n) = loc
    BY <1>4, PreviousSkipFacts
  <2>2. QED
    BY <1>2, <2>1
<1>5. QED
  BY <1>3, <1>4

\* One step back from the tail is the last entry.
LEMMA LastEntry ==
  ASSUME NEW V, NEW h, Bounded(V, h), V # {}
  PROVE  PreviousSkip(V, AtTail, 1) = On(Max(V)) /\ Max(V) \in V /\ \A k \in V : k <= Max(V)
<1>1. Behind(V, AtTail) = V
  BY DEF Behind, AtTail
<1>2. PICK e \in V : /\ PreviousSkip(V, AtTail, 1) = On(e)
                     /\ Cardinality({k \in V : k >= e}) = AtMost(1, V)
  BY <1>1, PreviousSkipFacts
<1>3. AtMost(1, V) = 1
  BY AtMostFacts
<1>4. Max(V) \in V /\ \A k \in V : k <= Max(V)
  BY MaxNat DEF Bounded
<1> DEFINE T == {k \in V : k >= e}
<1>5. IsFiniteSet(T)
  <2>1. T \in SUBSET Nat /\ h \in Nat /\ \A k \in T : k <= h
    BY DEF Bounded
  <2> HIDE DEF T
  <2>2. QED
    BY <2>1, FS_BoundedSetOfNaturals
<1>6. e \in T /\ Max(V) \in T
  BY <1>4 DEF Bounded
<1>7. e = Max(V)
  <2> HIDE DEF T
  <2>1. Cardinality(T) = 1
    BY <1>2, <1>3 DEF T
  <2>2. \E x : T = {x}
    BY <1>5, <2>1, FS_Singleton
  <2>3. QED
    BY <1>6, <2>2
<1>8. QED
  BY <1>2, <1>4, <1>7
=============================================================================
