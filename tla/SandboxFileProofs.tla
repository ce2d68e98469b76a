-------------------------- MODULE SandboxFileProofs --------------------------
(***************************************************************************)
(* What ReadManager.read and the arithmetic of rm.offset guarantee for     *)
(* every chunk of every file, as lemmas for FilesReaderProofs.             *)
(***************************************************************************)
EXTENDS SandboxFile, NatSets

\* The topmost of a non-empty set of lines: what Pop returns.
LEMMA TopmostLine ==
  ASSUME NEW S \in SUBSET Line, S # {}
  PROVE  \E l \in S : \A k \in S : l.Offset <= k.Offset
<1> DEFINE T == {p \in Nat : \E l \in S : l.Offset = p}
<1>1. \A l \in S : l.Offset \in T
  BY DEF Line
<1>2. T # {} /\ T \in SUBSET Nat
  BY <1>1
<1> HIDE DEF T
<1>3. PICK m \in T : \A k \in T : m <= k
  BY <1>2, LeastNat
<1>4. PICK l \in S : l.Offset = m
  BY DEF T
<1>5. QED
  BY <1>1, <1>3, <1>4

-----------------------------------------------------------------------------
\* The breaks of a chunk, and where its last returned line ends.
LEMMA LinesEndFacts ==
  ASSUME NEW nl \in SUBSET Nat, NEW lo \in Nat, NEW hi \in Nat, lo < hi
  PROVE  /\ LinesEnd(nl, lo, hi) \in lo .. hi
         /\ DropsLast(nl, lo, hi) =>
              /\ LinesEnd(nl, lo, hi) \in Breaks(nl, lo, hi)
              /\ \A p \in Breaks(nl, lo, hi) : p <= LinesEnd(nl, lo, hi)
         /\ ~DropsLast(nl, lo, hi) => LinesEnd(nl, lo, hi) = hi
         /\ Delta(nl, lo, hi) =
              IF DropsLast(nl, lo, hi) THEN hi - LinesEnd(nl, lo, hi) - 1 ELSE 0
<1> DEFINE B == Breaks(nl, lo, hi)
<1>0. \A p \in B : p \in nl /\ p \in Nat /\ lo <= p /\ p < hi
  BY DEF Breaks
<1>1. B \in SUBSET Nat /\ \A p \in B : p <= hi
  BY <1>0
<1>2. CASE DropsLast(nl, lo, hi)
  <2>1. B # {}
    BY <1>2 DEF DropsLast
  <2> HIDE DEF B
  <2>2. Max(B) \in B /\ \A p \in B : p <= Max(B)
    BY <1>1, <2>1, MaxNat
  <2>3. LinesEnd(nl, lo, hi) = Max(B)
    BY <1>2 DEF LinesEnd, B
  <2>4. Delta(nl, lo, hi) = hi - (Max(B) + 1)
    BY <1>2 DEF Delta, B
  <2>5. Max(B) \in lo .. hi
    BY <1>0, <2>2 DEF B
  <2>6. hi - (Max(B) + 1) = hi - Max(B) - 1
    BY <2>5
  <2>7. QED
    BY <1>2, <2>2, <2>3, <2>4, <2>5, <2>6 DEF B
<1>3. CASE ~DropsLast(nl, lo, hi)
  BY <1>3 DEF LinesEnd, Delta
<1>4. QED
  BY <1>2, <1>3

\* rm.offset moves to the end of the last returned line, or to one byte before
\* it when the chunk is full and nothing was dropped.
LEMMA NextOffsetFacts ==
  ASSUME NEW nl \in SUBSET Nat, NEW lo \in Nat, NEW hi \in Nat, lo < hi,
         hi <= lo + ChunkSize
  PROVE  /\ NextOffset(nl, lo, hi) \in lo .. hi
         /\ NextOffset(nl, lo, hi) <= LinesEnd(nl, lo, hi)
         /\ LinesEnd(nl, lo, hi) - 1 <= NextOffset(nl, lo, hi)
         /\ DropsLast(nl, lo, hi) => NextOffset(nl, lo, hi) = LinesEnd(nl, lo, hi)
<1> DEFINE e == LinesEnd(nl, lo, hi)
           d == Delta(nl, lo, hi)
           n == NextOffset(nl, lo, hi)
<1>1. /\ e \in lo .. hi
      /\ DropsLast(nl, lo, hi) => e < hi /\ d = hi - e - 1
      /\ ~DropsLast(nl, lo, hi) => e = hi /\ d = 0
  BY LinesEndFacts DEF Breaks
<1>2. n = IF e + 1 - lo < ChunkSize THEN lo + (e + 1 - lo) - 1
                                    ELSE lo + ChunkSize - d - 1
  BY DEF NextOffset, LinesLen
<1>3. ChunkSize \in Nat /\ ChunkSize >= 2
  BY ChunkSizeAssumption
<1> HIDE DEF e, d, n
<1>4. n \in lo .. hi /\ n <= e /\ e - 1 <= n /\ (DropsLast(nl, lo, hi) => n = e)
  BY <1>1, <1>2, <1>3
<1>5. QED
  BY <1>4 DEF n, e

\* The buffered lines lie in order between the start of the chunk and the end
\* of the last returned line, hold no newline and do not touch each other.
LEMMA BufferedFacts ==
  ASSUME NEW nl \in SUBSET Nat, NEW lo \in Nat, NEW hi \in Nat, lo < hi
  PROVE  /\ Buffered(nl, lo, hi) \in SUBSET Line
         /\ \A l \in Buffered(nl, lo, hi) :
              /\ l.Size > 0
              /\ lo <= l.Offset
              /\ LineEnd(l) <= LinesEnd(nl, lo, hi)
              /\ l.Offset = lo \/ l.Offset - 1 \in nl
              /\ LineEnd(l) \in nl \/ LineEnd(l) = hi
              /\ \A p \in nl : p < l.Offset \/ LineEnd(l) <= p
         /\ \A l, k \in Buffered(nl, lo, hi) :
              l = k \/ LineEnd(l) < k.Offset \/ LineEnd(k) < l.Offset
<1> DEFINE S == Buffered(nl, lo, hi)
<1>1. ASSUME NEW l \in S
      PROVE  /\ l \in Line
             /\ l.Size > 0
             /\ lo <= l.Offset
             /\ LineEnd(l) <= LinesEnd(nl, lo, hi)
             /\ l.Offset = lo \/ l.Offset - 1 \in Breaks(nl, lo, hi)
             /\ LineEnd(l) \in Breaks(nl, lo, hi) \/ LineEnd(l) = hi
             /\ \A p \in Breaks(nl, lo, hi) : p < l.Offset \/ LineEnd(l) <= p
             /\ LineEnd(l) <= hi
  <2>1. /\ l \in Split(nl, lo, hi)
        /\ l.Size > 0
        /\ DropsLast(nl, lo, hi) => LineEnd(l) # hi
    BY DEF Buffered, ReadLines
  <2>2. /\ l \in [Offset : lo .. hi, Size : 0 .. hi - lo]
        /\ l.Offset = lo \/ l.Offset - 1 \in Breaks(nl, lo, hi)
        /\ LineEnd(l) = hi \/ LineEnd(l) \in Breaks(nl, lo, hi)
        /\ \A p \in Breaks(nl, lo, hi) : p < l.Offset \/ LineEnd(l) <= p
    BY <2>1 DEF Split
  <2>3. l \in Line /\ lo <= l.Offset
    BY <2>2 DEF Line
  <2>4. LineEnd(l) <= hi
    BY <2>2, <2>3 DEF Breaks, LineEnd, Line
  <2>5. LineEnd(l) <= LinesEnd(nl, lo, hi)
    <3>1. CASE DropsLast(nl, lo, hi)
      BY <2>1, <2>2, <3>1, LinesEndFacts
    <3>2. CASE ~DropsLast(nl, lo, hi)
      <4>1. LinesEnd(nl, lo, hi) = hi
        BY <3>2, LinesEndFacts
      <4>2. QED
        BY <2>4, <4>1
    <3>3. QED
      BY <3>1, <3>2
  <2>6. QED
    BY <2>1, <2>2, <2>3, <2>4, <2>5
<1>2. ASSUME NEW l \in S, NEW p \in nl
      PROVE  p < l.Offset \/ LineEnd(l) <= p
  BY <1>1 DEF Breaks, Line, LineEnd
<1>3. ASSUME NEW l \in S, NEW k \in S, l # k
      PROVE  LineEnd(l) < k.Offset \/ LineEnd(k) < l.Offset
  <2>1. /\ l \in Line /\ k \in Line /\ l.Offset \in Nat /\ k.Offset \in Nat
        /\ l.Size \in Nat /\ k.Size \in Nat
    BY <1>1 DEF Line
  <2>2. CASE l.Offset = k.Offset
    <3>1. LineEnd(l) = LineEnd(k)
      BY <1>1, <2>1, <2>2 DEF LineEnd, Breaks
    <3>2. l.Size = k.Size
      BY <2>1, <2>2, <3>1 DEF LineEnd
    <3>3. QED
      BY <1>3, <2>1, <2>2, <3>2 DEF Line
  <2>3. CASE l.Offset < k.Offset
    <3>1. k.Offset - 1 \in Breaks(nl, lo, hi)
      BY <1>1, <2>1, <2>3
    <3>2. LineEnd(l) <= k.Offset - 1
      BY <1>1, <2>1, <2>3, <3>1
    <3>3. QED
      BY <2>1, <3>2 DEF LineEnd
  <2>4. CASE k.Offset < l.Offset
    <3>1. l.Offset - 1 \in Breaks(nl, lo, hi)
      BY <1>1, <2>1, <2>4
    <3>2. LineEnd(k) <= l.Offset - 1
      BY <1>1, <2>1, <2>4, <3>1
    <3>3. QED
      BY <2>1, <3>2 DEF LineEnd
  <2>5. QED
    BY <2>1, <2>2, <2>3, <2>4
<1>4. QED
  BY <1>1, <1>2, <1>3 DEF Breaks

\* Every byte of a chunk in front of the end of the last returned line is a
\* newline or lies in a buffered line.
LEMMA BufferedCover ==
  ASSUME NEW nl \in SUBSET Nat, NEW lo \in Nat, NEW hi \in Nat, lo < hi,
         NEW p \in lo .. LinesEnd(nl, lo, hi) - 1, p \notin nl
  PROVE  \E l \in Buffered(nl, lo, hi) : l.Offset <= p /\ p < LineEnd(l)
<1> DEFINE B == Breaks(nl, lo, hi)
           Below == {q \in B : q < p}
           Above == {q \in B : p < q}
<1>1. /\ LinesEnd(nl, lo, hi) \in lo .. hi
      /\ p \in Nat /\ lo <= p /\ p < hi /\ p < LinesEnd(nl, lo, hi)
  BY LinesEndFacts
<1>2. B \in SUBSET Nat /\ p \notin B /\ \A q \in B : lo <= q /\ q < hi
  BY DEF Breaks
<1>3. PICK a \in lo .. p : /\ a = lo \/ a - 1 \in B
                           /\ \A q \in B : q < p => q < a
  <2>1. CASE Below = {}
    BY <1>1, <1>2, <2>1
  <2>2. CASE Below # {}
    <3>1. Below \in SUBSET Nat /\ \A q \in Below : q <= p
      BY <1>1, <1>2
    <3> HIDE DEF Below
    <3>2. PICK m \in Below : \A q \in Below : q <= m
      BY <1>1, <2>2, <3>1, GreatestNat
    <3> USE DEF Below
    <3>3. m + 1 \in lo .. p /\ (m + 1) - 1 = m
      BY <1>1, <1>2, <3>2
    <3>4. QED
      BY <1>1, <1>2, <3>2, <3>3
  <2>3. QED
    BY <2>1, <2>2
<1>4. PICK b \in p + 1 .. LinesEnd(nl, lo, hi) :
             /\ b \in B \/ (b = hi /\ ~DropsLast(nl, lo, hi))
             /\ \A q \in B : p < q => b <= q
  <2>1. CASE Above = {}
    <3>1. ~DropsLast(nl, lo, hi) /\ LinesEnd(nl, lo, hi) = hi
      BY <1>1, <2>1, LinesEndFacts
    <3>2. QED
      BY <1>1, <2>1, <3>1
  <2>2. CASE Above # {}
    <3>1. Above \in SUBSET Nat
      BY <1>2
    <3> HIDE DEF Above
    <3>2. PICK m \in Above : \A q \in Above : m <= q
      BY <2>2, <3>1, LeastNat
    <3> USE DEF Above
    <3>3. m \in p + 1 .. LinesEnd(nl, lo, hi)
      BY <1>1, <1>2, <3>2, LinesEndFacts
    <3>4. QED
      BY <3>2, <3>3
  <2>3. QED
    BY <2>1, <2>2
<1> DEFINE l == [Offset |-> a, Size |-> b - a]
<1>5. a \in Nat /\ b \in Nat /\ a < b /\ b <= hi /\ lo <= a /\ LineEnd(l) = b
  BY <1>1 DEF LineEnd
<1>6. l \in [Offset : lo .. hi, Size : 0 .. hi - lo]
  BY <1>5
<1>7. \A q \in B : q < l.Offset \/ LineEnd(l) <= q
  BY <1>1, <1>2, <1>3, <1>4, <1>5
<1>8. l \in Split(nl, lo, hi)
  BY <1>3, <1>4, <1>5, <1>6, <1>7 DEF Split
<1>9. DropsLast(nl, lo, hi) => LineEnd(l) # hi
  BY <1>2, <1>4, <1>5
<1>10. l \in Buffered(nl, lo, hi)
  BY <1>5, <1>8, <1>9 DEF Buffered, ReadLines
<1>11. QED
  BY <1>5, <1>10

-----------------------------------------------------------------------------
\* The pieces of a chunk are finitely many, each determined by its start.
LEMMA SplitFinite ==
  ASSUME NEW nl \in SUBSET Nat, NEW lo \in Nat, NEW hi \in Nat
  PROVE  Split(nl, lo, hi) \in SUBSET Line /\ IsFiniteSet(Split(nl, lo, hi))
<1> DEFINE S == Split(nl, lo, hi)
           f == [l \in S |-> l.Offset]
<1>1. ASSUME NEW l \in S
      PROVE  /\ l \in Line /\ l.Offset \in lo .. hi /\ l.Size \in Nat
             /\ LineEnd(l) \in Nat /\ l.Offset <= LineEnd(l) /\ LineEnd(l) <= hi
             /\ LineEnd(l) = hi \/ LineEnd(l) \in Breaks(nl, lo, hi)
             /\ \A p \in Breaks(nl, lo, hi) : p < l.Offset \/ LineEnd(l) <= p
  <2>1. /\ l \in [Offset : lo .. hi, Size : 0 .. hi - lo]
        /\ LineEnd(l) = hi \/ LineEnd(l) \in Breaks(nl, lo, hi)
        /\ \A p \in Breaks(nl, lo, hi) : p < l.Offset \/ LineEnd(l) <= p
    BY DEF Split
  <2>2. l \in Line /\ l.Offset \in lo .. hi /\ l.Size \in Nat
    BY <2>1 DEF Line
  <2>3. LineEnd(l) \in Nat /\ l.Offset <= LineEnd(l)
    BY <2>2 DEF LineEnd
  <2>4. LineEnd(l) <= hi
    BY <2>1, <2>3 DEF Breaks
  <2>5. QED
    BY <2>1, <2>2, <2>3, <2>4
<1>2. ASSUME NEW l \in S, NEW k \in S, l.Offset = k.Offset
      PROVE  l = k
  <2>1. LineEnd(l) = LineEnd(k)
    BY <1>1, <1>2 DEF Breaks
  <2>2. l.Size = k.Size
    BY <1>1, <1>2, <2>1 DEF LineEnd
  <2>3. QED
    BY <1>1, <1>2, <2>2 DEF Line
<1>3. f \in Injection(S, lo .. hi)
  BY <1>1, <1>2 DEF Injection, IsInjective
<1>4. IsFiniteSet(lo .. hi)
  BY FS_Interval
<1>5. QED
  <2> HIDE DEF f, S
  <2>1. IsFiniteSet(S)
    BY <1>3, <1>4, FS_Injection
  <2>2. QED
    BY <1>1, <2>1 DEF S

\* Read from the bottom, a chunk returns at least one line, and what calcOffset
\* subtracts and skips is an integer.
LEMMA ReversedFacts ==
  ASSUME NEW nl \in SUBSET Nat, NEW lo \in Nat, NEW hi \in Nat, lo < hi
  PROVE  /\ Cardinality(ReversedLines(nl, lo, hi)) \in Nat
         /\ ReversedDelta(nl, lo, hi) \in Nat
         /\ \A n \in Int : Rewind(ReversedLines(nl, lo, hi), hi, n) \in Int
<1> DEFINE B == Breaks(nl, lo, hi)
           R == ReversedLines(nl, lo, hi)
<1>1. \A p \in B : p \in Nat /\ lo <= p /\ p < hi
  BY DEF Breaks
<1>2. R \in SUBSET Line /\ IsFiniteSet(R)
  <2>1. R \in SUBSET Split(nl, lo, hi)
    BY DEF ReversedLines
  <2> HIDE DEF R
  <2>2. QED
    BY <2>1, SplitFinite, FS_Subset
<1>3. R # {}
  <2>1. CASE B = {}
    <3> DEFINE l == [Offset |-> lo, Size |-> hi - lo]
    <3>1. LineEnd(l) = hi /\ l \in [Offset : lo .. hi, Size : 0 .. hi - lo]
      BY DEF LineEnd
    <3>2. l \in Split(nl, lo, hi)
      BY <2>1, <3>1 DEF Split
    <3>3. ~DropsLast(nl, lo, hi)
      BY <2>1 DEF DropsLast
    <3>4. QED
      BY <3>2, <3>3 DEF ReversedLines
  <2>2. CASE B # {}
    <3>1. B \in SUBSET Nat /\ \A p \in B : p <= hi
      BY <1>1
    <3> HIDE DEF B
    <3>2. PICK m \in B : \A p \in B : p <= m
      BY <2>2, <3>1, GreatestNat
    <3> DEFINE l == [Offset |-> m + 1, Size |-> hi - (m + 1)]
    <3>3. m \in Nat /\ lo <= m /\ m < hi
      BY <1>1
    <3>4. LineEnd(l) = hi /\ l \in [Offset : lo .. hi, Size : 0 .. hi - lo]
      BY <3>3 DEF LineEnd
    <3>5. l.Offset - 1 \in B /\ \A p \in B : p < l.Offset
      BY <1>1, <3>2, <3>3
    <3>6. l \in Split(nl, lo, hi) /\ l.Offset # lo
      BY <3>3, <3>4, <3>5 DEF Split, B
    <3>7. QED
      BY <3>6 DEF ReversedLines
  <2>3. QED
    BY <2>1, <2>2
<1>4. ReversedDelta(nl, lo, hi) \in Nat
  <2>1. CASE DropsLast(nl, lo, hi)
    <3>1. B # {} /\ B \in SUBSET Nat
      BY <1>1, <2>1 DEF DropsLast
    <3> HIDE DEF B
    <3>2. PICK m \in B : \A p \in B : m <= p
      BY <3>1, LeastNat
    <3>3. Min(B) \in B
      BY <3>2 DEF Min
    <3>4. Min(B) - lo \in Nat
      BY <1>1, <3>3
    <3>5. QED
      BY <2>1, <3>4 DEF ReversedDelta, B
  <2>2. CASE ~DropsLast(nl, lo, hi)
    BY <2>2 DEF ReversedDelta
  <2>3. QED
    BY <2>1, <2>2
<1>5. ASSUME NEW n \in Int
      PROVE  Rewind(R, hi, n) \in Int
  <2> HIDE DEF R
  <2>1. \E l \in R : \A k \in R : l.Offset <= k.Offset
    BY <1>2, <1>3, TopmostLine
  <2>2. StopLine(R, n) \in R
    BY <2>1 DEF StopLine
  <2>3. QED
    BY <1>2, <2>2 DEF Rewind, Line
<1>6. Cardinality(R) \in Nat
  <2> HIDE DEF R
  <2>1. QED
    BY <1>2, FS_CardinalityType
<1>7. QED
  BY <1>4, <1>5, <1>6
=============================================================================
