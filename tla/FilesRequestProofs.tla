-------------------------- MODULE FilesRequestProofs --------------------------
(***************************************************************************)
(* What a request for a task's log gets, for every chunk size, file and    *)
(* request and any number of reconnections: a tail of the file's whole     *)
(* lines (FilesReader implements LogTail), as many of them as a range asks *)
(* for, from where ?cursor=END and a negative skip put its start.          *)
(***************************************************************************)
EXTENDS FilesReaderProofs

(***************************************************************************)
(* The refinement: a byte the task writes may complete a line and is Grow, *)
(* setting up without Last-Event-ID is Start, a line that is sent is       *)
(* Deliver; every other step is a stutter.                                 *)
(***************************************************************************)
Offsets == [i \in 1 .. Len(received) |-> received[i].Offset]

\* What the refinement mapping gives delivered and resumable.
Delivered == IF Tailing THEN Offsets ELSE <<>>
Resumable == Tailing /\ lastEventID # None

\* Steps of LogTail, in terms of the mapping.
LEMMA Mapped ==
  /\ UNCHANGED LineTail!vars <=>
       UNCHANGED <<WholeLines, begin, Delivered, Resumable>>
  /\ LineTail!Grow <=>
       /\ \E new \in WholeLines' :
            /\ \A old \in WholeLines : old < new
            /\ WholeLines' = WholeLines \cup {new}
       /\ UNCHANGED <<begin, Delivered, Resumable>>
  /\ LineTail!Start <=>
       /\ ~Resumable
       /\ Delivered' = <<>>
       /\ UNCHANGED <<WholeLines, Resumable>>
  /\ LineTail!Position = IF Delivered = <<>> THEN begin ELSE Delivered[Len(Delivered)]
  /\ LineTail!Deliver <=>
       /\ \E item \in WholeLines :
            /\ LineTail!Position < item
            /\ \A between \in WholeLines :
                 LineTail!Position < between /\ between < item => between \in {}
            /\ Delivered' = Append(Delivered, item)
       /\ Resumable => Resumable'
       /\ UNCHANGED <<WholeLines, begin>>
BY DEF LineTail!vars, LineTail!Grow, LineTail!Start, LineTail!Deliver,
       LineTail!Position, Delivered, Resumable, Offsets

\* The offsets of what was sent are a sequence of the same length.
LEMMA OffsetsFacts ==
  ASSUME TypeOK
  PROVE  /\ Offsets \in Seq(Nat) /\ Len(Offsets) = Len(received)
         /\ received = <<>> <=> Offsets = <<>>
         /\ received # <<>> => Offsets[Len(Offsets)] = LastLine.Offset
<1>1. received \in Seq(SentLine) /\ Len(received) \in Nat
  BY LineTypes DEF TypeOK
<1>2. \A i \in 1 .. Len(received) : received[i].Offset \in Nat
  BY LineTypes
<1>3. Offsets \in [1 .. Len(received) -> Nat]
  BY <1>2 DEF Offsets
<1>4. Offsets \in Seq(Nat) /\ Len(Offsets) = Len(received)
  BY <1>1, <1>3
<1>5. received = <<>> <=> Len(received) = 0
  BY <1>1, EmptySeq
<1>6. Offsets = <<>> <=> Len(Offsets) = 0
  BY <1>4, EmptySeq
<1>7. received # <<>> => Offsets[Len(Offsets)] = LastLine.Offset
  BY <1>1, <1>4, <1>5 DEF Offsets, LastLine
<1>8. QED
  BY <1>4, <1>5, <1>6, <1>7

\* A line more is an offset more.
LEMMA OffsetsAppend ==
  ASSUME TypeOK, NEW l \in SentLine, received' = Append(received, l)
  PROVE  Offsets' = Append(Offsets, l.Offset)
<1>1. /\ received \in Seq(SentLine) /\ Len(received) \in Nat
      /\ Offsets \in Seq(Nat) /\ Len(Offsets) = Len(received) /\ l.Offset \in Nat
  BY LineTypes, OffsetsFacts DEF TypeOK, SentLine
<1> DEFINE A == Append(Offsets, l.Offset)
           n == Len(received)
<1>2. /\ Len(received') = n + 1 /\ received'[n + 1] = l
      /\ \A i \in 1 .. n : received'[i] = received[i]
  BY <1>1, AppendProperties
<1>3. /\ A \in Seq(Nat) /\ Len(A) = n + 1 /\ A[n + 1] = l.Offset
      /\ \A i \in 1 .. n : A[i] = Offsets[i]
  BY <1>1, AppendProperties
<1>4. DOMAIN A = 1 .. n + 1 /\ A = [i \in 1 .. n + 1 |-> A[i]]
  BY <1>3, LenProperties
<1>5. Offsets' = [i \in 1 .. n + 1 |-> received'[i].Offset]
  BY <1>2 DEF Offsets
<1>6. \A i \in 1 .. n + 1 : A[i] = received'[i].Offset
  <2>1. TAKE i \in 1 .. n + 1
  <2>2. i \in 1 .. n \/ i = n + 1
    BY <1>1
  <2>3. i \in 1 .. n => Offsets[i] = received[i].Offset
    BY DEF Offsets
  <2>4. QED
    BY <1>2, <1>3, <2>2, <2>3
<1>7. QED
  BY <1>4, <1>5, <1>6

\* The mapping depends on these variables only.
LEMMA Unmoved ==
  ASSUME UNCHANGED <<size, nl, req, received, lastEventID, begin>>
  PROVE  UNCHANGED <<WholeLines, begin, Delivered, Resumable>>
<1>1. UNCHANGED Tailing
  BY DEF Tailing
<1>2. QED
  BY <1>1 DEF WholeLines, Delivered, Resumable, Offsets

\* A reader that is set up for a client without an id starts anew.
LEMMA StartMapped ==
  ASSUME UNCHANGED <<size, nl>>, received' = <<>>, lastEventID = None, lastEventID' = None
  PROVE  LineTail!Start
<1>1. UNCHANGED WholeLines
  BY DEF WholeLines
<1>2. Offsets' = <<>>
  <2>1. Len(received') = 0
    OBVIOUS
  <2>2. 1 .. 0 = {}
    OBVIOUS
  <2>3. QED
    BY <2>1, <2>2 DEF Offsets
<1>3. Delivered' = <<>>
  BY <1>2 DEF Delivered
<1>4. ~Resumable /\ UNCHANGED Resumable
  BY DEF Resumable
<1>5. QED
  BY <1>1, <1>3, <1>4, Mapped

\* A byte completes at most one line, the last.
LEMMA WriteMapped ==
  ASSUME Inv, Write
  PROVE  [LineTail!Next]_(LineTail!vars)
<1>1. /\ size' = size + 1 /\ (nl' = nl \/ nl' = nl \cup {size})
      /\ UNCHANGED <<req, received, lastEventID, begin>>
  BY DEF Write, client
<1>2. size \in Nat /\ nl \in SUBSET Nat /\ \A p \in nl : p \in Nat /\ p < size
  <2>1. size \in Nat /\ \A p \in nl : p \in 0 .. size - 1
    BY DEF Inv, TypeOK
  <2>2. QED
    BY <2>1
<1>3. UNCHANGED <<Delivered, Resumable>>
  <2>1. CASE Tailing' = Tailing
    BY <1>1, <2>1 DEF Delivered, Resumable, Offsets
  <2>2. CASE Tailing' # Tailing
    <3>1. begin = size
      BY <1>1, <2>2 DEF Tailing
    <3>2. received = <<>>
      <4>1. SUFFICES ASSUME received # <<>>
                     PROVE  FALSE
        OBVIOUS
      <4>2. /\ LastLine.Size > 0 /\ begin <= LastLine.Offset /\ LineEnd(LastLine) <= size
            /\ LastLine.Offset \in Nat /\ LastLine.Size \in Nat
        BY <4>1, LineTypes DEF Inv, History, LastLine
      <4>3. QED
        BY <1>2, <3>1, <4>2 DEF LineEnd
    <3>3. Offsets = <<>> /\ Offsets' = <<>>
      BY <1>1, <3>2, OffsetsFacts DEF Offsets, Inv
    <3>4. lastEventID = None
      BY <3>2 DEF Inv, History
    <3>5. QED
      BY <1>1, <3>3, <3>4 DEF Delivered, Resumable
  <2>3. QED
    BY <2>1, <2>2
<1>4. CASE nl' = nl
  <2>1. WholeLines' = WholeLines
    BY <1>1, <1>2, <1>4 DEF WholeLines
  <2>2. QED
    BY <1>1, <1>3, <2>1, Mapped
<1>5. CASE nl' = nl \cup {size}
  <2> DEFINE Unfinished(p) == p \in 1 .. size - 1 /\ p - 1 \in nl /\ \A q \in nl : q < p
  <2>1. \A p : p \in WholeLines' <=> p \in WholeLines \/ Unfinished(p)
    <3>1. ASSUME NEW p, p \in WholeLines'
          PROVE  p \in WholeLines \/ Unfinished(p)
      <4>1. /\ p \in 1 .. size + 1 /\ p \notin nl /\ p # size /\ p - 1 \in nl'
            /\ \E q \in nl' : p < q
        BY <1>1, <1>5, <3>1 DEF WholeLines
      <4>2. p \in 1 .. size - 1
        BY <1>2, <1>5, <4>1
      <4>3. p - 1 \in nl
        BY <1>2, <1>5, <4>1, <4>2
      <4>4. CASE \E q \in nl : p < q
        BY <1>2, <4>1, <4>2, <4>3, <4>4 DEF WholeLines
      <4>5. CASE ~\E q \in nl : p < q
        BY <1>2, <4>1, <4>2, <4>3, <4>5
      <4>6. QED
        BY <4>4, <4>5
    <3>2. ASSUME NEW p, p \in WholeLines
          PROVE  p \in WholeLines'
      BY <1>1, <1>2, <1>5, <3>2 DEF WholeLines
    <3>3. ASSUME NEW p, Unfinished(p)
          PROVE  p \in WholeLines'
      BY <1>1, <1>2, <1>5, <3>3 DEF WholeLines
    <3>4. QED
      BY <3>1, <3>2, <3>3
  <2>2. CASE \E p : Unfinished(p)
    <3>1. PICK new : Unfinished(new)
      BY <2>2
    <3>2. ASSUME NEW p, Unfinished(p)
          PROVE  p = new
      BY <1>2, <3>1, <3>2
    <3>3. WholeLines' = WholeLines \cup {new} /\ new \in WholeLines'
      BY <2>1, <3>1, <3>2
    <3>4. \A old \in WholeLines : old < new
      BY <1>2, <3>1 DEF WholeLines
    <3>5. LineTail!Grow
      BY <1>1, <1>3, <3>3, <3>4, Mapped
    <3>6. QED
      BY <3>5 DEF LineTail!Next
  <2>3. CASE ~\E p : Unfinished(p)
    <3>1. WholeLines' = WholeLines
      BY <2>1, <2>3
    <3>2. QED
      BY <1>1, <1>3, <3>1, Mapped
  <2>4. QED
    BY <2>2, <2>3
<1>6. QED
  BY <1>1, <1>4, <1>5

\* The first byte of a whole line.
LEMMA WholeStarts ==
  ASSUME TypeOK, NEW l, l.Offset \in Nat, l.Size \in Nat, Whole(l)
  PROVE  l.Offset \in WholeLines /\ l.Offset \notin nl
<1>1. /\ l.Size > 0 /\ l.Offset - 1 \in nl /\ LineEnd(l) \in nl
      /\ \A p \in nl : p < l.Offset \/ LineEnd(l) <= p
  BY DEF Whole
<1>2. size \in Nat /\ \A p \in nl : p \in 0 .. size - 1
  BY DEF TypeOK
<1>3. l.Offset < LineEnd(l) /\ LineEnd(l) \in Nat
  BY <1>1 DEF LineEnd
<1>4. l.Offset \notin nl
  BY <1>1, <1>3
<1>5. l.Offset \in 1 .. size
  BY <1>1, <1>2, <1>3
<1>6. QED
  BY <1>1, <1>3, <1>4, <1>5 DEF WholeLines

\* The line that Read takes from the buffer is the next whole line.
LEMMA TakeMapped ==
  ASSUME Inv, pc = "read", NEW S \in SUBSET Line, S # {}, NEW off \in Nat,
         Reading(S, off), Take(Pop(S), S \ {Pop(S)}, off)
  PROVE  [LineTail!Next]_(LineTail!vars)
<1> DEFINE m == Pop(S)
<1>1. UNCHANGED <<size, nl, req, begin>>
  BY DEF Take, file
<1>2. UNCHANGED <<WholeLines, Tailing>>
  BY <1>1 DEF WholeLines, Tailing
<1>3. CASE ~Tailing
  <2>1. UNCHANGED <<Delivered, Resumable>>
    BY <1>2, <1>3 DEF Delivered, Resumable
  <2>2. QED
    BY <1>1, <1>2, <2>1, Mapped
<1>4. CASE Tailing
  <2>1. begin > 0 /\ begin \in nl /\ req.skip <= 0
    BY <1>4 DEF Tailing
  <2>2. skip <= 0
    BY <2>1 DEF Inv, Phase
  <2>3. received' = Append(received, Sent(m)) /\ lastEventID' = EventID(m)
    <3>1. ~(skip > 0 /\ skipped < skip)
      BY <2>2 DEF Inv, TypeOK
    <3>2. QED
      BY <3>1 DEF Take
  <2>4. /\ m \in S /\ m \in Line /\ m.Offset \in Nat /\ m.Size \in Nat
        /\ Sent(m) \in SentLine /\ Sent(m).Offset = m.Offset
    BY PopFacts DEF Line, Sent, SentLine
  <2>5. TypeOK /\ Inv' /\ begin \in Nat
    BY TakeStep DEF Inv, TypeOK
  <2>6. Whole(m)
    BY <2>1, <2>4 DEF Reading, WholeOK
  <2>7. m.Offset \in WholeLines /\ m.Offset \notin nl
    BY <2>4, <2>5, <2>6, WholeStarts
  <2>8. Delivered = Offsets /\ Delivered' = Append(Offsets, m.Offset)
    BY <1>2, <1>4, <2>3, <2>4, <2>5, OffsetsAppend DEF Delivered
  <2>9. /\ received \in Seq(SentLine) /\ Len(received) \in Nat
        /\ Len(received') = Len(received) + 1
        /\ received'[Len(received) + 1] = Sent(m)
        /\ \A i \in 1 .. Len(received) : received'[i] = received[i]
    BY <2>3, <2>4, <2>5, LineTypes, AppendProperties DEF TypeOK
  <2>10. \A b \in WholeLines : b \in Nat /\ b \notin nl /\ b - 1 \in nl
    BY DEF WholeLines
  <2>11. /\ LineTail!Position < m.Offset
         /\ \A b \in WholeLines : ~(LineTail!Position < b /\ b < m.Offset)
    <3>1. CASE received = <<>>
      <4>1. LineTail!Position = begin
        BY <2>5, <2>8, <3>1, OffsetsFacts, Mapped
      <4>2. Len(received) = 0 /\ received' # <<>> /\ received'[1] = Sent(m)
        BY <2>3, <2>4, <2>9, <3>1
      <4>3. /\ begin <= m.Offset
            /\ \A p \in begin .. m.Offset - 1 : p \in nl
        BY <1>1, <2>1, <2>4, <2>5, <4>2 DEF Inv, NoGap, OnlyNewlines
      <4>4. begin < m.Offset
        BY <2>1, <2>4, <2>5, <2>7, <4>3
      <4>5. QED
        BY <2>4, <2>5, <2>10, <4>1, <4>3, <4>4
    <3>2. CASE received # <<>>
      <4>1. LineTail!Position = LastLine.Offset
        BY <2>5, <2>8, <3>2, OffsetsFacts, Mapped
      <4>2. /\ Len(received) \in 1 .. Len(received)
            /\ LastLine.Offset \in Nat /\ LastLine.Size \in Nat
            /\ LineEnd(LastLine) \in Nat
        BY <2>5, <3>2, LineTypes
      <4>3. Whole(LastLine)
        BY <2>1, <4>2 DEF Inv, ExactlyOnce, LastLine
      <4>4. LineEnd(LastLine) < m.Offset
        BY <2>1, <2>4, <3>2 DEF Reading, WholeOK
      <4>5. \A p \in LineEnd(LastLine) .. m.Offset - 1 : p \in nl
        <5>1. Len(received) + 1 \in 2 .. Len(received')
          BY <2>9, <4>2
        <5>2. (Len(received) + 1) - 1 = Len(received)
          BY <2>9
        <5>3. \A p \in LineEnd(received'[Len(received)]) .. received'[Len(received) + 1].Offset - 1 :
                p \in nl'
          <6>1. \A i \in 2 .. Len(received') :
                  \A p \in LineEnd(received'[i - 1]) .. received'[i].Offset - 1 : p \in nl'
            BY <2>5 DEF Inv, NoGap, OnlyNewlines
          <6>2. QED
            BY <5>1, <5>2, <6>1
        <5>4. received'[Len(received)] = LastLine
          BY <2>9, <4>2 DEF LastLine
        <5>5. QED
          BY <1>1, <2>4, <2>9, <5>3, <5>4
      <4>6. ASSUME NEW b \in WholeLines, LastLine.Offset < b, b < m.Offset
            PROVE  FALSE
        <5>1. b \in Nat /\ b \notin nl /\ b - 1 \in nl
          BY <2>10
        <5>2. b < LineEnd(LastLine)
          BY <2>4, <4>2, <4>5, <4>6, <5>1
        <5>3. b - 1 < LastLine.Offset \/ LineEnd(LastLine) <= b - 1
          BY <4>3, <5>1 DEF Whole
        <5>4. QED
          BY <4>2, <4>6, <5>1, <5>2, <5>3
      <4>7. LastLine.Offset < m.Offset
        BY <2>4, <4>2, <4>4 DEF LineEnd
      <4>8. QED
        BY <4>1, <4>6, <4>7
    <3>3. QED
      BY <3>1, <3>2
  <2>12. Resumable => Resumable'
    <3>1. lastEventID # None => lastEventID' # None
      BY <2>3, <2>4 DEF EventID, LineEnd, None
    <3>2. QED
      BY <1>2, <3>1 DEF Resumable
  <2>13. LineTail!Deliver
    BY <1>1, <1>2, <2>7, <2>8, <2>11, <2>12, Mapped
  <2>14. QED
    BY <2>13 DEF LineTail!Next
<1>5. QED
  BY <1>3, <1>4

\* Reading from a newline without a positive skip, the endpoint implements
\* LogTail: every step of the task, of the handler and its ReadManager and of the
\* client is a step of it or none.
THEOREM FilesImplementTail == Spec => ImplementsTail
<1>1. Init => LineTail!Init
  <2>1. ASSUME Init
        PROVE  LineTail!Init
    <3>1. received = <<>> /\ lastEventID = None /\ Len(received) = 0 /\ 1 .. 0 = {}
      BY <2>1 DEF Init
    <3>2. Delivered = <<>> /\ ~Resumable
      BY <3>1 DEF Delivered, Offsets, Resumable
    <3>3. QED
      BY <3>2 DEF LineTail!Init, Delivered, Offsets, Resumable
  <2>2. QED
    BY <2>1
<1>2. ASSUME Inv, [Next]_vars
      PROVE  [LineTail!Next]_(LineTail!vars)
  <2> USE DEF file, manager, client
  <2>1. TypeOK
    BY <1>2 DEF Inv
  <2>2. CASE Write
    BY <1>2, <2>2, WriteMapped
  <2>3. CASE Open
    <3>1. UNCHANGED <<size, nl>> /\ received' = <<>> /\ lastEventID = None /\ lastEventID' = None
      BY <2>3 DEF Open
    <3>2. QED
      BY <3>1, StartMapped DEF LineTail!Next
  <2>4. CASE CalcOffset
    <3>1. UNCHANGED <<size, nl>> /\ received' = <<>> /\ lastEventID = None /\ lastEventID' = None
      BY <1>2, <2>4 DEF CalcOffset, Inv, Phase
    <3>2. QED
      BY <3>1, StartMapped DEF LineTail!Next
  <2>5. CASE ReadBuffered
    <3>1. pc = "read" /\ lines # {} /\ Take(Pop(lines), lines \ {Pop(lines)}, offset)
      BY <2>5 DEF ReadBuffered
    <3>2. lines \in SUBSET Line /\ offset \in Nat /\ Reading(lines, offset)
      BY <1>2, <2>1, <3>1 DEF TypeOK, Inv
    <3>3. QED
      BY <1>2, <3>1, <3>2, TakeMapped
  <2>6. CASE ReadChunk
    <3> DEFINE new == Buffered(nl, offset, ChunkEnd)
               n == NextOffset(nl, offset, ChunkEnd)
    <3>1. /\ pc = "read" /\ lines = {} /\ ~NoNewData(nl, offset, ChunkEnd)
          /\ new # {} /\ Take(Pop(new), new \ {Pop(new)}, n)
      BY <2>6 DEF ReadChunk
    <3>2. new \in SUBSET Line /\ n \in Nat
      BY <2>1, <3>1, ChunkNumbers
    <3>3. Reading(new, n)
      BY <1>2, <3>1, ChunkReading
    <3> HIDE DEF new, n
    <3>4. QED
      BY <1>2, <3>1, <3>2, <3>3, TakeMapped
  <2>7. CASE \/ Resume \/ OpenError \/ ReadLimit \/ ReadEOF \/ ReadError \/ ReadNoData
             \/ Disconnect \/ Reconnect \/ UNCHANGED vars
    <3>1. UNCHANGED <<size, nl, req, received, lastEventID, begin>>
      BY <2>7 DEF Resume, OpenError, ReadLimit, ReadEOF, ReadError, ReadNoData, Disconnect,
                  Reconnect, vars
    <3>2. QED
      BY <3>1, Unmoved, Mapped
  <2>8. QED
    BY <1>2, <2>2, <2>3, <2>4, <2>5, <2>6, <2>7 DEF Next, Read
<1>3. QED
  BY <1>1, <1>2, InvCorrect, PTL DEF Spec, ImplementsTail, LineTail!Spec

-----------------------------------------------------------------------------
(***************************************************************************)
(* What a range returns.  Read counts the lines it skips and the lines it  *)
(* sends; RangeExact counts the lines of the file.  They agree because     *)
(* every whole line in front of rm.offset that is not in the buffer was    *)
(* either skipped or sent.                                                 *)
(***************************************************************************)
\* The whole lines behind begin up to the one at p.
Behind(whole, b, p) == {q \in whole : b < q /\ q <= p}
UpTo(p) == Behind(WholeLines, begin, p)

\* The whole lines Read is done with when S is buffered and off comes next.
Passed(whole, b, S, off) == {p \in whole : b < p /\ p < off /\ \A l \in S : p < l.Offset}
Taken(S, off) == Passed(WholeLines, begin, S, off)

Counted(S, off) ==
  /\ readLines = Len(received)
  /\ limit > 0 => readLines <= limit
  /\ skipped <= NonNegative(skip)
  /\ received # <<>> => skipped = NonNegative(skip)
  /\ size <= begin => skipped = 0
  /\ begin > 0 /\ begin \in nl =>
       /\ Cardinality(Taken(S, off)) = skipped + Len(received)
       /\ \A i \in 1 .. Len(received) :
            Cardinality(UpTo(received[i].Offset)) = NonNegative(skip) + i

RangeInv ==
  /\ req.stream => status # "ok"
  /\ ~req.stream =>
       /\ pc \in {"setup", "calcOffset"} => skipped = 0 /\ readLines = 0
       /\ pc = "read" => Counted(lines, offset)
       /\ RangeExact

\* Whole lines are positions in the file, and finitely many.
LEMMA WholeLinesFacts ==
  ASSUME TypeOK
  PROVE  /\ size \in Nat /\ \A q \in nl : q \in Nat /\ q < size
         /\ \A p \in WholeLines : /\ p \in Nat /\ p < size /\ p \notin nl /\ p - 1 \in nl
                                  /\ \E q \in nl : p < q
         /\ \A U \in SUBSET WholeLines : IsFiniteSet(U) /\ Cardinality(U) \in Nat
<1>1. size \in Nat /\ \A q \in nl : q \in Nat /\ q < size
  <2>1. size \in Nat /\ \A q \in nl : q \in 0 .. size - 1
    BY DEF TypeOK
  <2>2. QED
    BY <2>1
<1>2. \A p \in WholeLines : /\ p \in Nat /\ p < size /\ p \notin nl /\ p - 1 \in nl
                            /\ \E q \in nl : p < q
  BY <1>1 DEF WholeLines
<1>3. ASSUME NEW U \in SUBSET WholeLines
      PROVE  IsFiniteSet(U) /\ Cardinality(U) \in Nat
  <2>1. U \in SUBSET Nat /\ \A p \in U : p <= size
    BY <1>1, <1>2
  <2>2. QED
    BY <1>1, <2>1, FS_BoundedSetOfNaturals, FS_CardinalityType
<1>4. QED
  BY <1>1, <1>2, <1>3

\* Of two whole lines the later one has the greater rank.
LEMMA RankGrows ==
  ASSUME TypeOK, NEW p \in WholeLines, NEW q \in WholeLines, begin < p, p < q
  PROVE  Cardinality(UpTo(p)) < Cardinality(UpTo(q))
<1>1. UpTo(p) \in SUBSET WholeLines /\ UpTo(q) \in SUBSET WholeLines
  BY DEF UpTo, Behind
<1>2. p \in Nat /\ q \in Nat /\ begin \in Nat
  BY WholeLinesFacts DEF TypeOK
<1>3. UpTo(p) \in SUBSET UpTo(q) /\ q \in UpTo(q) /\ q \notin UpTo(p)
  <2>1. ASSUME NEW x \in UpTo(p)
        PROVE  x \in UpTo(q)
    <3>1. x \in WholeLines /\ begin < x /\ x <= p
      BY DEF UpTo, Behind
    <3>2. x \in Nat
      BY <3>1, WholeLinesFacts
    <3>3. QED
      BY <1>2, <3>1, <3>2 DEF UpTo, Behind
  <2>2. q \in UpTo(q)
    BY <1>2 DEF UpTo, Behind
  <2>3. q \notin UpTo(p)
    BY <1>2 DEF UpTo, Behind
  <2>4. QED
    BY <2>1, <2>2, <2>3
<1>4. /\ IsFiniteSet(UpTo(q)) /\ Cardinality(UpTo(q)) \in Nat
      /\ Cardinality(UpTo(p)) \in Nat
  BY <1>1, WholeLinesFacts
<1>5. QED
  BY <1>3, <1>4, FS_Subset

\* So two whole lines of the same rank are one.
LEMMA RankTells ==
  ASSUME TypeOK, NEW p \in WholeLines, NEW q \in WholeLines, begin < p, begin < q,
         Cardinality(UpTo(p)) = Cardinality(UpTo(q))
  PROVE  p = q
<1>1. p \in Nat /\ q \in Nat
  BY WholeLinesFacts
<1>2. /\ UpTo(p) \in SUBSET WholeLines /\ UpTo(q) \in SUBSET WholeLines
  BY DEF UpTo, Behind
<1>3. Cardinality(UpTo(p)) \in Nat /\ Cardinality(UpTo(q)) \in Nat
  BY <1>2, WholeLinesFacts
<1>4. ~(p < q) /\ ~(q < p)
  BY <1>3, RankGrows
<1>5. QED
  BY <1>1, <1>4

\* Whole lines and their first bytes.
LEMMA CompleteStarts ==
  ASSUME TypeOK
  PROVE  /\ \A l \in CompleteLines : /\ l.Offset \in WholeLines /\ begin < l.Offset
                                     /\ l.Offset \in Nat /\ l.Size \in Nat /\ Whole(l)
         /\ \A l, k \in CompleteLines : l.Offset = k.Offset => l = k
         /\ \A p \in WholeLines : begin < p => \E l \in CompleteLines : l.Offset = p
         /\ \A l \in [Offset : Nat, Size : Nat] :
              Whole(l) /\ begin < l.Offset => l \in CompleteLines
<1>1. size \in Nat /\ begin \in Nat /\ \A q \in nl : q \in Nat /\ q < size
  BY WholeLinesFacts DEF TypeOK
<1>2. ASSUME NEW l \in CompleteLines
      PROVE  /\ l.Offset \in WholeLines /\ begin < l.Offset
             /\ l.Offset \in Nat /\ l.Size \in Nat /\ Whole(l)
             /\ l = [Offset |-> l.Offset, Size |-> l.Size]
  <2>1. l \in [Offset : begin + 1 .. size, Size : 1 .. size] /\ Whole(l)
    BY DEF CompleteLines
  <2>2. /\ l.Offset \in Nat /\ l.Size \in Nat /\ begin < l.Offset
        /\ l = [Offset |-> l.Offset, Size |-> l.Size]
    BY <1>1, <2>1
  <2>3. QED
    BY <2>1, <2>2, WholeStarts
<1>3. ASSUME NEW l \in CompleteLines, NEW k \in CompleteLines, l.Offset = k.Offset
      PROVE  l = k
  <2>1. /\ Whole(l) /\ Whole(k) /\ l.Offset \in Nat /\ l.Size \in Nat
        /\ k.Offset \in Nat /\ k.Size \in Nat
    BY <1>2
  <2>2. LineEnd(l) <= LineEnd(k) /\ LineEnd(k) <= LineEnd(l)
    BY <1>3, <2>1 DEF Whole, LineEnd
  <2>3. l.Size = k.Size
    BY <1>3, <2>1, <2>2 DEF LineEnd
  <2>4. QED
    BY <1>2, <1>3, <2>3
<1>4. ASSUME NEW l \in [Offset : Nat, Size : Nat], Whole(l), begin < l.Offset
      PROVE  l \in CompleteLines
  <2>1. /\ l.Size > 0 /\ LineEnd(l) < size /\ l.Offset \in Nat /\ l.Size \in Nat
    BY <1>1, <1>4 DEF Whole
  <2>2. l.Offset \in begin + 1 .. size /\ l.Size \in 1 .. size
    BY <1>1, <1>4, <2>1 DEF LineEnd
  <2>3. QED
    BY <1>4, <2>2 DEF CompleteLines
<1>5. ASSUME NEW p \in WholeLines, begin < p
      PROVE  \E l \in CompleteLines : l.Offset = p
  <2>1. /\ p \in Nat /\ p < size /\ p \notin nl /\ p - 1 \in nl
        /\ \E q \in nl : p < q
    BY WholeLinesFacts
  <2> DEFINE Above == {q \in nl : p < q}
  <2>2. Above \in SUBSET Nat /\ Above # {}
    BY <1>1, <2>1
  <2> HIDE DEF Above
  <2>3. PICK e \in Above : \A q \in Above : e <= q
    BY <2>2, LeastNat
  <2> USE DEF Above
  <2> DEFINE l == [Offset |-> p, Size |-> e - p]
  <2>4. e \in nl /\ p < e /\ \A q \in nl : p < q => e <= q
    BY <2>3
  <2>5. l \in [Offset : Nat, Size : Nat] /\ l.Offset = p /\ LineEnd(l) = e /\ l.Size > 0
    BY <1>1, <2>1, <2>4 DEF LineEnd
  <2>6. \A q \in nl : q < l.Offset \/ LineEnd(l) <= q
    BY <1>1, <2>1, <2>4, <2>5
  <2>7. Whole(l)
    BY <2>1, <2>4, <2>5, <2>6 DEF Whole
  <2>8. QED
    BY <1>4, <1>5, <2>5, <2>7
<1>6. QED
  BY <1>2, <1>3, <1>4, <1>5

\* The rank of a line among the complete lines is that of its first byte.
LEMMA RankOfStart ==
  ASSUME TypeOK, NEW l \in CompleteLines
  PROVE  Rank(l) = Cardinality(UpTo(l.Offset))
<1> DEFINE K == {k \in CompleteLines : k.Offset <= l.Offset}
           U == UpTo(l.Offset)
           f == [k \in K |-> k.Offset]
<1>1. U \in SUBSET WholeLines
  BY DEF UpTo, Behind
<1>2. IsFiniteSet(U)
  BY <1>1, WholeLinesFacts
<1>3. \A k \in K : k.Offset \in U
  BY CompleteStarts DEF UpTo, Behind
<1>4. \A j, k \in K : j.Offset = k.Offset => j = k
  BY CompleteStarts
<1>5. \A p \in U : \E k \in K : k.Offset = p
  <2>1. TAKE p \in U
  <2>2. p \in WholeLines /\ begin < p /\ p <= l.Offset
    BY DEF UpTo, Behind
  <2>3. PICK k \in CompleteLines : k.Offset = p
    BY <2>2, CompleteStarts
  <2>4. QED
    BY <2>2, <2>3
<1> HIDE DEF K, U
<1>6. f \in [K -> U] /\ \A k \in K : f[k] = k.Offset
  BY <1>3
<1> HIDE DEF f
<1>7. f \in Injection(K, U)
  BY <1>4, <1>6 DEF Injection, IsInjective
<1>8. f \in Surjection(K, U)
  <2>1. \A p \in U : \E k \in K : f[k] = p
    BY <1>5, <1>6
  <2>2. QED
    BY <1>6, <2>1 DEF Surjection
<1>9. Cardinality(K) = Cardinality(U)
  BY <1>2, <1>7, <1>8, FS_Injection
<1>10. QED
  BY <1>9 DEF Rank, K, U

\* A reading that took the right lines up to its end, and either all of them or as
\* many as its limit, sent what was wanted.
LEMMA CountedEnd ==
  ASSUME Inv, NEW S, Counted(S, offset), begin > 0, begin \in nl,
         \/ limit > 0 /\ readLines = limit
         \/ Taken(S, offset) = {p \in WholeLines : begin < p}
  PROVE  /\ {[Offset |-> received[i].Offset, Size |-> received[i].Size] :
               i \in 1 .. Len(received)} = Wanted
         /\ Len(received) = Cardinality(Wanted)
<1> DEFINE k == NonNegative(skip)
           n == Len(received)
           line == [i \in 1 .. n |-> [Offset |-> received[i].Offset, Size |-> received[i].Size]]
<1>1. /\ TypeOK /\ skip \in Int /\ limit \in Int /\ skipped \in Nat /\ begin \in Nat
      /\ n \in Nat /\ k \in Nat
      /\ k = IF skip > 0 THEN skip ELSE 0
  BY LineTypes DEF Inv, TypeOK, NonNegative
<1>2. ASSUME NEW i \in 1 .. n
      PROVE  line[i] \in CompleteLines /\ Rank(line[i]) = k + i
  <2>1. received[i].Offset \in Nat /\ received[i].Size \in Nat /\ Whole(received[i])
    BY <1>1, LineTypes DEF Inv, ExactlyOnce
  <2>2. line[i].Offset = received[i].Offset /\ line[i].Size = received[i].Size
    OBVIOUS
  <2>3. line[i] \in [Offset : Nat, Size : Nat] /\ Whole(line[i])
    BY <2>1, <2>2 DEF Whole, LineEnd
  <2>4. begin < line[i].Offset
    <3>1. begin <= received[i].Offset
      BY DEF Inv, History
    <3>2. received[i].Offset \notin nl
      BY <1>1, <2>1, WholeStarts
    <3>3. QED
      BY <1>1, <2>1, <2>2, <3>1, <3>2
  <2> HIDE DEF line
  <2>5. line[i] \in CompleteLines
    BY <1>1, <2>3, <2>4, CompleteStarts
  <2>6. QED
    BY <1>1, <2>2, <2>5, RankOfStart DEF Counted
<1>3. ASSUME NEW l \in CompleteLines
      PROVE  /\ Rank(l) \in Nat /\ Rank(l) > 0
             /\ l \in Wanted <=> Rank(l) > k /\ (limit > 0 => Rank(l) <= limit + k)
  <2>1. UpTo(l.Offset) \in SUBSET WholeLines /\ l.Offset \in UpTo(l.Offset)
    BY <1>1, CompleteStarts DEF UpTo, Behind
  <2>2. Rank(l) = Cardinality(UpTo(l.Offset))
    BY <1>1, RankOfStart
  <2>3. IsFiniteSet(UpTo(l.Offset)) /\ Rank(l) \in Nat
    BY <1>1, <2>1, <2>2, WholeLinesFacts
  <2>4. Rank(l) # 0
    BY <2>1, <2>2, <2>3, FS_EmptySet
  <2>5. l \in Wanted <=> (skip > 0 => Rank(l) > skip) /\ (limit > 0 => Rank(l) <= limit + k)
    BY DEF Wanted
  <2>6. QED
    BY <1>1, <2>3, <2>4, <2>5
<1>4. ASSUME NEW l \in Wanted
      PROVE  l \in CompleteLines /\ Rank(l) - k \in 1 .. n
  <2>1. l \in CompleteLines
    BY DEF Wanted
  <2>2. Rank(l) \in Nat /\ Rank(l) > k /\ (limit > 0 => Rank(l) <= limit + k)
    BY <1>3, <2>1
  <2>3. CASE limit > 0 /\ readLines = limit
    BY <1>1, <2>1, <2>2, <2>3 DEF Counted
  <2>4. CASE Taken(S, offset) = {p \in WholeLines : begin < p}
    <3> DEFINE W == {p \in WholeLines : begin < p}
    <3>1. UpTo(l.Offset) \in SUBSET W /\ W \in SUBSET WholeLines
      BY DEF UpTo, Behind
    <3>2. IsFiniteSet(W) /\ Cardinality(W) = skipped + n
      BY <1>1, <2>4, <3>1, WholeLinesFacts DEF Counted
    <3>3. Rank(l) = Cardinality(UpTo(l.Offset))
      BY <1>1, <2>1, RankOfStart
    <3> HIDE DEF W
    <3>4. Rank(l) <= skipped + n
      BY <3>1, <3>2, <3>3, FS_Subset
    <3>5. skipped <= k /\ (received # <<>> => skipped = k)
      BY DEF Counted
    <3>6. received = <<>> => n = 0
      OBVIOUS
    <3>7. QED
      BY <1>1, <2>1, <2>2, <3>4, <3>5, <3>6
  <2>5. QED
    BY <2>3, <2>4
<1>5. ASSUME NEW i \in 1 .. n
      PROVE  line[i] \in Wanted
  <2>1. limit > 0 => i <= limit
    BY <1>1 DEF Counted
  <2>2. line[i] \in CompleteLines /\ Rank(line[i]) = k + i
    BY <1>2
  <2> HIDE DEF line, k
  <2>3. QED
    BY <1>1, <1>3, <2>1, <2>2
<1>6. \A l \in Wanted : \E i \in 1 .. n : line[i] = l
  <2>1. TAKE l \in Wanted
  <2>2. PICK i \in 1 .. n : Rank(l) = k + i
    <3>1. l \in CompleteLines /\ Rank(l) - k \in 1 .. n
      BY <1>4
    <3>2. Rank(l) \in Nat
      BY <1>3, <3>1
    <3> HIDE DEF k, n
    <3>3. Rank(l) = k + (Rank(l) - k)
      BY <1>1, <3>2
    <3>4. QED
      BY <3>1, <3>3
  <2>3. l \in CompleteLines /\ line[i] \in CompleteLines /\ Rank(line[i]) = Rank(l)
    BY <1>2, <1>4, <2>2
  <2> HIDE DEF line
  <2>4. /\ l.Offset \in WholeLines /\ begin < l.Offset
        /\ line[i].Offset \in WholeLines /\ begin < line[i].Offset
    BY <1>1, <2>3, CompleteStarts
  <2>5. Cardinality(UpTo(line[i].Offset)) = Cardinality(UpTo(l.Offset))
    BY <1>1, <2>3, RankOfStart
  <2>6. line[i].Offset = l.Offset
    BY <1>1, <2>4, <2>5, RankTells
  <2>7. line[i] = l
    BY <1>1, <2>3, <2>6, CompleteStarts
  <2>8. QED
    BY <2>7
<1>7. {[Offset |-> received[i].Offset, Size |-> received[i].Size] : i \in 1 .. n} = Wanted
  <2>1. \A i \in 1 .. n :
          line[i] = [Offset |-> received[i].Offset, Size |-> received[i].Size]
    OBVIOUS
  <2> DEFINE sent(i) == [Offset |-> received[i].Offset, Size |-> received[i].Size]
  <2>2. \A i \in 1 .. n : line[i] = sent(i)
    BY <2>1
  <2> HIDE DEF line, n, sent
  <2>3. {sent(i) : i \in 1 .. n} = Wanted
    BY <1>5, <1>6, <2>2
  <2>4. QED
    BY <2>3 DEF sent
<1>8. n = Cardinality(Wanted)
  <2>1. line \in [1 .. n -> Wanted]
    BY <1>5
  <2>2. \A i, j \in 1 .. n : line[i] = line[j] => i = j
    <3>1. \A i \in 1 .. n : Rank(line[i]) = k + i
      BY <1>2
    <3> HIDE DEF line, n, k
    <3>2. TAKE i, j \in 1 .. n
    <3>3. line[i] = line[j] => k + i = k + j
      BY <3>1
    <3>4. QED
      BY <1>1, <3>3
  <2> HIDE DEF line, n
  <2>3. line \in Injection(1 .. n, Wanted)
    BY <2>1, <2>2 DEF Injection, IsInjective
  <2>4. line \in Surjection(1 .. n, Wanted)
    BY <1>6, <2>1 DEF Surjection
  <2>5. IsFiniteSet(1 .. n) /\ Cardinality(1 .. n) = n
    <3> DEFINE one == 1
    <3>1. one \in Int /\ n \in Int
      BY <1>1
    <3> HIDE DEF one
    <3>2. /\ IsFiniteSet(one .. n)
          /\ Cardinality(one .. n) = IF one > n THEN 0 ELSE n - one + 1
      BY <3>1, FS_Interval
    <3>3. QED
      BY <1>1, <3>2 DEF one
  <2>6. QED
    BY <2>3, <2>4, <2>5, FS_Surjection
<1>9. QED
  BY <1>7, <1>8 DEF n

\* Reading ends where no whole line is left.
LEMMA EndTaken ==
  ASSUME Inv, pc = "read", lines = {}, NoNewData(nl, offset, ChunkEnd), begin > 0, begin \in nl
  PROVE  Taken({}, offset) = {p \in WholeLines : begin < p}
<1>1. /\ TypeOK /\ offset \in nl /\ offset \in Nat /\ size \in Nat
      /\ ChunkSize \in Nat /\ ChunkSize > 1
  BY ChunkSizeAssumption DEF Inv, TypeOK, Reading, WholeOK
<1>2. ChunkEnd <= offset \/ ChunkEnd = offset + 1
  BY DEF NoNewData
<1>3. size <= offset + 1
  BY <1>1, <1>2 DEF ChunkEnd, WindowEnd
<1>4. ASSUME NEW p \in WholeLines
      PROVE  p < offset
  <2>1. p \in Nat /\ p < size /\ p \notin nl
    BY <1>1, WholeLinesFacts
  <2>2. QED
    BY <1>1, <1>3, <2>1
<1>5. QED
  BY <1>4 DEF Taken, Passed

\* A chunk puts no whole line behind the reading but those it buffers.
LEMMA ChunkTaken ==
  ASSUME Inv, pc = "read", lines = {}, ~NoNewData(nl, offset, ChunkEnd), begin > 0, begin \in nl
  PROVE  Taken(Buffered(nl, offset, ChunkEnd), NextOffset(nl, offset, ChunkEnd)) = Taken({}, offset)
<1> DEFINE S == Buffered(nl, offset, ChunkEnd)
           m == NextOffset(nl, offset, ChunkEnd)
<1>1. /\ TypeOK /\ offset \in nl /\ nl \in SUBSET Nat /\ offset \in Nat /\ ChunkEnd \in Nat
      /\ offset < ChunkEnd /\ ChunkEnd <= offset + ChunkSize /\ S \in SUBSET Line
  BY ChunkNumbers DEF Inv, TypeOK, Reading, WholeOK
<1>2. m \in offset .. ChunkEnd /\ m <= LinesEnd(nl, offset, ChunkEnd)
  BY <1>1, NextOffsetFacts
<1>3. ASSUME NEW l \in S
      PROVE  l.Offset \in Nat /\ offset < l.Offset
  <2>1. l \in Line /\ l.Size > 0 /\ offset <= l.Offset
    BY <1>1, BufferedFacts
  <2>2. \A q \in nl : q < l.Offset \/ LineEnd(l) <= q
    BY <1>1, BufferedFacts
  <2>3. l.Offset \in Nat /\ l.Size \in Nat
    BY <2>1 DEF Line
  <2>4. QED
    BY <1>1, <2>1, <2>2, <2>3 DEF LineEnd
<1>4. ASSUME NEW p \in WholeLines, offset <= p, p < m
      PROVE  \E l \in S : l.Offset <= p
  <2>1. p \in Nat /\ p \notin nl
    BY <1>1, WholeLinesFacts
  <2>2. LinesEnd(nl, offset, ChunkEnd) \in offset .. ChunkEnd
    BY <1>1, LinesEndFacts
  <2>3. p \in offset .. LinesEnd(nl, offset, ChunkEnd) - 1
    BY <1>1, <1>2, <1>4, <2>1, <2>2
  <2>4. QED
    BY <1>1, <2>1, <2>3, BufferedCover
<1> HIDE DEF S, m
<1>5. \A p \in WholeLines : p \in Nat
  BY <1>1, WholeLinesFacts
<1>6. ASSUME NEW p \in WholeLines
      PROVE  (p < m /\ \A l \in S : p < l.Offset) <=> p < offset
  BY <1>1, <1>2, <1>3, <1>4, <1>5
<1>7. QED
  BY <1>6 DEF Taken, Passed, S, m

\* Read is done with one whole line more when it takes a line out of the buffer.
LEMMA TakeTaken ==
  ASSUME Inv, NEW S \in SUBSET Line, S # {}, NEW off \in Nat, Reading(S, off),
         begin > 0, begin \in nl
  PROVE  LET m == Pop(S)
         IN  /\ m.Offset \notin Taken(S, off)
             /\ Taken(S \ {m}, off) = Taken(S, off) \cup {m.Offset}
             /\ UpTo(m.Offset) = Taken(S, off) \cup {m.Offset}
<1> DEFINE m == Pop(S)
           R == S \ {m}
<1>1. /\ TypeOK /\ m \in S /\ m \in Line /\ m.Offset \in Nat /\ m.Size \in Nat
      /\ LineEnd(m) \in Nat /\ m.Size > 0
      /\ \A l \in S : m.Offset <= l.Offset
  BY PopFacts, LineTypes DEF Inv, Reading, BufferOK
<1>2. Whole(m) /\ LineEnd(m) <= off /\ begin <= m.Offset
  BY <1>1 DEF Reading, WholeOK, BufferOK
<1>3. m.Offset \in WholeLines /\ m.Offset \notin nl
  BY <1>1, <1>2, WholeStarts
<1>4. \A l \in S : l.Offset \in Nat
  BY DEF Line
<1>5. /\ Covered(R, LineEnd(m), off)
      /\ \A l \in R : LineEnd(m) < l.Offset
  BY <1>1, PopReading
<1> HIDE DEF m
<1>6. begin \in Nat /\ begin < m.Offset /\ m.Offset < LineEnd(m)
  BY <1>1, <1>2, <1>3 DEF TypeOK, LineEnd
<1>7. ASSUME NEW p \in WholeLines, m.Offset < p, p < off
      PROVE  \E l \in R : l.Offset <= p
  <2>1. p \in Nat /\ p \notin nl /\ p - 1 \in nl
    BY <1>1, WholeLinesFacts
  <2>2. LineEnd(m) <= p
    <3>1. p - 1 < m.Offset \/ LineEnd(m) <= p - 1
      BY <1>2, <2>1 DEF Whole
    <3>2. QED
      BY <1>1, <1>7, <2>1, <3>1
  <2>3. p \in LineEnd(m) .. off - 1
    BY <1>1, <1>7, <2>1, <2>2
  <2>4. QED
    BY <1>5, <2>1, <2>3 DEF Covered
<1>8. \A p \in WholeLines : p \in Nat
  BY <1>1, WholeLinesFacts
<1>9. \A p \in WholeLines : p < m.Offset => p < off /\ \A l \in S : p < l.Offset
  BY <1>1, <1>2, <1>4, <1>6, <1>8
<1>10. m.Offset < off /\ \A l \in R : m.Offset < l.Offset
  BY <1>1, <1>2, <1>4, <1>5, <1>6
<1>11. ASSUME NEW p \in WholeLines
       PROVE  /\ (p < off /\ \A l \in S : p < l.Offset) <=> p < m.Offset
              /\ (p < off /\ \A l \in R : p < l.Offset) <=> p <= m.Offset
  <2>1. (p < off /\ \A l \in S : p < l.Offset) <=> p < m.Offset
    BY <1>1, <1>8, <1>9
  <2>2. ASSUME p < off, \A l \in R : p < l.Offset
        PROVE  p <= m.Offset
    <3>1. ~(m.Offset < p)
      <4>1. \A l \in R : ~(l.Offset <= p)
        BY <1>4, <1>8, <2>2
      <4>2. QED
        BY <1>7, <2>2, <4>1
    <3>2. QED
      BY <1>1, <1>8, <3>1
  <2>3. ASSUME p <= m.Offset
        PROVE  p < off /\ \A l \in R : p < l.Offset
    BY <1>1, <1>4, <1>8, <1>10, <2>3, <1>9
  <2>4. QED
    BY <2>1, <2>2, <2>3
<1>12. Taken(S, off) = {p \in WholeLines : begin < p /\ p < m.Offset}
  BY <1>11 DEF Taken, Passed
<1>13. Taken(R, off) = {p \in WholeLines : begin < p /\ p <= m.Offset}
  BY <1>11 DEF Taken, Passed
<1>14. {p \in WholeLines : begin < p /\ p <= m.Offset}
         = {p \in WholeLines : begin < p /\ p < m.Offset} \cup {m.Offset}
  BY <1>1, <1>3, <1>6, <1>8
<1>15. m.Offset \notin {p \in WholeLines : begin < p /\ p < m.Offset}
  BY <1>1
<1>16. QED
  BY <1>12, <1>13, <1>14, <1>15 DEF UpTo, Behind, m

\* A line that is taken is counted once, as skipped or as sent.
LEMMA TakeCounted ==
  ASSUME Inv, NEW S \in SUBSET Line, S # {}, NEW off \in Nat, Reading(S, off), Counted(S, off),
         ~req.stream, ~LimitReached, Take(Pop(S), S \ {Pop(S)}, off)
  PROVE  Counted(lines, offset)'
<1> DEFINE m == Pop(S)
           R == S \ {m}
           n == Len(received)
           k == NonNegative(skip)
           T == Taken(S, off)
<1>1. /\ TypeOK /\ skip \in Int /\ limit \in Int /\ skipped \in Nat /\ begin \in Nat /\ size \in Nat
      /\ received \in Seq(SentLine) /\ n \in Nat /\ readLines \in Nat
      /\ k = IF skip > 0 THEN skip ELSE 0
  BY LineTypes DEF Inv, TypeOK, NonNegative
<1>2. UNCHANGED <<size, nl, req, skip, limit, begin>> /\ lines' = R /\ offset' = off
  BY DEF Take, file
<1>3. /\ m \in S /\ m.Offset \in Nat /\ m.Size \in Nat /\ Sent(m) \in SentLine
      /\ Sent(m).Offset = m.Offset
  BY PopFacts DEF Line, Sent, SentLine
<1>4. begin < size
  <2>1. begin <= m.Offset /\ m.Size > 0 /\ LineEnd(m) <= size
    BY <1>3 DEF Reading, BufferOK
  <2>2. QED
    BY <1>1, <1>3, <2>1 DEF LineEnd
<1>5. /\ readLines = n /\ (limit > 0 => readLines <= limit) /\ skipped <= k
      /\ received # <<>> => skipped = k
      /\ limit > 0 => readLines # limit
  BY DEF Counted, LimitReached
<1>6. WholeLines' = WholeLines /\ begin' = begin
  BY <1>2 DEF WholeLines
<1>7. ASSUME begin > 0, begin \in nl
      PROVE  /\ Cardinality(T) = skipped + n
             /\ Cardinality(Taken(R, off)) = skipped + n + 1
             /\ Cardinality(UpTo(m.Offset)) = skipped + n + 1
  <2>1. /\ m.Offset \notin T /\ Taken(R, off) = T \cup {m.Offset}
        /\ UpTo(m.Offset) = T \cup {m.Offset}
    BY <1>7, TakeTaken
  <2>2. T \in SUBSET WholeLines
    BY DEF Taken, Passed
  <2>3. IsFiniteSet(T) /\ Cardinality(T) = skipped + n
    BY <1>1, <1>7, <2>2, WholeLinesFacts DEF Counted
  <2> HIDE DEF T, R, m
  <2>4. Cardinality(T \cup {m.Offset}) = Cardinality(T) + 1
    BY <2>1, <2>3, FS_AddElement
  <2>5. QED
    BY <2>1, <2>3, <2>4
<1> HIDE DEF m, R, k, T
<1>8. CASE skip > 0 /\ skipped < skip
  <2>1. skipped' = skipped + 1 /\ UNCHANGED <<readLines, received>>
    BY <1>8 DEF Take, m
  <2>2. NonNegative(skip)' = k /\ skipped' <= k /\ received = <<>> /\ n = 0
    BY <1>1, <1>2, <1>5, <1>8, <2>1 DEF k, NonNegative
  <2>3. begin > 0 /\ begin \in nl => Cardinality(Passed(WholeLines', begin', lines', offset')) = skipped' + n
    BY <1>1, <1>2, <1>6, <1>7, <2>1 DEF Taken
  <2>4. \A i \in 1 .. n : FALSE
    BY <2>2
  <2>5. ~(size' <= begin')
    BY <1>1, <1>2, <1>4
  <2>6. QED
    BY <1>2, <1>5, <2>1, <2>2, <2>3, <2>4, <2>5 DEF Counted, Taken
<1>9. CASE ~(skip > 0 /\ skipped < skip)
  <2>1. readLines' = readLines + 1 /\ received' = Append(received, Sent(m)) /\ skipped' = skipped
    BY <1>9 DEF Take, m
  <2>2. skipped = k /\ NonNegative(skip)' = k
    BY <1>1, <1>2, <1>5, <1>9 DEF k, NonNegative
  <2>3. /\ Len(received') = n + 1 /\ received'[n + 1] = Sent(m)
        /\ \A i \in 1 .. n : received'[i] = received[i]
    BY <1>1, <1>3, <2>1, AppendProperties
  <2>4. limit' > 0 => readLines' <= limit'
    BY <1>1, <1>2, <1>5, <2>1
  <2>5. ASSUME begin > 0, begin \in nl, NEW i \in 1 .. n + 1
        PROVE  Cardinality(Behind(WholeLines, begin, received'[i].Offset)) = k + i
    <3>1. CASE i \in 1 .. n
      <4>1. Cardinality(UpTo(received[i].Offset)) = k + i
        BY <2>5, <3>1 DEF Counted, k
      <4>2. QED
        BY <2>3, <3>1, <4>1 DEF UpTo
    <3>2. CASE i = n + 1
      <4>1. received'[i].Offset = m.Offset
        BY <1>3, <2>3, <3>2
      <4>2. skipped + n + 1 = k + i
        BY <1>1, <2>2, <3>2
      <4>3. QED
        BY <1>7, <2>5, <4>1, <4>2 DEF UpTo
    <3>3. QED
      BY <1>1, <3>1, <3>2
  <2>6. begin > 0 /\ begin \in nl => Cardinality(Passed(WholeLines', begin', lines', offset')) = skipped' + Len(received')
    <3>1. skipped + n + 1 = skipped' + Len(received')
      BY <1>1, <2>1, <2>3
    <3>2. QED
      BY <1>2, <1>6, <1>7, <3>1 DEF Taken
  <2>7. begin' > 0 /\ begin' \in nl' =>
          \A i \in 1 .. Len(received') :
            Cardinality(Behind(WholeLines', begin', received'[i].Offset)) = NonNegative(skip)' + i
    BY <1>2, <1>6, <2>2, <2>3, <2>5
  <2>8. ~(size' <= begin')
    BY <1>1, <1>2, <1>4
  <2>9. readLines' = Len(received') /\ skipped' = NonNegative(skip)' /\ skipped' <= NonNegative(skip)'
    BY <1>1, <1>5, <2>1, <2>2, <2>3
  <2>10. QED
    BY <1>2, <2>4, <2>6, <2>7, <2>8, <2>9 DEF Counted, Taken, UpTo
<1>10. QED
  BY <1>8, <1>9

\* What the task writes lies behind all that was counted.
LEMMA WriteCounted ==
  ASSUME Inv, pc = "read", Counted(lines, offset), Write
  PROVE  Counted(lines, offset)'
<1>1. /\ size' = size + 1 /\ (nl' = nl \/ nl' = nl \cup {size})
      /\ UNCHANGED <<lines, offset, skipped, readLines, skip, limit, received, begin>>
  BY DEF Write, manager, client
<1>2. /\ TypeOK /\ TypeOK' /\ begin \in Nat /\ offset \in Nat /\ size \in Nat /\ skipped \in Nat
      /\ Len(received) \in Nat
      /\ \A q \in nl : q \in Nat /\ q < size
  BY TypeStep, WholeLinesFacts, LineTypes DEF Inv, TypeOK, Next
<1>3. \A p \in WholeLines' : p \in Nat /\ p \notin nl' /\ p - 1 \in nl' /\ \E q \in nl' : p < q
  BY <1>1, <1>2 DEF WholeLines
<1>4. WholeLines \subseteq WholeLines'
  <2>1. ASSUME NEW p \in WholeLines
        PROVE  p \in WholeLines'
    <3>1. p \in Nat /\ p < size /\ p \notin nl /\ p - 1 \in nl /\ \E q \in nl : p < q
      BY <1>2, WholeLinesFacts
    <3>2. p \in 1 .. size' /\ p \notin nl' /\ p - 1 \in nl' /\ \E q \in nl' : p < q
      <4>1. p \in 1 .. size
        BY DEF WholeLines
      <4>2. QED
        BY <1>1, <1>2, <3>1, <4>1
    <3>3. QED
      BY <3>2 DEF WholeLines
  <2>2. QED
    BY <2>1
<1>5. ASSUME NEW p \in WholeLines', NEW q \in nl, p < q
      PROVE  p \in WholeLines
  <2>1. p \in Nat /\ p \notin nl' /\ p - 1 \in nl' /\ p < size
    BY <1>2, <1>3, <1>5
  <2>2. p - 1 \in nl /\ p \notin nl
    BY <1>1, <1>2, <2>1
  <2>3. p \in 1 .. size
    BY <1>2, <2>1, <2>2
  <2>4. QED
    BY <1>5, <2>2, <2>3 DEF WholeLines
<1>6. /\ readLines = Len(received) /\ (limit > 0 => readLines <= limit)
      /\ skipped <= NonNegative(skip) /\ (received # <<>> => skipped = NonNegative(skip))
      /\ NonNegative(skip)' = NonNegative(skip)
      /\ size' <= begin => skipped = 0
  BY <1>1, <1>2 DEF Counted, NonNegative
<1>7. CASE ~(begin \in nl)
  <2>1. ASSUME begin > 0, begin \in nl'
        PROVE  /\ Passed(WholeLines', begin', lines', offset') = {} /\ skipped + Len(received) = 0
               /\ Len(received) = 0
    <3>1. begin = size
      BY <1>1, <1>7, <2>1
    <3>2. offset = begin /\ skipped = 0
      BY <1>2, <3>1 DEF Inv, Reading, BufferOK, Counted
    <3>3. received = <<>>
      <4> SUFFICES ASSUME received # <<>>
                   PROVE  FALSE
        OBVIOUS
      <4>1. /\ LastLine.Size > 0 /\ begin <= LastLine.Offset /\ LineEnd(LastLine) <= size
            /\ LastLine.Offset \in Nat /\ LastLine.Size \in Nat
        BY LineTypes DEF Inv, History, LastLine
      <4>2. QED
        BY <1>2, <3>1, <4>1 DEF LineEnd
    <3>4. Passed(WholeLines', begin', lines', offset') = {}
      BY <1>1, <1>2, <1>3, <3>2 DEF Passed
    <3>5. Len(received) = 0
      BY <3>3
    <3>6. QED
      BY <3>2, <3>4, <3>5
  <2>2. begin' > 0 /\ begin' \in nl' =>
          /\ Cardinality(Passed(WholeLines', begin', lines', offset')) = skipped' + Len(received')
          /\ \A i \in 1 .. Len(received') :
               Cardinality(Behind(WholeLines', begin', received'[i].Offset)) = NonNegative(skip)' + i
    <3>1. Cardinality({}) = 0
      BY FS_EmptySet
    <3>2. ASSUME begin' > 0, begin' \in nl'
          PROVE  /\ Passed(WholeLines', begin', lines', offset') = {} /\ skipped' + Len(received') = 0
                 /\ Len(received') = 0
      BY <1>1, <2>1, <3>2
    <3>3. QED
      BY <3>1, <3>2
  <2>3. QED
    BY <1>1, <1>6, <2>2 DEF Counted, Taken, UpTo
<1>8. CASE begin \in nl
  <2>1. ASSUME begin > 0
        PROVE  /\ Passed(WholeLines', begin', lines', offset') = Taken(lines, offset)
               /\ \A i \in 1 .. Len(received) :
                    Behind(WholeLines', begin', received[i].Offset) = UpTo(received[i].Offset)
    <3>1. offset \in nl
      BY <1>8, <2>1 DEF Inv, Reading, WholeOK
    <3>2. Passed(WholeLines', begin', lines', offset') = Taken(lines, offset)
      BY <1>1, <1>4, <1>5, <3>1 DEF Taken, Passed
    <3>3. ASSUME NEW i \in 1 .. Len(received)
          PROVE  Behind(WholeLines', begin', received[i].Offset) = UpTo(received[i].Offset)
      <4>1. /\ Whole(received[i]) /\ received[i].Offset \in Nat /\ received[i].Size \in Nat
        BY <1>2, <1>8, <2>1, LineTypes DEF Inv, ExactlyOnce
      <4>2. LineEnd(received[i]) \in nl /\ received[i].Offset < LineEnd(received[i])
        BY <4>1 DEF Whole, LineEnd
      <4>3. \A p \in WholeLines' : p <= received[i].Offset => p < LineEnd(received[i])
        BY <1>3, <4>1, <4>2 DEF LineEnd
      <4>4. \A p \in WholeLines' : p <= received[i].Offset => p \in WholeLines
        BY <1>5, <4>2, <4>3
      <4>5. {q \in WholeLines' : begin < q /\ q <= received[i].Offset}
              = {q \in WholeLines : begin < q /\ q <= received[i].Offset}
        BY <1>4, <4>4
      <4>6. QED
        BY <1>1, <4>5 DEF UpTo, Behind
    <3>4. QED
      BY <3>2, <3>3
  <2>2. begin' > 0 =>
          /\ Cardinality(Passed(WholeLines', begin', lines', offset')) = skipped' + Len(received')
          /\ \A i \in 1 .. Len(received') :
               Cardinality(Behind(WholeLines', begin', received'[i].Offset)) = NonNegative(skip)' + i
    <3>1. begin > 0 =>
            /\ Cardinality(Taken(lines, offset)) = skipped + Len(received)
            /\ \A i \in 1 .. Len(received) :
                 Cardinality(UpTo(received[i].Offset)) = NonNegative(skip) + i
      BY <1>8 DEF Counted
    <3>2. QED
      BY <1>1, <1>6, <2>1, <3>1
  <2>3. QED
    BY <1>1, <1>6, <2>2 DEF Counted, Taken, UpTo
<1>9. QED
  BY <1>7, <1>8

\* A reading that starts has counted nothing.
LEMMA StartCounted ==
  ASSUME TypeOK', begin' = offset', lines' = {}, received' = <<>>, skipped' = 0, readLines' = 0
  PROVE  Counted(lines, offset)'
<1>1. Len(received') = 0 /\ offset' \in Nat /\ skip' \in Int /\ limit' \in Int
  BY DEF TypeOK
<1>2. NonNegative(skip)' \in Nat
  BY <1>1 DEF NonNegative
<1>3. Passed(WholeLines', begin', lines', offset') = {}
  <2>1. \A p \in WholeLines' : p \in Nat
    BY WholeLinesFacts, TypeOK' DEF WholeLines, TypeOK
  <2>2. QED
    BY <1>1, <2>1 DEF Passed
<1>4. Cardinality(Passed(WholeLines', begin', lines', offset')) = 0
  BY <1>3, FS_EmptySet
<1>5. \A i \in 1 .. Len(received') : FALSE
  BY <1>1
<1>6. 0 <= NonNegative(skip)' /\ (limit' > 0 => 0 <= limit')
  BY <1>1, <1>2
<1>7. QED
  BY <1>1, <1>4, <1>5, <1>6 DEF Counted, Taken, UpTo

\* Asking for a chunk counts nothing either.
LEMMA ChunkCounted ==
  ASSUME Inv, pc = "read", lines = {}, ~NoNewData(nl, offset, ChunkEnd), Counted(lines, offset)
  PROVE  Counted(Buffered(nl, offset, ChunkEnd), NextOffset(nl, offset, ChunkEnd))
<1>1. begin > 0 /\ begin \in nl =>
        Taken(Buffered(nl, offset, ChunkEnd), NextOffset(nl, offset, ChunkEnd))
          = Taken(lines, offset)
  BY ChunkTaken
<1>2. QED
  BY <1>1 DEF Counted

\* Nothing changes in what a reading counts while it asks and gets nothing.
LEMMA StayCounted ==
  ASSUME NEW S, NEW off, Counted(S, off), lines' = S, offset' = off,
         UNCHANGED <<size, nl, begin, received, skipped, readLines, skip, limit>>
  PROVE  Counted(lines, offset)'
<1>1. WholeLines' = WholeLines
  BY DEF WholeLines
<1>2. QED
  BY <1>1 DEF Counted, Taken, UpTo, NonNegative

\* A range that ends without an error after a reading in good order.
LEMMA EndExact ==
  ASSUME Inv, Counted(lines, offset),
         UNCHANGED <<size, nl, begin, received, skip, limit>>,
         begin > 0 /\ begin \in nl =>
           \/ limit > 0 /\ readLines = limit
           \/ Taken(lines, offset) = {p \in WholeLines : begin < p}
  PROVE  RangeExact'
<1>1. begin > 0 /\ begin \in nl =>
        /\ {[Offset |-> received[i].Offset, Size |-> received[i].Size] :
              i \in 1 .. Len(received)} = Wanted
        /\ Len(received) = Cardinality(Wanted)
  BY CountedEnd
<1>2. CompleteLines' = CompleteLines /\ \A l : Rank(l)' = Rank(l)
  BY DEF CompleteLines, Rank, Whole
<1>3. Wanted' = Wanted
  BY <1>2 DEF Wanted, Rank
<1>4. QED
  BY <1>1, <1>3 DEF RangeExact

\* Every step keeps what a range has counted.
LEMMA RangeStep == Inv /\ RangeInv /\ [Next]_vars => RangeInv'
<1> SUFFICES ASSUME Inv, RangeInv, [Next]_vars
             PROVE  RangeInv'
  OBVIOUS
<1> USE DEF file, manager, client
<1>kept. req' = req /\ (req.stream /\ status # "ok" => status' # "ok")
  <2>1. CASE CalcOffset
    BY <2>1 DEF CalcOffset
  <2>2. CASE Write \/ Resume \/ Open \/ OpenError \/ Disconnect \/ Reconnect \/ UNCHANGED vars
    BY <2>2 DEF vars, Write, Resume, Open, OpenError, Disconnect, Reconnect, Finish
  <2>3. CASE Read
    BY <2>3 DEF Read, ReadLimit, ReadEOF, ReadError, ReadNoData, ReadBuffered, ReadChunk, Take,
                LimitReached, Finish
  <2>4. QED
    BY <2>1, <2>2, <2>3 DEF Next
<1> SUFFICES ASSUME ~req.stream, ~req'.stream
             PROVE  RangeInv'
  BY <1>kept DEF RangeInv
<1>0. TypeOK /\ TypeOK'
  BY TypeStep DEF Inv
<1>1. /\ pc \in {"setup", "calcOffset"} => skipped = 0 /\ readLines = 0
      /\ pc = "read" => Counted(lines, offset)
      /\ RangeExact
  BY DEF RangeInv
<1>2. ASSUME pc' # "done",
             pc' \in {"setup", "calcOffset"} => skipped' = 0 /\ readLines' = 0,
             pc' = "read" => Counted(lines, offset)'
      PROVE  RangeInv'
  BY <1>2 DEF RangeInv, RangeExact
<1>3. ASSUME pc' = "done", status' # "ok" \/ RangeExact'
      PROVE  RangeInv'
  BY <1>3 DEF RangeInv, RangeExact
<1>4. CASE Write
  BY <1>1, <1>2, <1>4, WriteCounted DEF Write
<1>5. CASE Resume
  BY <1>5 DEF Resume, Inv, Phase
<1>6. CASE Open
  <2>1. /\ lines' = {} /\ received' = <<>> /\ skipped' = 0 /\ readLines' = 0
        /\ \/ pc' = "read" /\ begin' = offset'
           \/ pc' = "calcOffset"
    BY <1>1, <1>6 DEF Open, StartReading, Inv, Phase
  <2>2. QED
    BY <1>0, <1>2, <2>1, StartCounted
<1>7. CASE OpenError
  BY <1>3, <1>7 DEF OpenError, Finish
<1>8. CASE CalcOffset
  <2>1. /\ lines' = {} /\ received' = <<>> /\ skipped' = 0 /\ readLines' = 0
        /\ \/ pc' = "read" /\ begin' = offset'
           \/ pc' = "calcOffset"
    BY <1>1, <1>8 DEF CalcOffset, StartReading, Inv, Phase
  <2>2. QED
    BY <1>0, <1>2, <2>1, StartCounted
<1>9. CASE ReadLimit
  <2>1. /\ pc = "read" /\ pc' = "done" /\ limit > 0 /\ readLines = limit
        /\ UNCHANGED <<size, nl, begin, received, skip, limit>>
    BY <1>9 DEF ReadLimit, Finish, LimitReached
  <2>2. QED
    BY <1>1, <1>3, <2>1, EndExact
<1>10. CASE ReadEOF
  <2>1. /\ pc = "read" /\ pc' = "done" /\ lines = {} /\ NoNewData(nl, offset, ChunkEnd)
        /\ UNCHANGED <<size, nl, begin, received, skip, limit>>
    BY <1>10 DEF ReadEOF, Finish
  <2>2. begin > 0 /\ begin \in nl => Taken(lines, offset) = {p \in WholeLines : begin < p}
    BY <2>1, EndTaken
  <2>3. QED
    BY <1>1, <1>3, <2>1, <2>2, EndExact
<1>11. CASE ReadError
  BY <1>3, <1>11 DEF ReadError, Finish
<1>12. CASE ReadNoData
  <2>1. /\ pc = "read" /\ pc' = pc /\ lines = {} /\ lines' = lines
        /\ ~NoNewData(nl, offset, ChunkEnd)
        /\ Buffered(nl, offset, ChunkEnd) = {} /\ offset' = NextOffset(nl, offset, ChunkEnd)
        /\ UNCHANGED <<size, nl, begin, received, skipped, readLines, skip, limit>>
    BY <1>12 DEF ReadNoData
  <2>2. Counted(Buffered(nl, offset, ChunkEnd), NextOffset(nl, offset, ChunkEnd))
    BY <1>1, <2>1, ChunkCounted
  <2>3. Counted(lines, offset)'
    BY <2>1, <2>2, StayCounted
  <2>4. QED
    BY <1>2, <2>1, <2>3
<1>13. CASE ReadBuffered
  <2>1. /\ pc = "read" /\ ~LimitReached /\ lines # {}
        /\ Take(Pop(lines), lines \ {Pop(lines)}, offset)
    BY <1>13 DEF ReadBuffered
  <2>2. lines \in SUBSET Line /\ offset \in Nat /\ Reading(lines, offset)
    BY <1>0, <2>1 DEF TypeOK, Inv
  <2>3. Counted(lines, offset)' /\ pc' = pc
    BY <1>1, <2>1, <2>2, TakeCounted DEF Take
  <2>4. QED
    BY <1>2, <2>1, <2>3
<1>14. CASE ReadChunk
  <2> DEFINE new == Buffered(nl, offset, ChunkEnd)
             n == NextOffset(nl, offset, ChunkEnd)
  <2>1. /\ pc = "read" /\ ~LimitReached /\ lines = {} /\ ~NoNewData(nl, offset, ChunkEnd)
        /\ new # {} /\ Take(Pop(new), new \ {Pop(new)}, n)
    BY <1>14 DEF ReadChunk
  <2>2. new \in SUBSET Line /\ n \in Nat
    BY <1>0, <2>1, ChunkNumbers
  <2>3. Reading(new, n) /\ Counted(new, n)
    BY <1>1, <2>1, ChunkReading, ChunkCounted
  <2> HIDE DEF new, n
  <2>4. Counted(lines, offset)' /\ pc' = pc
    BY <2>1, <2>2, <2>3, TakeCounted DEF Take
  <2>5. QED
    BY <1>2, <2>1, <2>4
<1>15. CASE Disconnect
  BY <1>3, <1>15 DEF Disconnect, Finish
<1>16. CASE Reconnect
  BY <1>2, <1>16 DEF Reconnect
<1>17. CASE UNCHANGED vars
  <2>1. UNCHANGED <<size, nl, begin, received, skip, limit, pc, status, lines, offset, skipped,
                    readLines>>
    BY <1>17 DEF vars
  <2>2. pc = "read" => Counted(lines, offset)'
    BY <1>1, <2>1, StayCounted
  <2>3. CompleteLines' = CompleteLines /\ Wanted' = Wanted
    BY <2>1 DEF CompleteLines, Rank, Whole, Wanted
  <2>4. RangeExact'
    BY <1>1, <2>1, <2>3 DEF RangeExact
  <2>5. QED
    BY <1>1, <2>1, <2>2, <2>4 DEF RangeInv
<1>18. QED
  BY <1>4, <1>5, <1>6, <1>7, <1>8, <1>9, <1>10, <1>11, <1>12, <1>13, <1>14, <1>15, <1>16, <1>17
     DEF Next, Read

\* A range that started on a newline and was closed without an error sent exactly
\* the lines its skip and limit ask for, whatever their number and however they fall
\* on the chunks, while the task goes on writing.
THEOREM RangeReturnsWanted == Spec => []RangeExact
<1>1. Init => RangeInv
  BY DEF Init, RangeInv, RangeExact
<1>2. RangeInv => RangeExact
  BY DEF RangeInv, RangeExact
<1>3. QED
  BY <1>1, <1>2, RangeStep, InvCorrect, PTL DEF Spec

-----------------------------------------------------------------------------
(***************************************************************************)
(* Where a tail starts.  calcOffset goes back chunk by chunk, but a tail   *)
(* that TailExact speaks about is found in the first one: the pieces it    *)
(* counts from the bottom are the last lines of the file.                  *)
(***************************************************************************)
\* The lines in front of an offset, and TailBegin for them.
LinesBefore(breaks, off) == {l \in Split(breaks, 0, off) : l.Size > 0}

StartsTail(L, off, n, b) ==
  /\ \A l \in L : b <= l.Offset \/ LineEnd(l) <= b
  /\ \/ Cardinality({l \in L : l.Offset >= b}) = n
     \/ Cardinality(L) <= n /\ b <= Min({off} \cup {l.Offset : l \in L})

\* A finite set of lines that start at different places, counted from the last.
LEMMA NthFromBottom ==
  ASSUME NEW S \in SUBSET Line, IsFiniteSet(S), \A l, k \in S : l.Offset = k.Offset => l = k,
         NEW h \in Nat, \A l \in S : l.Offset <= h,
         NEW n \in 1 .. Cardinality(S)
  PROVE  \E l \in S : Cardinality({k \in S : k.Offset >= l.Offset}) = n
<1> DEFINE O == {l.Offset : l \in S}
           start(T) == [l \in T |-> l.Offset]
           High(e) == {o \in O : o >= e}
           HighLines(e) == {k \in S : k.Offset >= e}
<1>1. O \in SUBSET Nat /\ (\A o \in O : o <= h) /\ \A l \in S : l.Offset \in Nat
  BY DEF Line
<1>2. ASSUME NEW T, NEW U, T \subseteq S, U \subseteq O, \A l \in T : l.Offset \in U,
             \A o \in U : \E l \in T : l.Offset = o
      PROVE  Cardinality(T) = Cardinality(U)
  <2>1. start(T) \in [T -> U] /\ \A l \in T : start(T)[l] = l.Offset
    BY <1>2
  <2>2. IsFiniteSet(T)
    BY <1>2, FS_Subset
  <2> DEFINE f == start(T)
  <2> HIDE DEF f
  <2>3. f \in [T -> U] /\ \A l \in T : f[l] = l.Offset
    BY <2>1 DEF f
  <2>4. f \in Injection(T, U)
    BY <1>2, <2>3 DEF Injection, IsInjective
  <2>5. f \in Surjection(T, U)
    <3>1. \A o \in U : \E l \in T : f[l] = o
      BY <1>2, <2>3
    <3>2. QED
      BY <2>3, <3>1 DEF Surjection
  <2>6. QED
    BY <2>2, <2>4, <2>5, FS_Surjection
<1>3. Cardinality(S) = Cardinality(O)
  BY <1>2
<1>4. \A e : Cardinality(HighLines(e)) = Cardinality(High(e))
  <2>1. TAKE e
  <2>2. HighLines(e) \subseteq S /\ High(e) \subseteq O
    OBVIOUS
  <2>3. \A l \in HighLines(e) : l.Offset \in High(e)
    OBVIOUS
  <2>4. \A o \in High(e) : \E l \in HighLines(e) : l.Offset = o
    OBVIOUS
  <2> HIDE DEF O, High, HighLines, start
  <2>5. QED
    BY <1>2, <2>2, <2>3, <2>4
<1>5. n \in 1 .. Cardinality(O)
  BY <1>3
<1> HIDE DEF O
<1>6. PICK e \in O : Cardinality({o \in O : o >= e}) = n
  BY <1>1, <1>5, RankedFromAbove
<1>7. PICK l \in S : l.Offset = e
  BY DEF O
<1>8. QED
  BY <1>4, <1>6, <1>7

\* A piece of a split is a line between breaks, and starts where no other does.
LEMMA SplitFacts ==
  ASSUME NEW breaks \in SUBSET Nat, NEW lo \in Nat, NEW hi \in Nat
  PROVE  /\ \A l \in Split(breaks, lo, hi) :
              /\ l \in Line /\ l.Offset \in Nat /\ l.Size \in Nat /\ LineEnd(l) \in Nat
              /\ lo <= l.Offset /\ l.Offset <= LineEnd(l) /\ LineEnd(l) <= hi
              /\ l.Offset = lo \/ (l.Offset - 1 \in breaks /\ lo < l.Offset)
              /\ LineEnd(l) = hi \/ LineEnd(l) \in breaks
              /\ \A p \in breaks : lo <= p /\ p < hi => p < l.Offset \/ LineEnd(l) <= p
         /\ \A l, k \in Split(breaks, lo, hi) : l.Offset = k.Offset => l = k
         /\ \A l \in Line :
              /\ lo <= l.Offset /\ LineEnd(l) <= hi
              /\ l.Offset = lo \/ (l.Offset - 1 \in breaks /\ lo < l.Offset)
              /\ LineEnd(l) = hi \/ LineEnd(l) \in breaks
              /\ l.Size > 0
              /\ \A p \in breaks : lo <= p /\ p < hi => p < l.Offset \/ LineEnd(l) <= p
              => l \in Split(breaks, lo, hi)
<1>1. ASSUME NEW l \in Split(breaks, lo, hi)
      PROVE  /\ l \in Line /\ l.Offset \in Nat /\ l.Size \in Nat /\ LineEnd(l) \in Nat
             /\ lo <= l.Offset /\ l.Offset <= LineEnd(l) /\ LineEnd(l) <= hi
             /\ l.Offset = lo \/ (l.Offset - 1 \in breaks /\ lo < l.Offset)
             /\ LineEnd(l) = hi \/ (LineEnd(l) \in breaks /\ LineEnd(l) < hi)
             /\ \A p \in breaks : lo <= p /\ p < hi => p < l.Offset \/ LineEnd(l) <= p
  <2>1. /\ l \in [Offset : lo .. hi, Size : 0 .. hi - lo]
        /\ l.Offset = lo \/ l.Offset - 1 \in Breaks(breaks, lo, hi)
        /\ LineEnd(l) = hi \/ LineEnd(l) \in Breaks(breaks, lo, hi)
        /\ \A p \in Breaks(breaks, lo, hi) : p < l.Offset \/ LineEnd(l) <= p
    BY DEF Split
  <2>2. l \in Line /\ l.Offset \in Nat /\ l.Size \in Nat /\ lo <= l.Offset
    BY <2>1 DEF Line
  <2>3. LineEnd(l) \in Nat /\ l.Offset <= LineEnd(l)
    BY <2>2 DEF LineEnd
  <2>4. LineEnd(l) = hi \/ (LineEnd(l) \in breaks /\ LineEnd(l) < hi)
    BY <2>1 DEF Breaks
  <2>5. l.Offset = lo \/ (l.Offset - 1 \in breaks /\ lo < l.Offset)
    BY <2>1, <2>2 DEF Breaks
  <2>6. \A p \in breaks : lo <= p /\ p < hi => p < l.Offset \/ LineEnd(l) <= p
    BY <2>1 DEF Breaks
  <2>7. LineEnd(l) <= hi
    BY <2>3, <2>4
  <2>8. QED
    BY <2>2, <2>3, <2>4, <2>5, <2>6, <2>7
<1>2. ASSUME NEW l \in Split(breaks, lo, hi), NEW k \in Split(breaks, lo, hi), l.Offset = k.Offset
      PROVE  l = k
  <2>1. LineEnd(l) = LineEnd(k)
    <3>1. LineEnd(l) <= LineEnd(k)
      BY <1>1, <1>2
    <3>2. LineEnd(k) <= LineEnd(l)
      BY <1>1, <1>2
    <3>3. QED
      BY <1>1, <3>1, <3>2
  <2>2. /\ l \in Line /\ k \in Line /\ l.Offset \in Nat /\ k.Offset \in Nat
        /\ l.Size \in Nat /\ k.Size \in Nat
    BY <1>1
  <2>3. l.Size = k.Size
    BY <1>2, <2>1, <2>2 DEF LineEnd
  <2>4. QED
    BY <1>2, <2>2, <2>3 DEF Line
<1>3. ASSUME NEW l \in Line, lo <= l.Offset, LineEnd(l) <= hi,
             l.Offset = lo \/ (l.Offset - 1 \in breaks /\ lo < l.Offset),
             LineEnd(l) = hi \/ LineEnd(l) \in breaks,
             l.Size > 0,
             \A p \in breaks : lo <= p /\ p < hi => p < l.Offset \/ LineEnd(l) <= p
      PROVE  l \in Split(breaks, lo, hi)
  <2>1. /\ l.Offset \in Nat /\ l.Size \in Nat /\ LineEnd(l) \in Nat
        /\ l.Offset < LineEnd(l) /\ l.Offset - 1 < hi
    BY <1>3 DEF Line, LineEnd
  <2>2. l \in [Offset : lo .. hi, Size : 0 .. hi - lo]
    BY <1>3, <2>1 DEF Line, LineEnd
  <2>3. l.Offset = lo \/ l.Offset - 1 \in Breaks(breaks, lo, hi)
    BY <1>3, <2>1 DEF Breaks
  <2>4. LineEnd(l) = hi \/ LineEnd(l) \in Breaks(breaks, lo, hi)
    BY <1>3, <2>1 DEF Breaks, LineEnd, Line
  <2>5. \A p \in Breaks(breaks, lo, hi) : p < l.Offset \/ LineEnd(l) <= p
    BY <1>3 DEF Breaks
  <2>6. QED
    BY <2>2, <2>3, <2>4, <2>5 DEF Split
<1>4. QED
  BY <1>1, <1>2, <1>3

\* The non-empty pieces of the last chunk, read from the bottom, are the lines of
\* the file that start in it, or all lines if the chunk is the whole file.
LEMMA LastChunk ==
  ASSUME NEW breaks \in SUBSET Nat, NEW lo \in Nat, NEW hi \in Nat, lo < hi
  PROVE  {l \in ReversedLines(breaks, lo, hi) : l.Size > 0 /\ (lo = 0 \/ l.Offset > lo)}
           = {l \in LinesBefore(breaks, hi) : lo = 0 \/ l.Offset > lo}
<1>1. ASSUME NEW l \in ReversedLines(breaks, lo, hi), l.Size > 0, lo = 0 \/ l.Offset > lo
      PROVE  l \in LinesBefore(breaks, hi)
  <2>1. l \in Split(breaks, lo, hi)
    BY DEF ReversedLines
  <2>2. CASE lo = 0
    BY <1>1, <2>1, <2>2 DEF LinesBefore
  <2>3. CASE l.Offset > lo
    <3>1. /\ l \in Line /\ l.Offset \in Nat /\ LineEnd(l) \in Nat
          /\ l.Offset <= LineEnd(l) /\ LineEnd(l) <= hi
          /\ l.Offset - 1 \in breaks /\ 0 < l.Offset
          /\ LineEnd(l) = hi \/ LineEnd(l) \in breaks
          /\ \A p \in breaks : lo <= p /\ p < hi => p < l.Offset \/ LineEnd(l) <= p
      BY <2>1, <2>3, SplitFacts
    <3>2. \A p \in breaks : 0 <= p /\ p < hi => p < l.Offset \/ LineEnd(l) <= p
      BY <2>3, <3>1
    <3>3. 0 \in Nat
      OBVIOUS
    <3> DEFINE zero == 0
    <3>4. /\ zero \in Nat /\ zero <= l.Offset /\ zero < l.Offset
          /\ \A p \in breaks : zero <= p /\ p < hi => p < l.Offset \/ LineEnd(l) <= p
      BY <3>1, <3>2
    <3> HIDE DEF zero
    <3>5. l \in Split(breaks, zero, hi)
      BY <1>1, <3>1, <3>4, SplitFacts
    <3>6. QED
      BY <1>1, <3>5 DEF LinesBefore, zero
  <2>4. QED
    BY <1>1, <2>2, <2>3
<1>2. ASSUME NEW l \in LinesBefore(breaks, hi), lo = 0 \/ l.Offset > lo
      PROVE  l \in ReversedLines(breaks, lo, hi) /\ l.Size > 0
  <2>1. l \in Split(breaks, 0, hi) /\ l.Size > 0
    BY DEF LinesBefore
  <2>2. CASE lo = 0
    BY <2>1, <2>2 DEF ReversedLines, DropsLast
  <2>3. CASE l.Offset > lo
    <3> DEFINE zero == 0
    <3>1. zero \in Nat /\ l \in Split(breaks, zero, hi)
      BY <2>1
    <3> HIDE DEF zero
    <3>2. /\ l \in Line /\ l.Offset \in Nat /\ LineEnd(l) <= hi
          /\ l.Offset = zero \/ l.Offset - 1 \in breaks
          /\ LineEnd(l) = hi \/ LineEnd(l) \in breaks
          /\ \A p \in breaks : zero <= p /\ p < hi => p < l.Offset \/ LineEnd(l) <= p
      BY <3>1, SplitFacts
    <3>3. l.Offset - 1 \in breaks /\ lo <= l.Offset
      BY <2>3, <3>2 DEF zero
    <3>4. \A p \in breaks : lo <= p /\ p < hi => p < l.Offset \/ LineEnd(l) <= p
      BY <3>2 DEF zero
    <3>5. l \in Split(breaks, lo, hi)
      BY <2>1, <2>3, <3>2, <3>3, <3>4, SplitFacts
    <3>6. QED
      BY <2>1, <2>3, <3>5, <3>2 DEF ReversedLines
  <2>4. QED
    BY <1>2, <2>2, <2>3
<1>3. QED
  BY <1>1, <1>2

\* A tail of n lines that lies in the last chunk is found there: calcOffset ends
\* with its first round, in front of the n-th line from the bottom or of all lines.
LEMMA FirstRoundFinds ==
  ASSUME NEW breaks \in SUBSET Nat, NEW hi \in Nat, NEW n \in Nat, n > 0,
         NEW lo \in Nat, lo = IF hi > ChunkSize THEN hi - ChunkSize ELSE 0,
         lo > 0 => Cardinality({l \in LinesBefore(breaks, hi) : l.Offset > lo}) >= n
  PROVE  LET back == ReversedLines(breaks, lo, hi)
             L == LinesBefore(breaks, hi)
         IN  /\ NoNewData(breaks, lo, hi) => StartsTail(L, hi, n, NonNegative(hi))
             /\ ~NoNewData(breaks, lo, hi) /\ Cardinality(back) >= n =>
                  StartsTail(L, hi, n, NonNegative(hi - Rewind(back, hi, n)))
             /\ ~NoNewData(breaks, lo, hi) /\ Cardinality(back) < n =>
                  StartsTail(L, hi, n, 0) /\ lo = 0
<1> DEFINE L == LinesBefore(breaks, hi)
           back == ReversedLines(breaks, lo, hi)
           N == {l \in back : l.Size > 0 /\ (lo = 0 \/ l.Offset > lo)}
           zero == 0
<1>1. ChunkSize \in Nat /\ ChunkSize > 1
  BY ChunkSizeAssumption
<1>2. /\ zero \in Nat /\ L \in SUBSET Split(breaks, zero, hi)
      /\ \A l \in L : l.Size > 0
  BY DEF LinesBefore
<1> HIDE DEF zero
<1>3. /\ IsFiniteSet(L) /\ L \in SUBSET Line
      /\ \A l, k \in L : l.Offset = k.Offset => l = k
      /\ \A l \in L : /\ l.Offset \in Nat /\ l.Size \in Nat /\ l.Size > 0 /\ LineEnd(l) \in Nat
                      /\ l.Offset < LineEnd(l) /\ LineEnd(l) <= hi
                      /\ l.Offset = 0 \/ l.Offset - 1 \in breaks
                      /\ \A p \in breaks : p < hi => p < l.Offset \/ LineEnd(l) <= p
  <2>1. IsFiniteSet(L) /\ L \in SUBSET Line
    <3> HIDE DEF L
    <3>1. Split(breaks, zero, hi) \in SUBSET Line /\ IsFiniteSet(Split(breaks, zero, hi))
      BY <1>2, SplitFinite
    <3>2. QED
      BY <1>2, <3>1, FS_Subset
  <2>2. \A l, k \in L : l.Offset = k.Offset => l = k
    BY <1>2, SplitFacts
  <2>3. ASSUME NEW l \in L
        PROVE  /\ l.Offset \in Nat /\ l.Size \in Nat /\ l.Size > 0 /\ LineEnd(l) \in Nat
               /\ l.Offset < LineEnd(l) /\ LineEnd(l) <= hi
               /\ l.Offset = 0 \/ l.Offset - 1 \in breaks
               /\ \A p \in breaks : p < hi => p < l.Offset \/ LineEnd(l) <= p
    <3>1. l \in Split(breaks, zero, hi) /\ l.Size > 0
      BY <1>2
    <3>2. /\ l.Offset \in Nat /\ l.Size \in Nat /\ LineEnd(l) \in Nat /\ LineEnd(l) <= hi
          /\ l.Offset = zero \/ l.Offset - 1 \in breaks
          /\ \A p \in breaks : zero <= p /\ p < hi => p < l.Offset \/ LineEnd(l) <= p
      BY <1>2, <3>1, SplitFacts
    <3>3. l.Offset < LineEnd(l)
      BY <3>1, <3>2 DEF LineEnd
    <3>4. \A p \in breaks : p < hi => p < l.Offset \/ LineEnd(l) <= p
      BY <3>2 DEF zero
    <3>5. QED
      BY <3>1, <3>2, <3>3, <3>4 DEF zero
  <2>4. QED
    BY <2>1, <2>2, <2>3
<1> HIDE DEF L
<1>4. {l.Offset : l \in L} \cup {hi} \in SUBSET Nat
  BY <1>3
<1>5. ASSUME NEW b \in Nat, b <= hi, \A l \in L : b <= l.Offset
      PROVE  b <= Min({hi} \cup {l.Offset : l \in L})
  <2> DEFINE M == {hi} \cup {l.Offset : l \in L}
  <2>1. M \in SUBSET Nat /\ M # {} /\ \A x \in M : b <= x
    BY <1>3, <1>5
  <2> HIDE DEF M
  <2>2. Min(M) \in M
    BY <2>1, MinNat
  <2>3. QED
    BY <2>1, <2>2 DEF M
<1>6. ASSUME NEW b \in Nat, b <= hi, \A l \in L : b <= l.Offset, Cardinality(L) <= n
      PROVE  StartsTail(L, hi, n, b)
  BY <1>5, <1>6 DEF StartsTail
<1>7. CASE NoNewData(breaks, lo, hi)
  <2>1. lo = 0 /\ (hi = 0 \/ (hi = 1 /\ 0 \in breaks))
    BY <1>1, <1>7 DEF NoNewData
  <2>2. L = {}
    <3> SUFFICES ASSUME NEW l \in L
                 PROVE  FALSE
      OBVIOUS
    <3>1. hi = 1 /\ 0 \in breaks /\ l.Offset = 0 /\ LineEnd(l) = 1
      BY <1>3, <2>1
    <3>2. 0 < l.Offset \/ LineEnd(l) <= 0
      BY <1>3, <3>1
    <3>3. QED
      BY <3>1, <3>2
  <2>3. Cardinality(L) = 0
    BY <2>2, FS_EmptySet
  <2>4. StartsTail(L, hi, n, hi)
    BY <1>6, <2>2, <2>3
  <2>5. NonNegative(hi) = hi
    BY DEF NonNegative
  <2>6. QED
    BY <1>7, <2>4, <2>5 DEF L
<1>8. CASE ~NoNewData(breaks, lo, hi)
  <2>1. lo < hi
    BY <1>8 DEF NoNewData
  <2>2. N = {l \in L : lo = 0 \/ l.Offset > lo}
    BY <2>1, LastChunk DEF L
  <2>3. /\ N \in SUBSET L /\ IsFiniteSet(N) /\ Cardinality(N) \in Nat
        /\ back \in SUBSET Line /\ IsFiniteSet(back) /\ N \in SUBSET back
        /\ Cardinality(N) <= Cardinality(back) /\ Cardinality(back) \in Nat
    <3>1. back \in SUBSET Split(breaks, lo, hi) /\ N \in SUBSET back
      BY DEF ReversedLines
    <3>2. N \in SUBSET L
      BY <2>2
    <3> HIDE DEF N, back
    <3>3. IsFiniteSet(back) /\ back \in SUBSET Line
      BY <3>1, SplitFinite, FS_Subset
    <3>4. QED
      BY <1>3, <3>1, <3>2, <3>3, FS_Subset, FS_CardinalityType
  <2>4. lo > 0 => Cardinality(N) >= n
    <3>1. lo > 0 => N = {l \in L : l.Offset > lo}
      BY <2>2
    <3>2. QED
      BY <3>1 DEF L
  <2>5. lo = 0 => N = L
    BY <2>2
  <2>6. \A l \in back : l.Size > 0 => l \in N
    <3> SUFFICES ASSUME NEW l \in back, l.Size > 0, lo > 0
                 PROVE  l.Offset > lo
      BY <2>1
    <3>1. l \in Split(breaks, lo, hi) /\ (DropsLast(breaks, lo, hi) => l.Offset # lo)
      BY DEF ReversedLines
    <3>2. l.Offset \in Nat /\ lo <= l.Offset
      BY <3>1, SplitFacts
    <3>3. DropsLast(breaks, lo, hi)
      <4>1. N # {}
        <5> HIDE DEF N
        <5>1. QED
          BY <2>3, <2>4, FS_EmptySet
      <4>2. PICK k \in L : k.Offset > lo
        BY <2>2, <4>1
      <4>3. k.Offset - 1 \in Breaks(breaks, lo, hi)
        BY <1>3, <4>2 DEF Breaks
      <4>4. QED
        BY <4>3 DEF DropsLast
    <3>4. QED
      BY <3>1, <3>2, <3>3
  <2>7. ASSUME NEW l \in N
        PROVE  NonEmptyFrom(back, l) = Cardinality({k \in N : k.Offset >= l.Offset})
    <3>1. {k \in back : k.Size > 0 /\ k.Offset >= l.Offset} = {k \in N : k.Offset >= l.Offset}
      BY <2>6
    <3>2. QED
      BY <3>1 DEF NonEmptyFrom
  <2>8. ASSUME Cardinality(back) >= n
        PROVE  StartsTail(L, hi, n, NonNegative(hi - Rewind(back, hi, n)))
    <3> DEFINE stop == StopLine(back, n)
               b == NonNegative(stop.Offset - 1)
    <3>1. CASE \E l \in back : l.Size > 0 /\ NonEmptyFrom(back, l) = n
      <4>1. stop \in back /\ stop.Size > 0 /\ NonEmptyFrom(back, stop) = n
        BY <3>1 DEF StopLine
      <4>2. stop \in N /\ stop \in L
        BY <2>3, <2>6, <4>1
      <4>3. /\ stop.Offset \in Nat /\ (stop.Offset = 0 \/ stop.Offset - 1 \in breaks)
            /\ stop.Offset < hi
        BY <1>3, <4>2
      <4>4. b \in Nat /\ b = IF stop.Offset = 0 THEN 0 ELSE stop.Offset - 1
        BY <1>3, <4>2 DEF NonNegative
      <4> HIDE DEF b, stop
      <4>5. ASSUME NEW l \in L
            PROVE  /\ b <= l.Offset \/ LineEnd(l) <= b
                   /\ l.Offset >= b <=> l.Offset >= stop.Offset
        <5>1. CASE stop.Offset = 0
          BY <1>3, <4>4, <5>1
        <5>2. CASE stop.Offset # 0
          <6>1. b = stop.Offset - 1 /\ b \in breaks /\ b < hi
            BY <1>3, <4>2, <4>4, <5>2
          <6>2. b < l.Offset \/ LineEnd(l) <= b
            BY <1>3, <6>1
          <6>3. QED
            BY <1>3, <4>2, <4>4, <6>1, <6>2
        <5>3. QED
          BY <5>1, <5>2
      <4>6. {l \in L : l.Offset >= b} = {k \in N : k.Offset >= stop.Offset}
        <5>1. \A l \in L : l.Offset >= stop.Offset => l \in N
          BY <1>3, <2>2, <4>2
        <5>2. QED
          BY <2>3, <4>5, <5>1
      <4>7. Cardinality({l \in L : l.Offset >= b}) = n
        BY <2>7, <4>1, <4>2, <4>6
      <4>8. StartsTail(L, hi, n, b)
        BY <4>5, <4>7 DEF StartsTail
      <4>9. hi - Rewind(back, hi, n) = stop.Offset - 1
        BY <1>3, <4>2 DEF Rewind, stop
      <4>10. QED
        BY <4>8, <4>9 DEF b
    <3>2. CASE ~\E l \in back : l.Size > 0 /\ NonEmptyFrom(back, l) = n
      <4>1. Cardinality(N) < n
        <5> SUFFICES ASSUME n <= Cardinality(N)
                     PROVE  FALSE
          BY <2>3
        <5>1. /\ N \in SUBSET Line /\ n \in 1 .. Cardinality(N)
              /\ \A l, k \in N : l.Offset = k.Offset => l = k
              /\ \A l \in N : l.Offset <= hi
          BY <1>3, <2>3
        <5> HIDE DEF N
        <5>2. PICK l \in N : Cardinality({k \in N : k.Offset >= l.Offset}) = n
          BY <2>3, <5>1, NthFromBottom
        <5>3. l \in back /\ l.Size > 0 /\ NonEmptyFrom(back, l) = n
          BY <1>3, <2>3, <2>7, <5>2
        <5>4. QED
          BY <3>2, <5>3
      <4>2. lo = 0 /\ N = L
        <5>1. lo = 0
          <6> HIDE DEF N
          <6>1. QED
            BY <2>3, <2>4, <4>1
        <5>2. QED
          BY <2>5, <5>1
      <4>3. back # {}
        <5> HIDE DEF back
        <5>1. QED
          BY <2>3, <2>8, FS_EmptySet
      <4>4. \E l \in back : \A k \in back : l.Offset <= k.Offset
        <5> HIDE DEF back
        <5>1. QED
          BY <2>3, <4>3, TopmostLine
      <4>5. stop \in back /\ \A k \in back : stop.Offset <= k.Offset
        BY <3>2, <4>4 DEF StopLine
      <4>6. stop.Offset \in Nat /\ stop.Offset <= hi
        <5>1. stop \in Split(breaks, lo, hi)
          BY <4>5 DEF ReversedLines
        <5>2. QED
          BY <5>1, SplitFacts
      <4>7. b \in Nat /\ b <= stop.Offset /\ b <= hi
        BY <4>6 DEF NonNegative
      <4> HIDE DEF b
      <4>8. \A l \in L : b <= l.Offset
        BY <1>3, <2>3, <4>2, <4>5, <4>6, <4>7
      <4>9. StartsTail(L, hi, n, b)
        <5>1. Cardinality(L) <= n
          <6> HIDE DEF N
          <6>1. QED
            BY <2>3, <4>1, <4>2
        <5>2. QED
          BY <1>6, <4>7, <4>8, <5>1
      <4>10. hi - Rewind(back, hi, n) = stop.Offset - 1
        BY <4>6 DEF Rewind
      <4>11. QED
        BY <4>9, <4>10 DEF b
    <3>3. QED
      BY <3>1, <3>2
  <2>9. ASSUME Cardinality(back) < n
        PROVE  StartsTail(L, hi, n, 0) /\ lo = 0
    <3>1. Cardinality(N) < n
      BY <2>3, <2>9
    <3>2. lo = 0 /\ N = L
      <4>1. lo = 0
        <5> HIDE DEF N
        <5>1. QED
          BY <2>3, <2>4, <3>1
      <4>2. QED
        BY <2>5, <4>1
    <3>3. 0 <= hi /\ \A l \in L : 0 <= l.Offset
      BY <1>3
    <3>4. Cardinality(L) <= n
      <4> HIDE DEF N
      <4>1. QED
        BY <2>3, <3>1, <3>2
    <3>5. QED
      BY <1>6, <3>2, <3>3, <3>4
  <2>10. QED
    BY <1>8, <2>8, <2>9 DEF L
<1>9. QED
  BY <1>7, <1>8

-----------------------------------------------------------------------------
\* calcOffset has not gone back yet.
FirstRound ==
  /\ offset = asked
  /\ chunk = IF asked > ChunkSize
               THEN [offset |-> asked - ChunkSize, length |-> ChunkSize, found |-> 0]
               ELSE [offset |-> 0, length |-> asked, found |-> 0]

\* A tail that is in reach is sought in the first round and started right; a
\* request that was refused has no start.
TailInv ==
  /\ pc # "done" => status = "none"
  /\ req.cursor = EndCursor /\ req.skip < 0 =>
       /\ asked <= size
       /\ pc = "calcOffset" => skip = req.skip /\ (FirstRound \/ ~TailInReach)
       /\ pc \in {"read", "gone"} \/ status = "ok" \/ lastEventID # None =>
            (TailInReach => TailBegin)

\* The lines a client asked for the last of stay what they are while the task writes.
LEMMA AskedLinesStay ==
  ASSUME TypeOK, asked <= size, asked' = asked,
         nl' = nl \/ nl' = nl \cup {size}
  PROVE  AskedLines' = AskedLines
<1>1. asked \in Nat /\ size \in Nat
  BY DEF TypeOK
<1>2. Breaks(nl', 0, asked) = Breaks(nl, 0, asked)
  BY <1>1 DEF Breaks
<1>3. Split(nl', 0, asked) = Split(nl, 0, asked)
  BY <1>2 DEF Split
<1>4. QED
  BY <1>3 DEF AskedLines

\* TailBegin and TailInReach are about where the request started and those lines.
LEMMA TailStays ==
  ASSUME AskedLines' = AskedLines, UNCHANGED <<asked, begin, req>>
  PROVE  TailBegin' = TailBegin /\ TailInReach' = TailInReach
BY DEF TailBegin, TailInReach

\* The first round of calcOffset.
LEMMA RoundStarts ==
  ASSUME Inv, CalcOffset, FirstRound, TailInReach, skip = req.skip, skip < 0, asked <= size
  PROVE  pc' = "read" /\ TailBegin'
<1> DEFINE lo == chunk.offset
           hi == WindowEnd(size, lo, chunk.length)
           back == ReversedLines(nl, lo, hi)
           n == -skip
           above == lo - (ChunkSize - ReversedDelta(nl, lo, hi))
           L == LinesBefore(nl, asked)
<1>1. /\ nl \in SUBSET Nat /\ asked \in Nat /\ size \in Nat /\ n \in Nat /\ n > 0
      /\ ChunkSize \in Nat /\ ChunkSize > 0
  <2>1. /\ nl \in SUBSET (0 .. size - 1) /\ asked \in Nat /\ size \in Nat /\ skip \in Int
    BY DEF Inv, TypeOK
  <2>2. QED
    BY <2>1, ChunkSizeAssumption
<1>2. /\ lo \in Nat /\ lo = IF asked > ChunkSize THEN asked - ChunkSize ELSE 0
      /\ chunk.length = IF asked > ChunkSize THEN ChunkSize ELSE asked
      /\ chunk.found = 0
  BY <1>1 DEF FirstRound
<1>3. hi = asked
  BY <1>1, <1>2 DEF WindowEnd
<1>4. AskedLines = L /\ L = {l \in Split(nl, 0, asked) : l.Size > 0}
  BY DEF AskedLines, LinesBefore
<1>5. lo > 0 => Cardinality({l \in L : l.Offset > lo}) >= n
  <2>1. SUFFICES ASSUME lo > 0
                 PROVE  Cardinality({l \in L : l.Offset > lo}) >= n
    OBVIOUS
  <2> HIDE DEF lo, n
  <2>2. asked > ChunkSize /\ lo = asked - ChunkSize
    BY <1>1, <1>2, <2>1
  <2>3. ~(asked <= ChunkSize)
    BY <1>1, <2>2
  <2>4. Cardinality({l \in L : l.Offset > asked - ChunkSize}) >= -req.skip
    BY <1>4, <2>3 DEF TailInReach
  <2>5. n = -req.skip
    BY DEF n
  <2>6. QED
    BY <2>2, <2>4, <2>5
<1>6. /\ NoNewData(nl, lo, asked) => StartsTail(L, asked, n, NonNegative(asked))
      /\ ~NoNewData(nl, lo, asked) /\ Cardinality(ReversedLines(nl, lo, asked)) >= n =>
           StartsTail(L, asked, n,
                      NonNegative(asked - Rewind(ReversedLines(nl, lo, asked), asked, n)))
      /\ ~NoNewData(nl, lo, asked) /\ Cardinality(ReversedLines(nl, lo, asked)) < n =>
           StartsTail(L, asked, n, 0) /\ lo = 0
  <2> HIDE DEF lo, n
  <2>1. QED
    BY <1>1, <1>2, <1>5, FirstRoundFinds
<1>7. ~NoNewData(nl, lo, hi) =>
        /\ Cardinality(back) \in Nat
        /\ chunk.found + Cardinality(back) = Cardinality(back)
        /\ lo = 0 => above < 0
  <2>1. ASSUME ~NoNewData(nl, lo, hi)
        PROVE  Cardinality(back) \in Nat
    <3>1. ~NoNewData(nl, lo, asked)
      BY <1>3, <2>1
    <3> HIDE DEF lo
    <3>0. lo < asked
      BY <1>1, <1>2, <3>1 DEF NoNewData
    <3>2. Cardinality(ReversedLines(nl, lo, asked)) \in Nat
      BY <1>1, <1>2, <3>0, ReversedFacts
    <3>3. QED
      BY <1>3, <3>2
  <2>2. lo = 0 => ReversedDelta(nl, lo, hi) = 0
    BY DEF ReversedDelta, DropsLast
  <2>3. lo = 0 => above < 0
    BY <1>1, <2>2
  <2>4. QED
    BY <1>2, <2>1, <2>3
<1>8. /\ UNCHANGED <<size, nl, req, asked>>
      /\ \/ NoNewData(nl, lo, hi) /\ StartReading(NonNegative(offset))
         \/ /\ ~NoNewData(nl, lo, hi)
            /\ chunk.found + Cardinality(back) >= n
            /\ StartReading(NonNegative(offset - Rewind(back, hi, n)))
         \/ /\ ~NoNewData(nl, lo, hi)
            /\ chunk.found + Cardinality(back) < n
            /\ StartReading(0)
         \/ /\ ~NoNewData(nl, lo, hi)
            /\ chunk.found + Cardinality(back) < n
            /\ above >= 0
  BY DEF CalcOffset, file
<1>9. offset = asked
  BY DEF FirstRound
<1> HIDE DEF lo, above
<1>10. \E b : StartReading(b) /\ StartsTail(L, asked, n, b)
  <2>1. CASE NoNewData(nl, lo, hi)
    BY <1>3, <1>6, <1>8, <1>9, <2>1
  <2>2. CASE ~NoNewData(nl, lo, hi) /\ Cardinality(back) >= n
    <3>1. ~(Cardinality(back) < n)
      BY <1>1, <1>7, <2>2
    <3>2. StartReading(NonNegative(asked - Rewind(back, asked, n)))
      BY <1>3, <1>7, <1>8, <1>9, <2>2, <3>1
    <3>3. QED
      BY <1>3, <1>6, <2>2, <3>2
  <2>3. CASE ~NoNewData(nl, lo, hi) /\ Cardinality(back) < n
    <3>1. StartsTail(L, asked, n, 0) /\ lo = 0
      BY <1>3, <1>6, <2>3
    <3>2. above < 0 /\ ~(above >= 0) /\ ~(Cardinality(back) >= n)
      <4>1. above < 0 /\ ~(Cardinality(back) >= n)
        BY <1>1, <1>7, <2>3, <3>1
      <4>2. above \in Int
        <5>1. ReversedDelta(nl, lo, hi) = 0
          BY <3>1 DEF ReversedDelta, DropsLast
        <5>2. QED
          BY <1>1, <1>2, <5>1 DEF above
      <4>3. QED
        BY <4>1, <4>2
    <3>3. StartReading(0)
      BY <1>7, <1>8, <2>3, <3>2
    <3>4. QED
      BY <3>1, <3>3
  <2>4. QED
    BY <1>1, <1>7, <2>1, <2>2, <2>3
<1>11. PICK b : StartReading(b) /\ StartsTail(L, asked, n, b)
  BY <1>10
<1>12. pc' = "read" /\ begin' = b
  BY <1>11 DEF StartReading
<1>13. AskedLines' = AskedLines
  BY <1>8 DEF AskedLines
<1>14. StartsTail(AskedLines', asked', -req'.skip, begin')
  BY <1>4, <1>8, <1>11, <1>12, <1>13
<1>15. QED
  BY <1>12, <1>14 DEF StartsTail, TailBegin

\* A step that moves neither the request nor its start.
LEMMA TailUndisturbed ==
  ASSUME TailInv, AskedLines' = AskedLines, UNCHANGED <<asked, begin, req>>,
         asked <= size => asked <= size',
         pc' # "done" => status' = "none",
         pc' = "calcOffset" => pc = "calcOffset" /\ UNCHANGED <<skip, offset, chunk>>,
         pc' \in {"read", "gone"} \/ status' = "ok" \/ lastEventID' # None =>
           pc \in {"read", "gone"} \/ status = "ok" \/ lastEventID # None
  PROVE  TailInv'
<1>1. TailBegin' = TailBegin /\ TailInReach' = TailInReach
  BY TailStays
<1>2. SUFFICES ASSUME req'.cursor = EndCursor, req'.skip < 0
               PROVE  /\ asked' <= size'
                      /\ pc' = "calcOffset" => skip' = req'.skip /\ (FirstRound' \/ ~TailInReach')
                      /\ pc' \in {"read", "gone"} \/ status' = "ok" \/ lastEventID' # None =>
                           (TailInReach' => TailBegin')
  BY DEF TailInv
<1>3. req.cursor = EndCursor /\ req.skip < 0
  BY <1>2
<1>4. /\ asked <= size
      /\ pc = "calcOffset" => skip = req.skip /\ (FirstRound \/ ~TailInReach)
      /\ pc \in {"read", "gone"} \/ status = "ok" \/ lastEventID # None =>
           (TailInReach => TailBegin)
  BY <1>3 DEF TailInv
<1>5. ASSUME pc' = "calcOffset"
      PROVE  skip' = req'.skip /\ (FirstRound' \/ ~TailInReach')
  <2>1. pc = "calcOffset" /\ UNCHANGED <<skip, offset, chunk>>
    BY <1>5
  <2>2. FirstRound' = FirstRound
    BY <2>1 DEF FirstRound
  <2>3. QED
    BY <1>1, <1>4, <2>1, <2>2
<1>6. QED
  BY <1>1, <1>4, <1>5

\* calcOffset starts a tail in reach in its first round.
LEMMA CalcOffsetStarts ==
  ASSUME Inv, TailInv, CalcOffset
  PROVE  TailInv'
<1>1. UNCHANGED <<size, nl, req, asked, skip, status, lastEventID>> /\ pc = "calcOffset"
  BY DEF CalcOffset, file
<1>2. status = "none" /\ lastEventID = None
  BY <1>1 DEF TailInv, Inv, Phase
<1>3. AskedLines' = AskedLines
  BY <1>1 DEF AskedLines
<1>4. TailInReach' = TailInReach
  BY <1>1, <1>3 DEF TailInReach
<1>5. ASSUME req.cursor = EndCursor, req.skip < 0
      PROVE  /\ asked' <= size'
             /\ pc' = "calcOffset" => skip' = req'.skip /\ (FirstRound' \/ ~TailInReach')
             /\ TailInReach' => TailBegin'
  <2>1. asked <= size /\ skip = req.skip /\ (FirstRound \/ ~TailInReach)
    BY <1>1, <1>5 DEF TailInv
  <2>2. CASE FirstRound /\ TailInReach
    <3>1. skip < 0
      BY <1>5, <2>1
    <3>2. pc' = "read" /\ TailBegin'
      BY <2>1, <2>2, <3>1, RoundStarts
    <3>3. QED
      BY <1>1, <2>1, <3>2
  <2>3. CASE ~TailInReach
    BY <1>1, <1>4, <2>1, <2>3
  <2>4. QED
    BY <2>1, <2>2, <2>3
<1>6. QED
  BY <1>1, <1>2, <1>5 DEF TailInv

\* A request opens at the end of the file, in front of calcOffset's first round.
LEMMA OpenStarts ==
  ASSUME Inv, TailInv, Open
  PROVE  TailInv'
<1>1. pc = "setup" /\ lastEventID = None /\ UNCHANGED <<size, nl, req, status, lastEventID>>
  BY DEF Open, file
<1>2. status = "none" /\ pc' \in {"calcOffset", "read"}
  BY <1>1 DEF TailInv, Open, StartReading
<1>3. ASSUME req.cursor = EndCursor, req.skip < 0
      PROVE  asked' <= size' /\ pc' = "calcOffset" /\ skip' = req'.skip /\ FirstRound'
  <2>1. asked' = size /\ skip' = req.skip /\ pc' = "calcOffset" /\ offset' = size
        /\ chunk' = IF size > ChunkSize
                      THEN [offset |-> size - ChunkSize, length |-> ChunkSize, found |-> 0]
                      ELSE [offset |-> 0, length |-> size, found |-> 0]
    BY <1>3 DEF Open
  <2>2. size \in Nat
    BY DEF Inv, TypeOK
  <2>3. QED
    BY <1>1, <2>1, <2>2 DEF FirstRound
<1>4. QED
  BY <1>1, <1>2, <1>3 DEF TailInv

\* Every step keeps the invariant.
LEMMA TailStep == Inv /\ TailInv /\ [Next]_vars => TailInv'
<1> SUFFICES ASSUME Inv, TailInv, [Next]_vars
             PROVE  TailInv'
  OBVIOUS
<1>0. /\ TypeOK /\ asked \in Nat /\ size \in Nat
      /\ pc # "done" => status = "none"
  BY DEF Inv, TypeOK, TailInv
<1>1. CASE Write
  <2>1. /\ UNCHANGED <<req, pc, status, offset, skip, chunk, lastEventID, asked, begin>>
        /\ size' = size + 1
        /\ nl' = nl \/ nl' = nl \cup {size}
    BY <1>1 DEF Write, manager, client
  <2>2. asked <= size => asked <= size'
    BY <1>0, <2>1
  <2>3. CASE asked <= size
    <3>1. AskedLines' = AskedLines
      BY <1>0, <2>1, <2>3, AskedLinesStay
    <3>2. QED
      BY <1>0, <2>1, <2>2, <3>1, TailUndisturbed
  <2>4. CASE ~(asked <= size)
    <3>1. ~(req.cursor = EndCursor /\ req.skip < 0)
      BY <2>4 DEF TailInv
    <3>2. QED
      BY <1>0, <2>1, <3>1 DEF TailInv
  <2>5. QED
    BY <2>3, <2>4
<1>2. CASE Open
  BY <1>2, OpenStarts
<1>3. CASE CalcOffset
  BY <1>3, CalcOffsetStarts
<1>4. ASSUME UNCHANGED <<size, nl, asked, begin, req>>,
             pc' # "done" => status' = "none",
             pc' # "calcOffset" \/ UNCHANGED <<pc, skip, offset, chunk>>,
             pc' \in {"read", "gone"} \/ status' = "ok" \/ lastEventID' # None =>
               pc \in {"read", "gone"} \/ status = "ok" \/ lastEventID # None
      PROVE  TailInv'
  <2>1. AskedLines' = AskedLines
    BY <1>4 DEF AskedLines
  <2>2. QED
    BY <1>4, <2>1, TailUndisturbed
<1>5. CASE Resume
  <2>1. /\ UNCHANGED <<size, nl, asked, begin, req, status>>
        /\ pc = "setup" /\ pc' = "read" /\ lastEventID # None
    BY <1>5 DEF Resume, file, client
  <2>2. QED
    BY <1>0, <1>4, <2>1
<1>6. CASE OpenError
  <2>1. /\ UNCHANGED <<size, nl, asked, begin, req, lastEventID>>
        /\ pc' = "done" /\ status' = "error"
    BY <1>6 DEF OpenError, Finish, file, client
  <2>2. QED
    BY <1>4, <2>1
<1>7. CASE Read
  <2>1. /\ UNCHANGED <<size, nl, asked, begin, req>>
        /\ pc = "read"
        /\ (UNCHANGED <<pc, status>> \/ pc' = "done")
    BY <1>7 DEF Read, ReadLimit, ReadEOF, ReadError, ReadNoData, ReadBuffered, ReadChunk, Take,
                Finish, file, client
  <2>2. QED
    BY <1>0, <1>4, <2>1
<1>8. CASE Disconnect
  <2>1. /\ UNCHANGED <<size, nl, asked, begin, req>>
        /\ pc = "read"
        /\ ((pc' = "gone" /\ status' = status) \/ pc' = "done")
    BY <1>8 DEF Disconnect, Finish, file, client
  <2>2. QED
    BY <1>0, <1>4, <2>1
<1>9. CASE Reconnect
  <2>1. /\ UNCHANGED <<size, nl, asked, begin, req, status, lastEventID>>
        /\ pc = "gone" /\ pc' = "setup"
    BY <1>9 DEF Reconnect, file, client
  <2>2. QED
    BY <1>0, <1>4, <2>1
<1>10. CASE UNCHANGED vars
  <2>1. UNCHANGED <<size, nl, asked, begin, req, pc, status, lastEventID, skip, offset, chunk>>
    BY <1>10 DEF vars
  <2>2. QED
    BY <1>0, <1>4, <2>1
<1>11. QED
  BY <1>1, <1>2, <1>3, <1>5, <1>6, <1>7, <1>8, <1>9, <1>10 DEF Next

\* For every chunk size, file and request: cursor=END with a negative skip starts
\* where the last lines it asks for begin, whenever the last chunk holds their
\* starts or the file fits in one, also when the task writes on while calcOffset
\* waits for the agent.
THEOREM TailStartsRight == Spec => []TailExact
<1>1. Init => TailInv
  <2> SUFFICES ASSUME Init
               PROVE  TailInv
    OBVIOUS
  <2>1. asked = 0 /\ pc = "setup" /\ status = "none" /\ lastEventID = None
    BY DEF Init
  <2>2. size \in Nat
    BY FilesReaderAssumption DEF Init
  <2>3. QED
    BY <2>1, <2>2 DEF TailInv
<1>2. TailInv => TailExact
  BY DEF TailInv, TailExact, TailStarted
<1>3. QED
  BY <1>1, <1>2, TailStep, InvCorrect, PTL DEF Spec
=============================================================================
