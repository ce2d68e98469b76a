-------------------------- MODULE FilesReaderProofs --------------------------
(***************************************************************************)
(* TypeOK, NoGap and ExactlyOnce hold for every chunk size, every file,    *)
(* every request and any number of reconnections.                          *)
(*                                                                         *)
(* NoGap and ExactlyOnce speak of the lines that were sent; they are kept  *)
(* because of what holds of the lines still buffered and of rm.offset      *)
(* (BufferOK, JoinOK, WholeOK), and across a reconnection because the SSE  *)
(* id is the end of the last line sent (History).                          *)
(***************************************************************************)
EXTENDS FilesReader, SandboxFileProofs, SequenceTheorems

\* Every byte in between is a newline or still in the buffer.
Covered(S, from, to) ==
  \A p \in from .. to - 1 :
    p \in nl \/ \E l \in S : l.Offset <= p /\ p < LineEnd(l)

\* The buffer S holds separate lines, without gaps between them, that end at
\* most one byte behind off, the next byte to ask for.
BufferOK(S, off) ==
  /\ begin <= off
  /\ off <= size \/ off = begin
  /\ \A l \in S : /\ l.Size > 0
                  /\ begin <= l.Offset
                  /\ LineEnd(l) - 1 <= off
                  /\ LineEnd(l) <= size
                  /\ Covered(S, LineEnd(l), off)
  /\ \A l, k \in S : l = k \/ LineEnd(l) < k.Offset \/ LineEnd(k) < l.Offset

LastLine == received[Len(received)]

\* The buffer continues what was sent.
JoinOK(S, off) ==
  /\ received # <<>> =>
       /\ skip <= 0 \/ skip <= skipped
       /\ LineEnd(LastLine) - 1 <= off
       /\ Covered(S, LineEnd(LastLine), off)
       /\ \A l \in S : LineEnd(LastLine) - 1 <= l.Offset
  /\ received = <<>> /\ req.skip <= 0 => Covered(S, begin, off)

\* Once reading started on a newline it asks for the next bytes from a newline.
WholeOK(S, off) ==
  begin > 0 /\ begin \in nl =>
    /\ off \in nl
    /\ \A l \in S : Whole(l) /\ LineEnd(l) <= off
    /\ received # <<>> => /\ LineEnd(LastLine) <= off
                          /\ \A l \in S : LineEnd(LastLine) < l.Offset

History ==
  /\ \A i \in 1 .. Len(received) : /\ received[i].Size > 0
                                   /\ begin <= received[i].Offset
                                   /\ LineEnd(received[i]) <= size
  /\ lastEventID # None => /\ received # <<>>
                            /\ LastLine.Offset > 0
                            /\ lastEventID = LineEnd(LastLine)

Phase ==
  /\ skip = 0 \/ skip = req.skip
  /\ pc \in {"setup", "calcOffset"} => lines = {}
  /\ pc = "setup" => skip = 0
  /\ ~req.stream => lastEventID = None
  /\ pc = "calcOffset" => received = <<>> /\ lastEventID = None

Reading(S, off) == BufferOK(S, off) /\ JoinOK(S, off) /\ WholeOK(S, off)

Inv ==
  /\ TypeOK
  /\ Phase
  /\ History
  /\ NoGap
  /\ ExactlyOnce
  /\ pc = "read" => Reading(lines, offset)

-----------------------------------------------------------------------------
\* What Requests holds.
LEMMA RequestFields ==
  ASSUME TypeOK
  PROVE  req.cursor \in Int /\ req.skip \in Int /\ req.limit \in Int
BY FilesReaderAssumption DEF TypeOK, Request

\* The bytes of an answer of the agent that is not empty.
LEMMA WindowFacts ==
  ASSUME NEW lo \in Nat, NEW len \in Nat, TypeOK,
         ~NoNewData(nl, lo, WindowEnd(size, lo, len))
  PROVE  /\ nl \in SUBSET Nat
         /\ WindowEnd(size, lo, len) \in Nat
         /\ lo < WindowEnd(size, lo, len)
         /\ WindowEnd(size, lo, len) <= lo + len
         /\ WindowEnd(size, lo, len) <= size
<1>1. nl \in SUBSET Nat /\ size \in Nat
  BY DEF TypeOK
<1>2. WindowEnd(size, lo, len) \in Nat
  BY <1>1 DEF WindowEnd
<1>3. ~(WindowEnd(size, lo, len) <= lo)
  BY DEF NoNewData
<1>4. QED
  BY <1>1, <1>2, <1>3 DEF WindowEnd

\* The chunk that Read asks for, and what it makes of it.
LEMMA ChunkNumbers ==
  ASSUME TypeOK, ~NoNewData(nl, offset, ChunkEnd)
  PROVE  /\ nl \in SUBSET Nat
         /\ ChunkEnd \in Nat
         /\ offset < ChunkEnd
         /\ ChunkEnd <= offset + ChunkSize
         /\ ChunkEnd <= size
         /\ Buffered(nl, offset, ChunkEnd) \in SUBSET Line
         /\ NextOffset(nl, offset, ChunkEnd) \in Nat
<1>1. offset \in Nat /\ ChunkSize \in Nat
  BY ChunkSizeAssumption DEF TypeOK
<1>2. /\ nl \in SUBSET Nat /\ ChunkEnd \in Nat /\ offset < ChunkEnd
      /\ ChunkEnd <= offset + ChunkSize /\ ChunkEnd <= size
  BY <1>1, WindowFacts DEF ChunkEnd
<1>3. Buffered(nl, offset, ChunkEnd) \in SUBSET Line
  BY <1>1, <1>2, BufferedFacts
<1>4. NextOffset(nl, offset, ChunkEnd) \in offset .. ChunkEnd
  BY <1>1, <1>2, NextOffsetFacts
<1>5. QED
  BY <1>1, <1>2, <1>3, <1>4

\* Pop returns the topmost line of the buffer.
LEMMA PopFacts ==
  ASSUME NEW S \in SUBSET Line, S # {}
  PROVE  Pop(S) \in S /\ \A k \in S : Pop(S).Offset <= k.Offset
<1>1. \E l \in S : \A k \in S : l.Offset <= k.Offset
  BY TopmostLine
<1>2. QED
  BY <1>1 DEF Pop

\* Taking a line out of a buffer keeps the types.
LEMMA TakeTypes ==
  ASSUME TypeOK, NEW S \in SUBSET Line, S # {}, NEW off \in Nat,
         Take(Pop(S), S \ {Pop(S)}, off)
  PROVE  TypeOK'
<1>1. Pop(S) \in Line
  BY PopFacts
<1>2. Sent(Pop(S)) \in SentLine
  BY <1>1 DEF Sent, SentLine, Line
<1>3. EventID(Pop(S)) \in Nat \cup {None}
  BY <1>1 DEF EventID, LineEnd, Line, TypeOK
<1>4. received' \in Seq(SentLine)
  <2>1. received \in Seq(SentLine)
    BY DEF TypeOK
  <2>2. Append(received, Sent(Pop(S))) \in Seq(SentLine)
    BY <1>2, <2>1
  <2>3. received' = received \/ received' = Append(received, Sent(Pop(S)))
    BY DEF Take
  <2>4. QED
    BY <2>1, <2>2, <2>3
<1>5. lastEventID' \in Nat \cup {None}
  BY <1>3 DEF Take, TypeOK
<1>6. lines' \in SUBSET Line /\ offset' \in Nat
  BY DEF Take
<1>7. skipped' \in Nat /\ readLines' \in Nat
  BY DEF Take, TypeOK
<1>8. UNCHANGED <<size, nl, req, pc, status, skip, limit, chunk, asked, begin, reconnects>>
  BY DEF Take, file
<1>9. QED
  BY <1>4, <1>5, <1>6, <1>7, <1>8 DEF TypeOK

\* The types of the variables are kept by every step.
LEMMA TypeStep == TypeOK /\ [Next]_vars => TypeOK'
<1> SUFFICES ASSUME TypeOK, [Next]_vars
             PROVE  TypeOK'
  OBVIOUS
<1> USE DEF file, manager, client
<1>1. CASE Write
  <2>1. size' = size + 1 /\ (nl' = nl \/ nl' = nl \cup {size})
    BY <1>1 DEF Write
  <2>2. size' \in Nat /\ nl' \in SUBSET (0 .. size' - 1)
    <3>1. size \in Nat /\ \A p \in nl : p \in 0 .. size - 1
      BY DEF TypeOK
    <3>2. size' \in Nat /\ \A p \in nl' : p \in 0 .. size' - 1
      BY <2>1, <3>1
    <3>3. QED
      BY <3>2
  <2>3. QED
    BY <1>1, <2>2 DEF Write, TypeOK
<1>2. CASE Resume
  BY <1>2 DEF Resume, TypeOK
<1>3. CASE Open
  <2>1. PICK off \in Nat :
          /\ skip' = req.skip
          /\ limit' = req.limit
          /\ received' = <<>>
          /\ asked' = off
          /\ offset' = off
          /\ pc' \in {"calcOffset", "read"}
          /\ begin' = begin \/ begin' = off
          /\ \/ chunk' = chunk
             \/ chunk' = [offset |-> 0, length |-> off, found |-> 0]
             \/ /\ off > ChunkSize
                /\ chunk' = [offset |-> off - ChunkSize,
                             length |-> ChunkSize, found |-> 0]
    <3> DEFINE off == IF req.cursor = EndCursor THEN size ELSE req.cursor
    <3>1. off \in Nat
      BY <1>3, RequestFields DEF Open, TypeOK
    <3> HIDE DEF off
    <3>2. QED
      BY <1>3, <3>1 DEF Open, StartReading, off
  <2>2. chunk' \in [offset : Nat, length : Nat, found : Nat]
    BY <2>1, ChunkSizeAssumption DEF TypeOK
  <2>3. QED
    BY <1>3, <2>1, <2>2, RequestFields DEF Open, TypeOK
<1>4. CASE OpenError
  BY <1>4 DEF OpenError, Finish, TypeOK
<1>5. CASE CalcOffset
  <2> DEFINE lo == chunk.offset
             hi == WindowEnd(size, lo, chunk.length)
             back == ReversedLines(nl, lo, hi)
             above == lo - (ChunkSize - ReversedDelta(nl, lo, hi))
  <2>1. lo \in Nat /\ chunk.length \in Nat /\ chunk.found \in Nat
    BY DEF TypeOK
  <2>2. \A x \in Int : NonNegative(x) \in Nat
    BY DEF NonNegative
  <2>3. ~NoNewData(nl, lo, hi) =>
          /\ Cardinality(back) \in Nat
          /\ above \in Int
          /\ Rewind(back, hi, -skip) \in Int
    <3>1. -skip \in Int /\ ChunkSize \in Nat
      BY ChunkSizeAssumption DEF TypeOK
    <3>2. SUFFICES ASSUME ~NoNewData(nl, lo, hi)
                   PROVE  /\ Cardinality(back) \in Nat
                          /\ above \in Int
                          /\ Rewind(back, hi, -skip) \in Int
      OBVIOUS
    <3>3. nl \in SUBSET Nat /\ hi \in Nat /\ lo < hi
      BY <2>1, <3>2, WindowFacts
    <3> HIDE DEF lo, hi
    <3>4. /\ Cardinality(back) \in Nat
          /\ ReversedDelta(nl, lo, hi) \in Nat
          /\ Rewind(back, hi, -skip) \in Int
      BY <2>1, <3>1, <3>3, ReversedFacts
    <3>5. QED
      BY <2>1, <3>1, <3>4
  <2>4. /\ offset' \in Nat
        /\ begin' \in Nat
        /\ pc' \in {"calcOffset", "read"}
        /\ chunk' \in [offset : Nat, length : Nat, found : Nat]
    <3> HIDE DEF lo, hi, back, above
    <3>1. chunk.found + Cardinality(back) \in Nat \/ NoNewData(nl, lo, hi)
      BY <2>1, <2>3
    <3>2. CASE NoNewData(nl, lo, hi)
      <4>1. pc' = "read" /\ offset' = NonNegative(offset)
            /\ begin' = NonNegative(offset) /\ chunk' = chunk
        BY <1>5, <3>2 DEF CalcOffset, StartReading, lo, hi
      <4>2. QED
        BY <2>2, <4>1 DEF TypeOK
    <3>3. CASE ~NoNewData(nl, lo, hi)
      <4>1. CASE chunk' = chunk
        <5>1. \/ StartReading(NonNegative(offset - Rewind(back, hi, -skip)))
              \/ StartReading(0)
              \/ pc' = pc /\ begin' = begin /\ offset' = above /\ above >= 0
          BY <1>5, <3>3 DEF CalcOffset, lo, hi, back, above
        <5>2. chunk' \in [offset : Nat, length : Nat, found : Nat]
          BY <4>1 DEF TypeOK
        <5>3. offset - Rewind(back, hi, -skip) \in Int
          BY <2>3, <3>3 DEF TypeOK
        <5>4. CASE StartReading(NonNegative(offset - Rewind(back, hi, -skip)))
          BY <2>2, <5>2, <5>3, <5>4 DEF StartReading
        <5>5. CASE StartReading(0)
          BY <5>2, <5>5 DEF StartReading
        <5>6. CASE pc' = pc /\ begin' = begin /\ offset' = above /\ above >= 0
          BY <1>5, <2>3, <3>3, <5>2, <5>6 DEF CalcOffset, TypeOK
        <5>7. QED
          BY <5>1, <5>4, <5>5, <5>6
      <4>2. CASE chunk' # chunk
        <5>1. /\ pc' = pc /\ begin' = begin /\ offset' = above /\ above >= 0
              /\ chunk' = [offset |-> above, length |-> ChunkSize,
                           found |-> chunk.found + Cardinality(back)]
          BY <1>5, <3>3, <4>2 DEF CalcOffset, lo, hi, back, above
        <5>2. QED
          BY <1>5, <2>3, <3>1, <3>3, <5>1, ChunkSizeAssumption DEF TypeOK, CalcOffset
      <4>3. QED
        BY <4>1, <4>2
    <3>4. QED
      BY <3>2, <3>3
  <2>5. QED
    BY <1>5, <2>4 DEF CalcOffset, TypeOK
<1>6. CASE ReadLimit
  BY <1>6 DEF ReadLimit, Finish, TypeOK
<1>7. CASE ReadEOF
  BY <1>7 DEF ReadEOF, Finish, TypeOK
<1>8. CASE ReadError
  BY <1>8 DEF ReadError, Finish, TypeOK
<1>9. CASE ReadNoData
  <2>1. NextOffset(nl, offset, ChunkEnd) \in Nat
    BY <1>9, ChunkNumbers DEF ReadNoData
  <2>2. QED
    BY <1>9, <2>1 DEF ReadNoData, TypeOK
<1>10. CASE ReadBuffered
  BY <1>10, TakeTypes DEF ReadBuffered, TypeOK
<1>11. CASE ReadChunk
  <2> DEFINE new == Buffered(nl, offset, ChunkEnd)
  <2>1. new \in SUBSET Line /\ NextOffset(nl, offset, ChunkEnd) \in Nat
    BY <1>11, ChunkNumbers DEF ReadChunk
  <2>2. new # {} /\ Take(Pop(new), new \ {Pop(new)}, NextOffset(nl, offset, ChunkEnd))
    BY <1>11 DEF ReadChunk
  <2> HIDE DEF new
  <2>3. QED
    BY <2>1, <2>2, TakeTypes
<1>12. CASE Disconnect
  BY <1>12 DEF Disconnect, Finish, TypeOK
<1>13. CASE Reconnect
  BY <1>13 DEF Reconnect, TypeOK
<1>14. CASE UNCHANGED vars
  BY <1>14 DEF vars, TypeOK
<1>15. QED
  BY <1>1, <1>2, <1>3, <1>4, <1>5, <1>6, <1>7, <1>8, <1>9, <1>10, <1>11,
     <1>12, <1>13, <1>14 DEF Next, Read

\* The types hold in every state the program can be in.
THEOREM TypeCorrect == Spec => []TypeOK
<1>1. Init => TypeOK
  BY FilesReaderAssumption DEF Init, TypeOK, None
<1>2. QED
  BY <1>1, TypeStep, PTL DEF Spec

-----------------------------------------------------------------------------
\* The lines that were sent, and the last of them.
LEMMA LineTypes ==
  ASSUME TypeOK
  PROVE  /\ Len(received) \in Nat
         /\ \A i \in 1 .. Len(received) :
              /\ received[i].Offset \in Nat
              /\ received[i].Size \in Nat
              /\ LineEnd(received[i]) \in Nat
         /\ received # <<>> => /\ Len(received) \in 1 .. Len(received)
                               /\ LastLine.Offset \in Nat
                               /\ LastLine.Size \in Nat
                               /\ LineEnd(LastLine) \in Nat
         /\ \A l \in Line : l.Offset \in Nat /\ l.Size \in Nat /\ LineEnd(l) \in Nat
<1>1. received \in Seq(SentLine)
  BY DEF TypeOK
<1>2. \A i \in 1 .. Len(received) : received[i] \in SentLine
  BY <1>1
<1>3. Len(received) \in Nat /\ (received # <<>> => Len(received) \in 1 .. Len(received))
  BY <1>1
<1>4. \A l \in SentLine : l.Offset \in Nat /\ l.Size \in Nat
  BY DEF SentLine
<1>5. QED
  BY <1>2, <1>3, <1>4 DEF LineEnd, LastLine, Line

\* A chunk read from rm.offset continues what was sent, and once it starts on
\* a newline it holds whole lines only and the next one starts on a newline.
LEMMA ChunkReading ==
  ASSUME Inv, pc = "read", lines = {}, ~NoNewData(nl, offset, ChunkEnd)
  PROVE  Reading(Buffered(nl, offset, ChunkEnd), NextOffset(nl, offset, ChunkEnd))
<1> DEFINE S == Buffered(nl, offset, ChunkEnd)
           n == NextOffset(nl, offset, ChunkEnd)
           e == LinesEnd(nl, offset, ChunkEnd)
<1>1. TypeOK /\ Reading({}, offset)
  BY DEF Inv
<1>2. /\ nl \in SUBSET Nat /\ offset \in Nat /\ size \in Nat /\ begin \in Nat
      /\ ChunkEnd \in Nat /\ offset < ChunkEnd /\ ChunkEnd <= size
      /\ ChunkEnd <= offset + ChunkSize /\ S \in SUBSET Line
  BY <1>1, ChunkNumbers DEF TypeOK
<1>3. /\ n \in offset .. ChunkEnd /\ n <= e /\ e - 1 <= n
      /\ DropsLast(nl, offset, ChunkEnd) => n = e
  BY <1>2, NextOffsetFacts
<1>4. /\ e \in offset .. ChunkEnd
      /\ DropsLast(nl, offset, ChunkEnd) => e \in nl /\ e < ChunkEnd
  BY <1>2, LinesEndFacts DEF Breaks
<1>5. \A l \in S : /\ l.Size > 0 /\ l.Offset \in Nat /\ l.Size \in Nat
                   /\ LineEnd(l) \in Nat /\ l.Offset < LineEnd(l)
                   /\ offset <= l.Offset /\ LineEnd(l) <= e
                   /\ l.Offset = offset \/ l.Offset - 1 \in nl
                   /\ LineEnd(l) \in nl \/ LineEnd(l) = ChunkEnd
                   /\ \A p \in nl : p < l.Offset \/ LineEnd(l) <= p
  <2>1. \A l \in S : /\ l.Size > 0
                     /\ offset <= l.Offset /\ LineEnd(l) <= e
                     /\ l.Offset = offset \/ l.Offset - 1 \in nl
                     /\ LineEnd(l) \in nl \/ LineEnd(l) = ChunkEnd
                     /\ \A p \in nl : p < l.Offset \/ LineEnd(l) <= p
    BY <1>2, BufferedFacts
  <2>2. \A l \in S : /\ l.Offset \in Nat /\ l.Size \in Nat
                     /\ l.Size > 0 => l.Offset < LineEnd(l)
                     /\ LineEnd(l) \in Nat
    BY <1>2 DEF Line, LineEnd
  <2>3. QED
    BY <2>1, <2>2
<1>6. \A l, k \in S : l = k \/ LineEnd(l) < k.Offset \/ LineEnd(k) < l.Offset
  BY <1>2, BufferedFacts
<1>7. ASSUME NEW from \in Nat, \A p \in from .. offset - 1 : p \in nl
      PROVE  Covered(S, from, n)
  <2> SUFFICES ASSUME NEW p \in from .. n - 1, p \notin nl
               PROVE  \E l \in S : l.Offset <= p /\ p < LineEnd(l)
    BY DEF Covered
  <2>1. p \in offset .. e - 1
    BY <1>2, <1>3, <1>4, <1>7
  <2>2. QED
    BY <1>2, <2>1, BufferedCover
<1> HIDE DEF S, n, e
<1>8. BufferOK(S, n)
  <2>1. begin <= n /\ n <= size
    BY <1>1, <1>2, <1>3 DEF Reading, BufferOK
  <2>2. ASSUME NEW l \in S
        PROVE  /\ l.Size > 0 /\ begin <= l.Offset
               /\ LineEnd(l) - 1 <= n /\ LineEnd(l) <= size
    BY <1>1, <1>2, <1>3, <1>4, <1>5 DEF Reading, BufferOK
  <2>3. ASSUME NEW l \in S
        PROVE  Covered(S, LineEnd(l), n)
    BY <1>2, <1>5, <1>7
  <2>4. QED
    BY <1>6, <2>1, <2>2, <2>3 DEF BufferOK
<1>9. JoinOK(S, n)
  <2>1. ASSUME received # <<>>
        PROVE  /\ skip <= 0 \/ skip <= skipped
               /\ LineEnd(LastLine) - 1 <= n
               /\ Covered(S, LineEnd(LastLine), n)
               /\ \A l \in S : LineEnd(LastLine) - 1 <= l.Offset
    <3>1. /\ skip <= 0 \/ skip <= skipped
          /\ LineEnd(LastLine) - 1 <= offset
          /\ \A p \in LineEnd(LastLine) .. offset - 1 : p \in nl
      BY <1>1, <2>1 DEF Reading, JoinOK, Covered
    <3>2. LineEnd(LastLine) \in Nat
      BY <1>1, <2>1, LineTypes
    <3>3. QED
      BY <1>2, <1>3, <1>5, <1>7, <3>1, <3>2
  <2>2. ASSUME received = <<>>, req.skip <= 0
        PROVE  Covered(S, begin, n)
    BY <1>1, <1>2, <1>7, <2>2 DEF Reading, JoinOK, Covered
  <2>3. QED
    BY <2>1, <2>2 DEF JoinOK
<1>10. WholeOK(S, n)
  <2> SUFFICES ASSUME begin > 0, begin \in nl
               PROVE  /\ n \in nl
                      /\ \A l \in S : Whole(l) /\ LineEnd(l) <= n
                      /\ received # <<>> =>
                           /\ LineEnd(LastLine) <= n
                           /\ \A l \in S : LineEnd(LastLine) < l.Offset
    BY DEF WholeOK
  <2>1. /\ offset \in nl
        /\ received # <<>> => LineEnd(LastLine) <= offset
    BY <1>1 DEF Reading, WholeOK
  <2>2. DropsLast(nl, offset, ChunkEnd)
    <3>1. offset > 0
      BY <1>1, <1>2 DEF Reading, BufferOK
    <3>2. offset \in Breaks(nl, offset, ChunkEnd)
      BY <1>2, <2>1 DEF Breaks
    <3>3. QED
      BY <3>1, <3>2 DEF DropsLast
  <2>3. n = e /\ e \in nl /\ e < ChunkEnd
    BY <1>3, <1>4, <2>2
  <2>4. ASSUME NEW l \in S
        PROVE  Whole(l) /\ LineEnd(l) <= n /\ offset < l.Offset
    <3>1. offset < l.Offset
      BY <1>2, <1>5, <2>1
    <3>2. LineEnd(l) \in nl /\ l.Offset - 1 \in nl
      BY <1>2, <1>4, <1>5, <2>3, <3>1
    <3>3. QED
      BY <1>5, <2>3, <3>1, <3>2 DEF Whole
  <2>5. received # <<>> =>
          LineEnd(LastLine) <= n /\ \A l \in S : LineEnd(LastLine) < l.Offset
    <3>1. received # <<>> => LineEnd(LastLine) \in Nat
      BY <1>1, LineTypes
    <3>2. QED
      BY <1>2, <1>3, <1>5, <2>1, <2>4, <3>1
  <2>6. QED
    BY <2>3, <2>4, <2>5
<1>11. QED
  BY <1>8, <1>9, <1>10 DEF Reading, S, n

\* The buffer without its topmost line.
LEMMA PopReading ==
  ASSUME TypeOK, NEW S \in SUBSET Line, S # {}, NEW off \in Nat,
         Reading(S, off)
  PROVE  /\ BufferOK(S \ {Pop(S)}, off)
         /\ Covered(S \ {Pop(S)}, LineEnd(Pop(S)), off)
         /\ \A l \in S \ {Pop(S)} : LineEnd(Pop(S)) < l.Offset
         /\ \A from \in Nat : Covered(S, from, off) => OnlyNewlines(from, Pop(S).Offset)
<1> DEFINE m == Pop(S)
           R == S \ {m}
<1>1. m \in S /\ \A k \in S : m.Offset <= k.Offset
  BY PopFacts
<1>2. /\ begin <= off
      /\ off <= size \/ off = begin
      /\ \A l \in S : /\ l.Size > 0 /\ begin <= l.Offset
                      /\ LineEnd(l) - 1 <= off /\ LineEnd(l) <= size
                      /\ Covered(S, LineEnd(l), off)
      /\ \A l, k \in S : l = k \/ LineEnd(l) < k.Offset \/ LineEnd(k) < l.Offset
  BY DEF Reading, BufferOK
<1>3. \A l \in S : /\ l.Offset \in Nat /\ LineEnd(l) \in Nat
                   /\ l.Offset < LineEnd(l) /\ l.Offset <= off
  <2>1. \A l \in S : l.Offset \in Nat /\ l.Size \in Nat
    BY DEF Line
  <2>2. QED
    BY <1>2, <2>1 DEF LineEnd
<1> HIDE DEF m
<1>4. \A l \in R : LineEnd(m) < l.Offset
  BY <1>1, <1>2, <1>3
<1>5. ASSUME NEW from \in Nat, LineEnd(m) <= from, Covered(S, from, off)
      PROVE  Covered(R, from, off)
  <2> SUFFICES ASSUME NEW p \in from .. off - 1, p \notin nl
               PROVE  \E l \in R : l.Offset <= p /\ p < LineEnd(l)
    BY DEF Covered
  <2>1. PICK l \in S : l.Offset <= p /\ p < LineEnd(l)
    BY <1>5 DEF Covered
  <2>2. l # m
    BY <1>1, <1>3, <1>5, <2>1
  <2>3. QED
    BY <2>1, <2>2
<1>6. \A l \in R : Covered(R, LineEnd(l), off)
  <2> TAKE l \in R
  <2>1. l \in S /\ LineEnd(m) <= LineEnd(l)
    BY <1>1, <1>3, <1>4
  <2>2. QED
    BY <1>2, <1>3, <1>5, <2>1
<1>7. Covered(R, LineEnd(m), off)
  BY <1>1, <1>2, <1>3, <1>5
<1>8. ASSUME NEW from \in Nat, Covered(S, from, off)
      PROVE  OnlyNewlines(from, m.Offset)
  <2> SUFFICES ASSUME NEW p \in from .. m.Offset - 1, p \notin nl
               PROVE  FALSE
    BY DEF OnlyNewlines
  <2>1. p \in from .. off - 1
    BY <1>1, <1>3
  <2>2. PICK l \in S : l.Offset <= p /\ p < LineEnd(l)
    BY <1>8, <2>1 DEF Covered
  <2>3. QED
    BY <1>1, <1>3, <2>2
<1>9. BufferOK(R, off)
  BY <1>2, <1>6 DEF BufferOK
<1>10. QED
  BY <1>4, <1>7, <1>8, <1>9 DEF m

\* Taking the topmost line out of a buffer in good order keeps the invariant.
LEMMA TakeStep ==
  ASSUME Inv, pc = "read", NEW S \in SUBSET Line, S # {}, NEW off \in Nat,
         Reading(S, off), Take(Pop(S), S \ {Pop(S)}, off)
  PROVE  Inv'
<1> DEFINE m == Pop(S)
           R == S \ {m}
<1>1. TypeOK /\ TypeOK'
  BY TakeTypes DEF Inv
<1>2. UNCHANGED <<size, nl, req, pc, status, skip, limit, chunk, asked, begin, reconnects>>
  BY DEF Take, file
<1>3. lines' = R /\ offset' = off
  BY DEF Take
<1>4. /\ BufferOK(R, off)
      /\ Covered(R, LineEnd(m), off)
      /\ \A l \in R : LineEnd(m) < l.Offset
      /\ \A from \in Nat : Covered(S, from, off) => OnlyNewlines(from, m.Offset)
  BY <1>1, PopReading
<1>5. m \in S /\ m \in Line
  BY PopFacts
<1>6. /\ m.Offset \in Nat /\ m.Size \in Nat /\ LineEnd(m) \in Nat
      /\ m.Size > 0 /\ begin <= m.Offset /\ LineEnd(m) <= size
      /\ LineEnd(m) - 1 <= off
  BY <1>1, <1>5, LineTypes DEF Reading, BufferOK
<1> HIDE DEF m
<1>7. BufferOK(lines, offset)'
  BY <1>2, <1>3, <1>4 DEF BufferOK, Covered
<1>8. CASE skip > 0 /\ skipped < skip
  <2>1. UNCHANGED <<received, lastEventID>> /\ skipped' = skipped + 1
    BY <1>8 DEF Take
  <2>2. received = <<>> /\ ~(req.skip <= 0)
    <3>1. skip \in Int /\ skipped \in Nat /\ req.skip \in Int
      BY <1>1, RequestFields DEF TypeOK
    <3>2. skip = req.skip
      BY <1>8, <3>1 DEF Inv, Phase
    <3>3. received # <<>> => skip <= 0 \/ skip <= skipped
      BY DEF Reading, JoinOK
    <3>4. QED
      BY <1>8, <3>1, <3>2, <3>3
  <2>3. JoinOK(lines, offset)'
    BY <1>2, <2>1, <2>2 DEF JoinOK
  <2>4. WholeOK(lines, offset)'
    BY <1>2, <1>3, <2>1, <2>2 DEF Reading, WholeOK, Whole
  <2>5. Phase' /\ History' /\ NoGap' /\ ExactlyOnce'
    <3>1. received' = <<>> /\ Len(received') = 0
      BY <2>1, <2>2
    <3>2. QED
      BY <1>2, <2>1, <3>1 DEF Inv, Phase, History, NoGap, ExactlyOnce
  <2>6. QED
    BY <1>1, <1>7, <2>3, <2>4, <2>5 DEF Inv, Reading
<1>9. CASE ~(skip > 0 /\ skipped < skip)
  <2> DEFINE n == Len(received)
  <2>1. received' = Append(received, Sent(m)) /\ lastEventID' = EventID(m)
        /\ skipped' = skipped
    BY <1>9 DEF Take, m
  <2>2. received \in Seq(SentLine) /\ n \in Nat
    BY <1>1 DEF TypeOK
  <2>3. /\ Len(received') = n + 1
        /\ \A i \in 1 .. n : received'[i] = received[i]
        /\ received'[n + 1] = Sent(m)
    BY <2>1, <2>2
  <2>4. /\ received'[n + 1].Offset = m.Offset
        /\ received'[n + 1].Size = m.Size
        /\ LineEnd(received'[n + 1]) = LineEnd(m)
    BY <2>3 DEF Sent, LineEnd
  <2>5. received' # <<>> /\ LastLine' = received'[n + 1]
    BY <2>2, <2>3 DEF LastLine
  <2>6. received # <<>> <=> n > 0
    BY <2>2
  <2>7. received # <<>> => /\ LastLine = received[n] /\ n \in 1 .. n
                           /\ LineEnd(received[n]) \in Nat
                           /\ LineEnd(received[n]) - 1 <= m.Offset
                           /\ OnlyNewlines(LineEnd(received[n]), m.Offset)
    BY <1>1, <1>4, <1>5, LineTypes DEF Reading, JoinOK, LastLine
  <2> HIDE DEF n
  <2>8. JoinOK(lines, offset)'
    <3>1. skip <= 0 \/ skip <= skipped
      BY <1>1, <1>9 DEF TypeOK
    <3>2. \A l \in R : LineEnd(m) - 1 <= l.Offset
      <4>1. \A l \in R : l.Offset \in Nat
        BY DEF Line
      <4>2. QED
        BY <1>4, <1>6, <4>1
    <3>3. QED
      BY <1>2, <1>3, <1>4, <1>6, <2>1, <2>4, <2>5, <3>1, <3>2 DEF JoinOK, Covered
  <2>9. WholeOK(lines, offset)'
    BY <1>2, <1>3, <1>4, <1>5, <2>4, <2>5 DEF Reading, WholeOK, Whole
  <2>10. NoGap'
    <3>1. ASSUME NEW i \in 2 .. n + 1
          PROVE  /\ LineEnd(received'[i - 1]) - 1 <= received'[i].Offset
                 /\ OnlyNewlines(LineEnd(received'[i - 1]), received'[i].Offset)
      <4>1. CASE i = n + 1
        <5>1. i - 1 = n /\ n \in 1 .. n /\ received # <<>>
          BY <2>2, <2>6, <4>1 DEF n
        <5>2. QED
          BY <2>3, <2>4, <2>7, <4>1, <5>1
      <4>2. CASE i # n + 1
        <5>1. i \in 2 .. n /\ i \in 1 .. n /\ i - 1 \in 1 .. n
          BY <2>2, <4>2 DEF n
        <5>2. QED
          BY <2>3, <5>1 DEF Inv, NoGap, n
      <4>3. QED
        BY <4>1, <4>2
    <3>2. ASSUME req.skip <= 0
          PROVE  begin <= received'[1].Offset /\ OnlyNewlines(begin, received'[1].Offset)
      <4>1. CASE received = <<>>
        <5>1. n + 1 = 1
          BY <4>1 DEF n
        <5>2. Covered(S, begin, off) /\ begin \in Nat
          BY <1>1, <3>2, <4>1 DEF Reading, JoinOK, TypeOK
        <5>3. QED
          BY <1>4, <1>6, <2>4, <5>1, <5>2
      <4>2. CASE received # <<>>
        <5>1. received'[1] = received[1]
          BY <2>2, <2>3, <2>6, <4>2 DEF n
        <5>2. QED
          BY <3>2, <4>2, <5>1 DEF Inv, NoGap
      <4>3. QED
        BY <4>1, <4>2
    <3>3. QED
      BY <1>2, <2>3, <3>1, <3>2 DEF NoGap, OnlyNewlines
  <2>11. ExactlyOnce'
    <3> SUFFICES ASSUME begin > 0, begin \in nl
                 PROVE  /\ \A i \in 1 .. n + 1 : Whole(received'[i])
                        /\ \A i \in 2 .. n + 1 :
                             LineEnd(received'[i - 1]) < received'[i].Offset
      BY <1>2, <2>3, <2>10 DEF ExactlyOnce, NoGap, Whole, OnlyNewlines
    <3>1. /\ \A i \in 1 .. n : Whole(received[i])
          /\ \A i \in 2 .. n : LineEnd(received[i - 1]) < received[i].Offset
          /\ Whole(m)
          /\ received # <<>> => LineEnd(LastLine) < m.Offset
      BY <1>5 DEF Inv, ExactlyOnce, Reading, WholeOK, n
    <3>2. Whole(received'[n + 1])
      BY <2>4, <3>1 DEF Whole
    <3>3. ASSUME NEW i \in 1 .. n + 1
          PROVE  Whole(received'[i])
      <4>1. i \in 1 .. n \/ i = n + 1
        BY <2>2 DEF n
      <4>2. QED
        BY <2>3, <3>1, <3>2, <4>1
    <3>4. ASSUME NEW i \in 2 .. n + 1
          PROVE  LineEnd(received'[i - 1]) < received'[i].Offset
      <4>1. CASE i = n + 1
        <5>1. i - 1 = n /\ n \in 1 .. n /\ received # <<>>
          BY <2>2, <2>6, <4>1 DEF n
        <5>2. QED
          BY <2>3, <2>4, <2>7, <3>1, <4>1, <5>1
      <4>2. CASE i # n + 1
        <5>1. i \in 2 .. n /\ i \in 1 .. n /\ i - 1 \in 1 .. n
          BY <2>2, <4>2 DEF n
        <5>2. QED
          BY <2>3, <3>1, <5>1
      <4>3. QED
        BY <4>1, <4>2
    <3>5. QED
      BY <3>3, <3>4
  <2>12. History'
    <3>1. ASSUME NEW i \in 1 .. n + 1
          PROVE  /\ received'[i].Size > 0
                 /\ begin <= received'[i].Offset
                 /\ LineEnd(received'[i]) <= size
      <4>1. i \in 1 .. n \/ i = n + 1
        BY <2>2 DEF n
      <4>2. QED
        BY <1>6, <2>3, <2>4, <4>1 DEF Inv, History, n
    <3>2. ASSUME lastEventID' # None
          PROVE  LastLine'.Offset > 0 /\ lastEventID' = LineEnd(LastLine')
      <4>1. CASE req.stream /\ m.Offset > 0
        BY <1>6, <2>1, <2>4, <2>5, <4>1 DEF EventID
      <4>2. CASE ~(req.stream /\ m.Offset > 0)
        <5>1. lastEventID' = lastEventID
          BY <2>1, <4>2 DEF EventID
        <5>2. req.stream /\ received # <<>> /\ LastLine.Offset > 0
          BY <3>2, <5>1 DEF Inv, Phase, History
        <5>3. m.Offset = 0 /\ LineEnd(LastLine) - 1 <= 0
          BY <1>6, <2>7, <4>2, <5>2
        <5>4. LastLine.Offset \in Nat /\ LastLine.Size \in Nat /\ LastLine.Size > 0
          BY <1>1, <5>2, LineTypes DEF Inv, History, LastLine
        <5>5. QED
          BY <5>2, <5>3, <5>4 DEF LineEnd
      <4>3. QED
        BY <4>1, <4>2
    <3>3. QED
      BY <1>2, <2>3, <2>5, <3>1, <3>2 DEF History
  <2>13. Phase'
    <3>1. ~req.stream => lastEventID' = None
      BY <2>1 DEF EventID, Inv, Phase
    <3>2. QED
      BY <1>2, <3>1 DEF Phase, Inv
  <2>14. QED
    BY <1>1, <1>7, <2>8, <2>9, <2>10, <2>11, <2>12, <2>13 DEF Inv, Reading
<1>10. QED
  BY <1>8, <1>9

\* The task's writes disturb neither what was sent nor what is buffered.
LEMMA WriteStep ==
  ASSUME Inv, Write
  PROVE  Inv'
<1>1. TypeOK /\ TypeOK'
  BY TypeStep DEF Inv, Next
<1>2. /\ size' = size + 1 /\ (nl' = nl \/ nl' = nl \cup {size})
      /\ UNCHANGED <<req, pc, status, offset, lines, skipped, readLines, skip, limit,
                     chunk, received, lastEventID, asked, begin, reconnects>>
  BY DEF Write, manager, client
<1>3. /\ size \in Nat /\ begin \in Nat /\ offset \in Nat /\ lines \in SUBSET Line
      /\ \A p \in nl : p \in Nat /\ p < size
  <2>1. size \in Nat /\ \A p \in nl : p \in 0 .. size - 1
    BY <1>1 DEF TypeOK
  <2>2. \A p \in nl : p \in Nat /\ p < size
    BY <2>1
  <2>3. QED
    BY <1>1, <2>1, <2>2 DEF TypeOK
<1>4. /\ Len(received) \in Nat
      /\ \A i \in 1 .. Len(received) : /\ received[i].Offset \in Nat
                                       /\ received[i].Size \in Nat
                                       /\ LineEnd(received[i]) \in Nat
      /\ \A l \in Line : l.Offset \in Nat /\ l.Size \in Nat /\ LineEnd(l) \in Nat
  BY <1>1, LineTypes
<1>5. \A l : Whole(l) => Whole(l)'
  <2> SUFFICES ASSUME NEW l, Whole(l)
               PROVE  Whole(l)'
    OBVIOUS
  <2>1. LineEnd(l) <= size
    BY <1>3 DEF Whole
  <2>2. \A p \in nl' : p < l.Offset \/ LineEnd(l) <= p
    BY <1>2, <2>1 DEF Whole
  <2>3. l.Size > 0 /\ l.Offset - 1 \in nl' /\ LineEnd(l) \in nl'
    BY <1>2 DEF Whole
  <2>4. QED
    BY <2>2, <2>3 DEF Whole
<1>6. \A p : p \in nl => p \in nl'
  BY <1>2
<1>7. Phase'
  BY <1>2 DEF Inv, Phase
<1>8. History'
  <2>1. \A i \in 1 .. Len(received) : LineEnd(received[i]) <= size + 1
    BY <1>3, <1>4 DEF Inv, History
  <2>2. QED
    BY <1>2, <2>1 DEF Inv, History, LastLine
<1>9. NoGap'
  BY <1>2, <1>6 DEF Inv, NoGap, OnlyNewlines
<1>10. ASSUME begin \in nl', begin \notin nl
       PROVE  /\ begin = size /\ received = <<>> /\ Len(received) = 0
              /\ pc = "read" => lines = {} /\ offset = begin
  <2>1. begin = size
    BY <1>2, <1>10
  <2>2. ASSUME NEW i \in 1 .. Len(received)
        PROVE  FALSE
    <3>1. /\ received[i].Size > 0 /\ begin <= received[i].Offset
          /\ LineEnd(received[i]) <= size
      BY DEF Inv, History
    <3>2. QED
      BY <1>3, <1>4, <2>1, <3>1 DEF LineEnd
  <2>3. Len(received) = 0
    BY <1>4, <2>2
  <2>4. received = <<>>
    BY <1>1, <2>3 DEF TypeOK
  <2>5. pc = "read" => lines = {} /\ offset = begin
    <3> SUFFICES ASSUME pc = "read"
                 PROVE  lines = {} /\ offset = begin
      OBVIOUS
    <3>1. BufferOK(lines, offset)
      BY DEF Inv, Reading
    <3>2. ASSUME NEW l \in lines
          PROVE  FALSE
      <4>1. l.Size > 0 /\ begin <= l.Offset /\ LineEnd(l) <= size
        BY <3>1 DEF BufferOK
      <4>2. QED
        BY <1>3, <1>4, <2>1, <4>1 DEF LineEnd
    <3>3. QED
      BY <1>3, <2>1, <3>1, <3>2 DEF BufferOK
  <2>6. QED
    BY <2>1, <2>3, <2>4, <2>5
<1>11. ExactlyOnce'
  <2>1. CASE begin \in nl
    BY <1>2, <1>5, <1>6, <2>1 DEF Inv, ExactlyOnce, OnlyNewlines
  <2>2. CASE begin \notin nl
    BY <1>2, <1>10, <2>2 DEF ExactlyOnce
  <2>3. QED
    BY <2>1, <2>2
<1>12. ASSUME pc = "read"
       PROVE  Reading(lines, offset)'
  <2>1. BufferOK(lines, offset) /\ JoinOK(lines, offset) /\ WholeOK(lines, offset)
    BY <1>12 DEF Inv, Reading
  <2>3. BufferOK(lines, offset)'
    <3>1. \A l \in lines : LineEnd(l) <= size + 1
      BY <1>3, <1>4, <2>1 DEF BufferOK
    <3>2. offset <= size + 1 \/ offset = begin
      BY <1>3, <2>1 DEF BufferOK
    <3>3. \A l \in lines : Covered(lines, LineEnd(l), offset)'
      BY <1>2, <1>6, <2>1 DEF BufferOK, Covered
    <3>4. QED
      BY <1>2, <2>1, <3>1, <3>2, <3>3 DEF BufferOK
  <2>4. JoinOK(lines, offset)'
    BY <1>2, <1>6, <2>1 DEF JoinOK, LastLine, Covered
  <2>5. WholeOK(lines, offset)'
    <3>1. CASE begin \in nl
      BY <1>2, <1>5, <1>6, <2>1, <3>1 DEF WholeOK, LastLine
    <3>2. CASE begin \notin nl
      BY <1>2, <1>10, <1>12, <3>2 DEF WholeOK
    <3>3. QED
      BY <3>1, <3>2
  <2>6. QED
    BY <2>3, <2>4, <2>5 DEF Reading
<1>13. QED
  BY <1>1, <1>2, <1>7, <1>8, <1>9, <1>11, <1>12 DEF Inv

\* A reader that starts at the offset it will read next has nothing to join.
LEMMA StartStep ==
  ASSUME Inv, TypeOK', pc' = "read", begin' = offset', lines' = {},
         received' = <<>>, lastEventID' = None, skip' = 0 \/ skip' = req'.skip
  PROVE  Inv'
<1>1. offset' \in Nat /\ Len(received') = 0
  BY DEF TypeOK
<1>2. Phase' /\ History' /\ NoGap' /\ ExactlyOnce'
  BY <1>1 DEF Phase, History, NoGap, ExactlyOnce
<1>3. BufferOK(lines, offset)'
  BY <1>1 DEF BufferOK
<1>4. JoinOK(lines, offset)'
  <2>1. \A x \in Nat : x .. x - 1 = {}
    OBVIOUS
  <2>2. Covered(lines, begin, offset)'
    BY <1>1, <2>1 DEF Covered
  <2>3. QED
    BY <2>2 DEF JoinOK
<1>5. WholeOK(lines, offset)'
  BY DEF WholeOK
<1>6. QED
  BY <1>2, <1>3, <1>4, <1>5 DEF Inv, Reading

\* A step that leaves the reading keeps the invariant.
LEMMA LeaveStep ==
  ASSUME Inv, TypeOK', pc' # "read",
         UNCHANGED <<size, nl, req, received, lastEventID, begin>>, Phase'
  PROVE  Inv'
<1>1. History' /\ NoGap' /\ ExactlyOnce'
  BY DEF Inv, History, LastLine, NoGap, ExactlyOnce, OnlyNewlines, Whole
<1>2. QED
  BY <1>1 DEF Inv

\* A step that changes nothing the invariant speaks of.
LEMMA StayStep ==
  ASSUME Inv, UNCHANGED vars
  PROVE  Inv'
<1>1. TypeOK'
  BY TypeStep DEF Inv
<1>2. Phase' /\ History' /\ NoGap' /\ ExactlyOnce'
  BY DEF Inv, Phase, History, LastLine, NoGap, ExactlyOnce, OnlyNewlines, Whole, vars
<1>3. (pc = "read" => Reading(lines, offset))'
  BY DEF Inv, Reading, BufferOK, JoinOK, WholeOK, Covered, LastLine, Whole, vars
<1>4. QED
  BY <1>1, <1>2, <1>3 DEF Inv

\* Every step of the handler, the task and the client keeps the invariant.
LEMMA InvStep == Inv /\ [Next]_vars => Inv'
<1> SUFFICES ASSUME Inv, [Next]_vars
             PROVE  Inv'
  OBVIOUS
<1> USE DEF file, manager, client
<1>0. TypeOK /\ TypeOK'
  BY TypeStep DEF Inv
<1>1. CASE Write
  BY <1>1, WriteStep
<1>2. CASE Resume
  <2>1. /\ pc' = "read" /\ offset' = lastEventID /\ lines' = {} /\ lines = {}
        /\ skip = 0 /\ received # <<>> /\ lastEventID = LineEnd(LastLine)
        /\ UNCHANGED <<size, nl, req, skip, received, lastEventID, begin>>
    BY <1>2 DEF Resume, Inv, Phase, History
  <2>2. Phase' /\ History' /\ NoGap' /\ ExactlyOnce'
    BY <2>1 DEF Inv, Phase, History, LastLine, NoGap, ExactlyOnce, OnlyNewlines, Whole
  <2>3. /\ LastLine.Offset \in Nat /\ LastLine.Size \in Nat /\ begin \in Nat
        /\ begin <= LastLine.Offset /\ LineEnd(LastLine) <= size
        /\ lastEventID \in Nat
    BY <1>0, <2>1, LineTypes DEF Inv, History, LastLine, TypeOK
  <2>4. begin <= lastEventID /\ lastEventID <= size
    BY <2>1, <2>3 DEF LineEnd
  <2>5. BufferOK(lines, offset)'
    BY <2>1, <2>4 DEF BufferOK
  <2>6. JoinOK(lines, offset)'
    <3>1. LastLine' = LastLine /\ LineEnd(LastLine') = lastEventID
      BY <2>1 DEF LastLine
    <3>2. \A x \in Nat : x .. x - 1 = {}
      OBVIOUS
    <3>3. Covered({}, lastEventID, lastEventID)'
      BY <2>1, <2>3, <3>2 DEF Covered
    <3>4. lastEventID - 1 <= lastEventID
      BY <2>3
    <3>5. QED
      BY <2>1, <3>1, <3>3, <3>4 DEF JoinOK
  <2>7. WholeOK(lines, offset)'
    <3> SUFFICES ASSUME begin > 0, begin \in nl
                 PROVE  lastEventID \in nl /\ LineEnd(LastLine) <= lastEventID
      BY <2>1 DEF WholeOK, LastLine
    <3>1. Whole(LastLine)
      BY <1>0, <2>1, LineTypes DEF Inv, ExactlyOnce, LastLine
    <3>2. QED
      BY <2>1, <2>3, <3>1 DEF Whole
  <2>8. QED
    BY <1>0, <2>1, <2>2, <2>5, <2>6, <2>7 DEF Inv, Reading
<1>3. CASE Open
  <2>1. /\ lines' = {} /\ lastEventID' = None /\ received' = <<>>
        /\ skip' = req'.skip
        /\ \/ pc' = "read" /\ begin' = offset'
           \/ pc' = "calcOffset"
    BY <1>3 DEF Open, StartReading, Inv, Phase
  <2>2. CASE pc' = "read" /\ begin' = offset'
    BY <1>0, <2>1, <2>2, StartStep
  <2>3. CASE pc' = "calcOffset"
    <3>1. Len(received') = 0
      BY <2>1
    <3>2. Phase' /\ History' /\ NoGap' /\ ExactlyOnce'
      BY <2>1, <2>3, <3>1 DEF Phase, History, NoGap, ExactlyOnce
    <3>3. QED
      BY <1>0, <2>3, <3>2 DEF Inv
  <2>4. QED
    BY <2>1, <2>2, <2>3
<1>4. CASE OpenError
  <2>1. pc' = "done" /\ UNCHANGED <<size, nl, req, lines, skip, received, lastEventID, begin>>
    BY <1>4 DEF OpenError, Finish
  <2>2. Phase'
    BY <2>1 DEF Inv, Phase
  <2>3. QED
    BY <1>0, <2>1, <2>2, LeaveStep
<1>5. CASE CalcOffset
  <2>1. /\ received = <<>> /\ lastEventID = None /\ lines = {} /\ pc = "calcOffset"
        /\ UNCHANGED <<size, nl, req, lines, skip, received, lastEventID>>
        /\ \/ pc' = "read" /\ begin' = offset'
           \/ pc' = pc /\ begin' = begin
    BY <1>5 DEF CalcOffset, StartReading, Inv, Phase
  <2>2. skip = 0 \/ skip = req.skip
    BY DEF Inv, Phase
  <2>3. CASE pc' = "read" /\ begin' = offset'
    BY <1>0, <2>1, <2>2, <2>3, StartStep
  <2>4. CASE pc' = pc /\ begin' = begin
    <3>1. Phase'
      BY <2>1, <2>4 DEF Inv, Phase
    <3>2. QED
      BY <1>0, <2>1, <2>4, <3>1, LeaveStep
  <2>5. QED
    BY <2>1, <2>3, <2>4
<1>6. ASSUME pc' # "read", pc' # "setup", pc' # "calcOffset",
             UNCHANGED <<size, nl, req, skip, received, lastEventID, begin>>
      PROVE  Inv'
  <2>1. Phase'
    BY <1>6 DEF Inv, Phase
  <2>2. QED
    BY <1>0, <1>6, <2>1, LeaveStep
<1>7. CASE ReadLimit
  BY <1>6, <1>7 DEF ReadLimit, Finish
<1>8. CASE ReadEOF
  <2>1. CASE req.stream
    BY <1>8, <2>1, StayStep DEF ReadEOF, vars
  <2>2. CASE ~req.stream
    BY <1>6, <1>8, <2>2 DEF ReadEOF, Finish
  <2>3. QED
    BY <2>1, <2>2
<1>9. CASE ReadError
  <2>1. CASE req.stream
    BY <1>9, <2>1, StayStep DEF ReadError, vars
  <2>2. CASE ~req.stream
    BY <1>6, <1>9, <2>2 DEF ReadError, Finish
  <2>3. QED
    BY <2>1, <2>2
<1>10. CASE ReadNoData
  <2>1. /\ pc = "read" /\ lines = {} /\ ~NoNewData(nl, offset, ChunkEnd)
        /\ Buffered(nl, offset, ChunkEnd) = {}
        /\ offset' = NextOffset(nl, offset, ChunkEnd)
        /\ UNCHANGED <<size, nl, req, pc, lines, skipped, skip, received, lastEventID, begin>>
    BY <1>10 DEF ReadNoData
  <2>2. Reading({}, offset')
    BY <2>1, ChunkReading
  <2>3. Reading(lines, offset)'
    BY <2>1, <2>2 DEF Reading, BufferOK, JoinOK, WholeOK, Covered, LastLine, Whole
  <2>4. Phase' /\ History' /\ NoGap' /\ ExactlyOnce'
    BY <2>1 DEF Inv, Phase, History, LastLine, NoGap, ExactlyOnce, OnlyNewlines, Whole
  <2>5. QED
    BY <1>0, <2>3, <2>4 DEF Inv
<1>11. CASE ReadBuffered
  <2>1. pc = "read" /\ lines # {} /\ Take(Pop(lines), lines \ {Pop(lines)}, offset)
    BY <1>11 DEF ReadBuffered
  <2>2. lines \in SUBSET Line /\ offset \in Nat /\ Reading(lines, offset)
    BY <1>0, <2>1 DEF TypeOK, Inv
  <2>3. QED
    BY <2>1, <2>2, TakeStep
<1>12. CASE ReadChunk
  <2> DEFINE new == Buffered(nl, offset, ChunkEnd)
             n == NextOffset(nl, offset, ChunkEnd)
  <2>1. /\ pc = "read" /\ lines = {} /\ ~NoNewData(nl, offset, ChunkEnd)
        /\ new # {} /\ Take(Pop(new), new \ {Pop(new)}, n)
    BY <1>12 DEF ReadChunk
  <2>2. new \in SUBSET Line /\ n \in Nat
    BY <1>0, <2>1, ChunkNumbers
  <2>3. Reading(new, n)
    BY <2>1, ChunkReading
  <2> HIDE DEF new, n
  <2>4. QED
    BY <2>1, <2>2, <2>3, TakeStep
<1>13. CASE Disconnect
  BY <1>6, <1>13 DEF Disconnect, Finish
<1>14. CASE Reconnect
  <2>1. /\ pc' = "setup" /\ lines' = {} /\ skip' = 0
        /\ UNCHANGED <<size, nl, req, received, lastEventID, begin>>
    BY <1>14 DEF Reconnect
  <2>2. Phase'
    BY <2>1 DEF Inv, Phase
  <2>3. QED
    BY <1>0, <2>1, <2>2, LeaveStep
<1>15. CASE UNCHANGED vars
  BY <1>15, StayStep
<1>16. QED
  BY <1>1, <1>2, <1>3, <1>4, <1>5, <1>7, <1>8, <1>9, <1>10, <1>11, <1>12,
     <1>13, <1>14, <1>15 DEF Next, Read

\* The invariant holds in every state the program can be in.
LEMMA InvCorrect == Spec => []Inv
<1>1. Init => Inv
  <2> SUFFICES ASSUME Init
               PROVE  Inv
    OBVIOUS
  <2>1. TypeOK
    BY FilesReaderAssumption DEF Init, TypeOK, None
  <2>2. pc = "setup" /\ skip = 0 /\ lines = {} /\ received = <<>>
        /\ lastEventID = None /\ Len(received) = 0
    BY DEF Init
  <2>3. QED
    BY <2>1, <2>2 DEF Inv, Phase, History, NoGap, ExactlyOnce
<1>2. QED
  BY <1>1, InvStep, PTL DEF Spec

\* For every chunk size, file and request, and any number of reconnections:
\* no byte is lost between the lines a client gets, and a line starts at most
\* one byte before the end of the one sent before it.
THEOREM NothingLost == Spec => []NoGap
<1>1. Inv => NoGap
  BY DEF Inv
<1>2. QED
  BY <1>1, InvCorrect, PTL

\* For every chunk size, file and request, and any number of reconnections: a
\* client whose reading started on a newline gets whole lines, each once and in
\* the order of the file.
THEOREM EachLineOnce == Spec => []ExactlyOnce
<1>1. Inv => ExactlyOnce
  BY DEF Inv
<1>2. QED
  BY <1>1, InvCorrect, PTL
=============================================================================
