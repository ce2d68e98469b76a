------------------------- MODULE JournalReaderProofs -------------------------
(***************************************************************************)
(* The invariants of JournalReader hold, and it implements LogTail, for    *)
(* every journal, every set of requests and any number of reconnections.   *)
(*                                                                         *)
(* NoHole and the refinement speak of the entries that were sent; they are *)
(* kept because of what holds of the entries still to come (Joined) and,   *)
(* across a reconnection, because the SSE id is the last entry sent        *)
(* (History).                                                              *)
(***************************************************************************)
EXTENDS JournalReader, JournalProofs, SequenceTheorems

Reading == pc \in {"read", "wait", "reopen"}

LastSent == received[Len(received)]

\* Where the handler is, what it has opened and what it may be asked.
Phase ==
  /\ pc \in {"open", "read", "wait", "reopen"} => status = "none"
  /\ pc \in {"wait", "reopen", "gone"} => req.stream
  /\ pc \notin {"open", "done"} => ~BadRequest
  /\ pc = "reopen" => loc = On(saved)
  /\ OneHandle

\* Entries lie in the journal, and an open handle knows more of it than there is.
Places ==
  /\ first <= last + 1
  /\ oldest <= first
  /\ loc.kind \in {"on", "sought"} => loc.e \in matching
  /\ begin <= last /\ begin \in {None, req.cursor}
  /\ \A i \in 1 .. Len(received) : received[i] \in matching

History ==
  lastEventID # None =>
    /\ received # <<>>
    /\ lastEventID = LastSent
    /\ req.stream /\ req.format = "sse" /\ ~BadRequest

\* The entries the handle will go through if nothing else is written.
Coming ==
  IF ReadsCurrent THEN {e \in Visible : e = loc.e \/ Before(loc.e, e)}
  ELSE IF req.reverse THEN Behind(Visible, loc) ELSE Ahead(Visible, loc)

\* What the client got last, or where it starts.
Mark == IF received # <<>> THEN LastSent ELSE StartsBehind

Excused(e) == e < first \/ e \in passed

\* Something was sent, or what is to be sent first is determined.
Determined ==
  /\ SkipsOnce \/ ~req.stream
  /\ received # <<>> \/ Tailing

\* The entries to come continue what was sent: they lie behind it, and what
\* lies behind it and is not to come may be left out.
Joined ==
  Determined =>
    /\ loc.kind # "tail" /\ (req.reverse => loc.kind = "on")
    /\ loc.kind \in {"on", "sought"} => Mark = loc.e \/ Before(Mark, loc.e)
    /\ \A e \in Coming : Before(Mark, e)
    /\ \A e \in matching : Shows(e) /\ Before(Mark, e) /\ e \notin Coming => Excused(e)

Inv ==
  /\ TypeOK
  /\ Phase
  /\ Places
  /\ History
  /\ NoHole
  /\ Reading => Joined

-----------------------------------------------------------------------------
\* What Requests holds.
LEMMA RequestFields ==
  ASSUME TypeOK
  PROVE  /\ req.cursor \in Nat \cup {Garbled} /\ req.cursor \in Int
         /\ req.skipNext \in Nat /\ req.skipPrev \in Nat /\ req.limit \in Nat
         /\ {req.parses, req.end, req.reverse, req.stream} \subseteq BOOLEAN
         /\ req.api \in {"v1", "v2"} /\ req.format \in {"text", "json", "sse"}
         /\ req.end => req.cursor = None
         /\ req.api = "v2" => ~req.reverse
BY JournalReaderAssumption DEF TypeOK, Request, Garbled

\* A stream that was accepted reads forwards.
LEMMA StreamsForwards ==
  ASSUME TypeOK, ~BadRequest, req.stream
  PROVE  ~req.reverse
BY RequestFields DEF BadRequest

\* The journal is finite.
LEMMA JournalBounded ==
  ASSUME TypeOK
  PROVE  /\ last \in Nat /\ \A e \in matching : e \in Nat /\ 1 <= e /\ e <= last
         /\ \A from : Bounded(Readable(from), last)
         /\ Bounded(Visible, last)
<1>1. last \in Nat /\ \A e \in matching : e \in 1 .. last
  BY DEF TypeOK
<1>2. \A e \in matching : e \in Nat /\ 1 <= e /\ e <= last
  BY <1>1
<1>3. \A from : Bounded(Readable(from), last)
  BY <1>1, <1>2 DEF Bounded, Readable
<1>4. QED
  BY <1>1, <1>2, <1>3 DEF Visible

\* A cursor is found as the first entry at or behind it.
LEMMA SeekFacts ==
  ASSUME TypeOK, NEW from, NEW c \in Nat, Found(Readable(from), c)
  PROVE  \E m \in Readable(from) :
           /\ SeekCursor(Readable(from), c) = On(m)
           /\ c <= m
           /\ \A k \in Readable(from) : c <= k => m <= k
<1> DEFINE V == Readable(from)
           A == Ahead(V, Sought(c))
<1>1. V \in SUBSET Nat
  BY JournalBounded DEF Bounded
<1>2. A = {e \in V : e >= c}
  BY DEF Ahead, Sought
<1>3. A # {} /\ A \in SUBSET Nat /\ SeekCursor(V, c) = On(Min(A))
  BY <1>1, <1>2 DEF Found, SeekCursor
<1>4. Min(A) \in A /\ \A k \in A : Min(A) <= k
  <2> HIDE DEF A
  <2>1. QED
    BY <1>3, MinNat
<1>5. Min(A) \in V /\ Min(A) >= c /\ \A k \in V : k >= c => Min(A) <= k
  BY <1>2, <1>4
<1>6. QED
  BY <1>1, <1>3, <1>5

\* Read moves to an entry of the handle.
LEMMA MoveFacts ==
  ASSUME TypeOK, NEW e \in Moves
  PROVE  /\ e \in Visible
         /\ ~req.reverse /\ loc.kind # "tail" =>
              e \in Ahead(Visible, loc) /\ \A k \in Ahead(Visible, loc) : e <= k
         /\ req.reverse /\ loc.kind # "head" =>
              e \in Behind(Visible, loc) /\ \A k \in Behind(Visible, loc) : k <= e
<1>1. Bounded(Visible, last)
  BY JournalBounded
<1>2. CASE req.reverse
  BY <1>1, <1>2, PreviousesFacts DEF Moves
<1>3. CASE ~req.reverse
  BY <1>1, <1>3, NextsFacts DEF Moves
<1>4. QED
  BY <1>2, <1>3

\* The options leave the handle at an end of the journal or on an entry.
Landings(V) == {AtHead, AtTail} \cup {On(e) : e \in V}

\* Where the cursor, or cursor=END, puts it before the skips.
Sought0 ==
  IF StartCursor # None THEN SeekCursor(Readable(first), StartCursor)
  ELSE IF req.end THEN PreviousSkip(Readable(first), AtTail, 1)
  ELSE AtHead

Forth0 == NextSkip(Readable(first), Sought0, SkipNextParam)

\* Where NewReader leaves a handle: behind the head and the seeks, it stands on
\* an entry, between two or at an end, never outside the journal.
LEMMA OpenFacts ==
  ASSUME TypeOK, Open
  PROVE  /\ StartCursor \in Nat
         /\ SkipNextParam \in Nat /\ SkipPrevParam \in Nat
         /\ Sought0 \in Landings(Readable(first))
         /\ Forth0 \in Landings(Readable(first))
         /\ loc' \in Landings(Readable(first))
         /\ loc' = IF SkipPrevParam > 0
                     THEN PreviousSkip(Readable(first), SkipPrevFrom(Forth0), SkipPrevParam)
                     ELSE Forth0
         /\ SkipNextParam = 0 => Forth0 = Sought0
         /\ skipped' = [next |-> SkippedNext(Readable(first), Sought0, SkipNextParam),
                        prev |-> SkippedPrev(Readable(first), SkipPrevFrom(Forth0),
                                             SkipPrevParam)]
         /\ skipped' \in [next : Nat, prev : Nat]
<1> DEFINE V == Readable(first)
<1>1. Bounded(V, last)
  BY JournalBounded
<1>2. StartCursor \in Nat
  BY RequestFields DEF Open, StartCursor, Garbled, TypeOK
<1>3. SkipNextParam \in Nat /\ SkipPrevParam \in Nat
  BY RequestFields DEF SkipNextParam, SkipPrevParam
<1>4. /\ loc' = IF SkipPrevParam > 0
                  THEN PreviousSkip(V, SkipPrevFrom(Forth0), SkipPrevParam) ELSE Forth0
      /\ skipped' = [next |-> SkippedNext(V, Sought0, SkipNextParam),
                     prev |-> SkippedPrev(V, SkipPrevFrom(Forth0), SkipPrevParam)]
  BY DEF Open, Sought0, Forth0
<1>5. \A at : \A k \in Nat :
        /\ NextSkip(V, at, k) = at \/ \E e \in V : NextSkip(V, at, k) = On(e)
        /\ PreviousSkip(V, at, k) = at \/ \E e \in V : PreviousSkip(V, at, k) = On(e)
  <2> HIDE DEF V
  <2>1. QED
    BY <1>1, SkipsLand
<1>6. Sought0 \in Landings(V)
  <2>1. CASE StartCursor # None
    <3>1. Found(V, StartCursor)
      BY <2>1 DEF Open
    <3>2. \E m \in V : SeekCursor(V, StartCursor) = On(m)
      BY <1>2, <3>1, SeekFacts
    <3>3. QED
      BY <2>1, <3>2 DEF Sought0, Landings
  <2>2. CASE StartCursor = None /\ req.end
    BY <1>5, <2>2 DEF Sought0, Landings
  <2>3. CASE StartCursor = None /\ ~req.end
    BY <2>3 DEF Sought0, Landings
  <2>4. QED
    BY <2>1, <2>2, <2>3
<1>7. Forth0 \in Landings(V)
  BY <1>3, <1>5, <1>6 DEF Forth0, Landings
<1>8. loc' \in Landings(V)
  <2>1. SkipPrevFrom(Forth0) \in Landings(V)
    BY <1>7 DEF SkipPrevFrom, Landings
  <2>2. QED
    BY <1>3, <1>4, <1>5, <1>7, <2>1 DEF Landings
<1>9. SkipNextParam = 0 => Forth0 = Sought0
  BY <1>1, <1>3, NextSkipFacts DEF Forth0
<1>10. skipped' \in [next : Nat, prev : Nat]
  <2>1. \A at : \A k \in Nat : SkippedNext(V, at, k) \in Nat /\ SkippedPrev(V, at, k) \in Nat
    <3> HIDE DEF V
    <3>1. QED
      BY <1>1, SidesBounded, AtMostFacts DEF SkippedNext, SkippedPrev
  <2>2. QED
    BY <1>3, <1>4, <2>1
<1>11. QED
  BY <1>2, <1>3, <1>4, <1>6, <1>7, <1>8, <1>9, <1>10

-----------------------------------------------------------------------------
(***************************************************************************)
(* Types.                                                                  *)
(***************************************************************************)
\* An entry of the journal is a place.
LEMMA Placed ==
  ASSUME NEW e \in Nat
  PROVE  On(e) \in Location /\ Sought(e) \in Location
BY DEF On, Sought, Location

\* A request that has not been looked at yet has nothing of the wrong type.
LEMMA TypeInit ==
  ASSUME Init
  PROVE  TypeOK
<1>1. last \in Nat /\ first \in Nat
  BY JournalReaderAssumption DEF Init
<1>2. AtHead \in Location
  BY DEF AtHead, Location
<1>3. req \in Requests /\ received \in Seq(Nat)
  BY DEF Init
<1>4. timed \in BOOLEAN /\ copied \in BOOLEAN
  BY DEF Init
<1>5. skipped \in [next : Nat, prev : Nat]
  BY DEF Init
<1>6. QED
  BY <1>1, <1>2, <1>3, <1>4, <1>5 DEF Init, TypeOK, None

\* An entry that Read sends.
LEMMA TypeSend ==
  ASSUME TypeOK, NEW e \in Nat, Send(e)
  PROVE  TypeOK'
<1> USE DEF journal
<1>1. loc' \in Location
  BY Placed DEF Send
<1>2. limit' \in Nat /\ n' \in Nat
  BY RequestFields DEF Send, LimitLeft, TypeOK
<1>3. received' \in Seq(Nat) /\ lastEventID' \in Nat
  BY DEF Send, EventID, TypeOK
<1>4. timed' \in BOOLEAN /\ copied' \in BOOLEAN
  BY DEF Send, TypeOK, Shows
<1>5. QED
  BY <1>1, <1>2, <1>3, <1>4 DEF Send, TypeOK

\* NewReader's options place the handle and leave Limit and Cursor as numbers.
LEMMA TypeOpen ==
  ASSUME TypeOK, Open
  PROVE  TypeOK'
<1> USE DEF journal
<1>1. loc' \in Location
  <2>1. loc' \in Landings(Readable(first))
    BY OpenFacts
  <2>2. \A e \in Readable(first) : e \in Nat
    BY JournalBounded DEF Readable
  <2>3. QED
    BY <2>1, <2>2, Placed DEF Landings, AtHead, AtTail, Location
<1>2. cursor' \in Nat /\ limit' \in Nat /\ n' \in Nat /\ saved' \in Nat
  BY OpenFacts, RequestFields DEF Open, None
<1>3. skipped' \in [next : Nat, prev : Nat]
  BY OpenFacts
<1>4. received' \in Seq(Nat) /\ begin' \in Nat /\ opened' \subseteq matching
  <2>1. CASE Resuming
    BY <2>1 DEF Open, TypeOK
  <2>2. CASE ~Resuming
    <3>1. req.cursor \in Nat
      BY <2>2, OpenFacts DEF StartCursor
    <3>2. Readable(first) \subseteq matching
      BY DEF Readable
    <3>3. received' = <<>> /\ begin' = req.cursor /\ opened' = Readable(first)
      BY <2>2 DEF Open
    <3>4. QED
      BY <3>1, <3>2, <3>3
  <2>3. QED
    BY <2>1, <2>2
<1>5. /\ handles' = handles + 1 /\ oldest' = first /\ pc' = "read"
      /\ UNCHANGED <<first, last, matching, named, req, status, lastEventID, passed, reconnects>>
  BY DEF Open
<1>6. timed' \in BOOLEAN /\ copied' \in BOOLEAN
  BY DEF Open
<1>7. QED
  BY <1>1, <1>2, <1>3, <1>4, <1>5, <1>6 DEF TypeOK

\* Where a reopened handle stands.
LEMMA ReopenFacts ==
  ASSUME TypeOK, Reopen
  PROVE  \/ /\ loc' = Sought(saved)
            /\ ~Found(Readable(first), saved)
            /\ passed' = passed
         \/ \E m \in Readable(first) :
              /\ loc' = On(m)
              /\ saved <= m
              /\ \A k \in Readable(first) : saved <= k => m <= k
              /\ passed' = passed \cup ({m} \ {saved})
<1>1. saved \in Nat
  BY DEF TypeOK
<1>2. CASE Found(Readable(first), saved)
  <2>1. PICK m \in Readable(first) :
               /\ SeekCursor(Readable(first), saved) = On(m)
               /\ saved <= m
               /\ \A k \in Readable(first) : saved <= k => m <= k
    BY <1>1, <1>2, SeekFacts
  <2>2. loc' = On(m)
    BY <1>2, <2>1 DEF Reopen
  <2>3. loc'.e = m
    BY <2>2 DEF On
  <2>4. passed' = passed \cup ({m} \ {saved})
    BY <2>3 DEF Reopen
  <2>5. QED
    BY <2>1, <2>2, <2>4
<1>3. CASE ~Found(Readable(first), saved)
  <2>1. loc' = Sought(saved)
    BY <1>3 DEF Reopen
  <2>2. loc'.e = saved
    BY <2>1 DEF Sought
  <2>3. passed' = passed
    BY <2>2 DEF Reopen
  <2>4. QED
    BY <1>3, <2>1, <2>3
<1>4. QED
  BY <1>2, <1>3

\* No step of the reader, the journal or the client breaks a type.
LEMMA TypeStep ==
  ASSUME TypeOK, [Next]_vars
  PROVE  TypeOK'
<1> USE DEF journal, reader, client
<1>1. CASE WriteEntry
  <2>1. last' = last + 1 /\ last \in Nat
    BY <1>1 DEF WriteEntry, TypeOK
  <2>2. matching' \in SUBSET (1 .. last') /\ named' \in SUBSET matching'
    BY <1>1, <2>1 DEF WriteEntry, TypeOK
  <2>3. matching \subseteq matching'
    BY <1>1 DEF WriteEntry
  <2>4. QED
    BY <1>1, <2>1, <2>2, <2>3 DEF WriteEntry, TypeOK
<1>2. CASE Vacuum
  BY <1>2 DEF Vacuum, TypeOK
<1>3. CASE OpenRefused
  BY <1>3 DEF OpenRefused, Finish, TypeOK
<1>4. CASE OpenError
  BY <1>4 DEF OpenError, Finish, TypeOK
<1>5. CASE OpenNotFound
  BY <1>5 DEF OpenNotFound, Finish, TypeOK
<1>6. CASE Open
  BY <1>6, TypeOpen
<1>7. CASE ReadCurrent
  BY <1>7, TypeSend DEF ReadCurrent, TypeOK, Location
<1>8. CASE ReadNext
  <2>1. PICK e \in Moves : Send(e)
    BY <1>8 DEF ReadNext
  <2>2. e \in Nat
    BY MoveFacts, JournalBounded DEF Visible, Readable
  <2>3. QED
    BY <2>1, <2>2, TypeSend
<1>9. CASE Ping
  BY <1>9 DEF Ping, TypeOK
<1>10. CASE ReadEOF
  BY <1>10 DEF ReadEOF, CloseHandle, Finish, TypeOK
<1>11. CASE FollowEOF
  BY <1>11 DEF FollowEOF, TypeOK
<1>12. CASE ReadError
  BY <1>12 DEF ReadError, CloseHandle, Return, TypeOK
<1>13. CASE WaitAgain
  BY <1>13 DEF WaitAgain, TypeOK
<1>14. CASE Invalidate
  BY <1>14 DEF Invalidate, TypeOK, Location
<1>15. CASE InvalidateLost
  BY <1>15 DEF InvalidateLost, CloseHandle, Return, TypeOK
<1>16. CASE Reopen
  <2>1. \A m \in Readable(first) : m \in Nat /\ m \in matching
    BY JournalBounded DEF Readable
  <2>2. loc' \in Location /\ passed' \subseteq matching
    BY <1>16, <2>1, ReopenFacts, Placed DEF TypeOK
  <2>3. QED
    BY <1>16, <2>2 DEF Reopen, ReopenHandle, None, TypeOK
<1>17. CASE ReopenError
  BY <1>17 DEF ReopenError, TypeOK
<1>18. CASE Disconnect
  BY <1>18 DEF Disconnect, CloseHandle, TypeOK
<1>19. CASE Reconnect
  BY <1>19 DEF Reconnect, TypeOK
<1>20. CASE UNCHANGED vars
  BY <1>20 DEF vars, TypeOK
<1>21. QED
  BY <1>1, <1>2, <1>3, <1>4, <1>5, <1>6, <1>7, <1>8, <1>9, <1>10, <1>11, <1>12, <1>13,
     <1>14, <1>15, <1>16, <1>17, <1>18, <1>19, <1>20
     DEF Next, OpenReader, Read, Follow

\* The variables of the journal endpoints stay in their types: Limit, the uint64
\* that Read decrements, never falls below zero.
THEOREM TypeCorrect == Spec => []TypeOK
<1>1. Init => TypeOK
  BY TypeInit
<1>2. TypeOK /\ [Next]_vars => TypeOK'
  BY TypeStep
<1>3. QED
  BY <1>1, <1>2, PTL DEF Spec

-----------------------------------------------------------------------------
(***************************************************************************)
(* Where the handler is, and its handle.                                   *)
(***************************************************************************)
LEMMA PhaseInit ==
  ASSUME Init
  PROVE  Phase
BY DEF Init, Phase, OneHandle

\* A request that is not being read holds no journal and sends nothing.
LEMMA PhaseStep ==
  ASSUME TypeOK, Phase, [Next]_vars
  PROVE  Phase'
<1> USE DEF journal, reader, client, Phase, OneHandle, BadRequest
<1>1. CASE WriteEntry
  BY <1>1 DEF WriteEntry
<1>2. CASE Vacuum
  BY <1>2 DEF Vacuum
<1>3. CASE OpenRefused
  BY <1>3 DEF OpenRefused, Finish, TypeOK
<1>4. CASE OpenError
  BY <1>4 DEF OpenError, Finish, TypeOK
<1>5. CASE OpenNotFound
  BY <1>5 DEF OpenNotFound, Finish, TypeOK
<1>6. CASE Open
  <2>1. /\ pc = "open" /\ ~BadRequest /\ pc' = "read" /\ handles' = handles + 1
        /\ UNCHANGED <<req, status>>
    BY <1>6 DEF Open
  <2>2. QED
    BY <2>1 DEF TypeOK
<1>7. CASE ReadCurrent
  BY <1>7 DEF ReadCurrent, Send
<1>8. CASE ReadNext
  BY <1>8 DEF ReadNext, Send
<1>9. CASE Ping
  BY <1>9 DEF Ping
<1>10. CASE ReadEOF
  BY <1>10 DEF ReadEOF, CloseHandle, Finish, TypeOK
<1>11. CASE FollowEOF
  BY <1>11 DEF FollowEOF
<1>12. CASE ReadError
  BY <1>12 DEF ReadError, CloseHandle, Return, TypeOK
<1>13. CASE WaitAgain
  BY <1>13 DEF WaitAgain
<1>14. CASE Invalidate
  <2>1. loc = On(loc.e)
    BY <1>14 DEF Invalidate, OnEntry, TypeOK, Location, On
  <2>2. QED
    BY <1>14, <2>1 DEF Invalidate
<1>15. CASE InvalidateLost
  BY <1>15 DEF InvalidateLost, CloseHandle, Return, TypeOK
<1>16. CASE Reopen
  BY <1>16 DEF Reopen, ReopenHandle
<1>17. CASE ReopenError
  BY <1>17 DEF ReopenError, TypeOK
<1>18. CASE Disconnect
  BY <1>18 DEF Disconnect, CloseHandle, TypeOK
<1>19. CASE Reconnect
  BY <1>19 DEF Reconnect, TypeOK
<1>20. CASE UNCHANGED vars
  BY <1>20 DEF vars
<1>21. QED
  BY <1>1, <1>2, <1>3, <1>4, <1>5, <1>6, <1>7, <1>8, <1>9, <1>10, <1>11, <1>12, <1>13,
     <1>14, <1>15, <1>16, <1>17, <1>18, <1>19, <1>20
     DEF Next, OpenReader, Read, Follow

\* A request holds one journal handle while it runs and none when it is over,
\* whatever it went through, except for the two error paths of OneHandle.
THEOREM HandlesBalanced == Spec => []OneHandle
<1>1. Init => TypeOK /\ Phase
  BY TypeInit, PhaseInit
<1>2. TypeOK /\ Phase /\ [Next]_vars => TypeOK' /\ Phase'
  BY TypeStep, PhaseStep
<1>3. Phase => OneHandle
  BY DEF Phase
<1>4. QED
  BY <1>1, <1>2, <1>3, PTL DEF Spec

-----------------------------------------------------------------------------
(***************************************************************************)
(* Where the handle is, and what was sent.                                 *)
(***************************************************************************)
\* What a client has with one entry more.
LEMMA Appended ==
  ASSUME NEW s \in Seq(Nat), NEW e \in Nat
  PROVE  LET t == Append(s, e)
         IN  /\ t \in Seq(Nat) /\ t # <<>> /\ Len(t) = Len(s) + 1 /\ t[Len(t)] = e
             /\ \A i \in 1 .. Len(s) : t[i] = s[i]
             /\ s = <<>> => t[1] = e
OBVIOUS

\* The first and the last of the entries sent, where there are any.
LEMMA Ended ==
  ASSUME NEW s \in Seq(Nat), s # <<>>
  PROVE  /\ Len(s) \in Nat /\ Len(s) \in 1 .. Len(s) /\ 1 \in 1 .. Len(s)
         /\ s[Len(s)] \in Nat /\ s[1] \in Nat
OBVIOUS

\* Nothing was sent yet, and the handle is at the head.
LEMMA PlacesInit ==
  ASSUME Init
  PROVE  Places
<1>1. last \in Nat /\ first \in Nat
  BY TypeInit DEF TypeOK
<1>2. QED
  BY <1>1 DEF Init, Places, AtHead, None

\* Read sends an entry of the journal.
LEMMA SentFromJournal ==
  ASSUME TypeOK, Places, ReadCurrent \/ ReadNext
  PROVE  \E e \in matching :
           /\ e \in Nat
           /\ Send(e)
           /\ (ReadCurrent /\ e = loc.e) \/ (ReadNext /\ e \in Moves)
<1>1. CASE ReadCurrent
  <2>1. loc.e \in matching /\ loc.e \in Nat
    BY <1>1, JournalBounded DEF ReadCurrent, ReadsCurrent, OnEntry, Places
  <2>2. PICK e \in matching : e = loc.e
    BY <2>1
  <2>3. Send(e)
    BY <1>1, <2>2 DEF ReadCurrent, Send
  <2>4. QED
    BY <1>1, <2>1, <2>2, <2>3
<1>2. CASE ReadNext
  <2>1. PICK e \in Moves : Send(e)
    BY <1>2 DEF ReadNext
  <2>2. e \in matching /\ e \in Nat
    BY MoveFacts, JournalBounded DEF Visible, Readable
  <2>3. QED
    BY <1>2, <2>1, <2>2
<1>3. QED
  BY <1>1, <1>2

\* Whatever was sent or marked stays an entry of the journal that matched.
LEMMA PlacesStep ==
  ASSUME TypeOK, Phase, Places, [Next]_vars
  PROVE  Places'
<1> USE DEF journal, reader, client
<1>0. /\ first \in Nat /\ last \in Nat /\ oldest \in Nat /\ begin \in Nat
      /\ received \in Seq(Nat)
  BY DEF TypeOK
<1>1. CASE WriteEntry
  BY <1>0, <1>1 DEF WriteEntry, Places
<1>2. CASE Vacuum
  BY <1>0, <1>2 DEF Vacuum, Places
<1>3. CASE Open
  <2>1. loc'.kind \in {"on", "sought"} => loc'.e \in matching
    <3>1. loc' \in Landings(Readable(first))
      BY <1>3, OpenFacts
    <3>2. QED
      BY <3>1 DEF Landings, AtHead, AtTail, On, Readable
  <2>2. /\ begin' <= last /\ begin' \in {None, req.cursor}
        /\ \A i \in 1 .. Len(received') : received'[i] \in matching
    <3>1. CASE Resuming
      BY <1>3, <3>1 DEF Open, Places
    <3>2. CASE ~Resuming
      <4>1. received' = <<>> /\ begin' = req.cursor /\ StartCursor = req.cursor
        BY <1>3, <3>2 DEF Open, StartCursor
      <4>2. CASE req.cursor = None
        BY <1>0, <4>1, <4>2 DEF None
      <4>3. CASE req.cursor # None
        <5>1. Found(Readable(first), req.cursor) /\ req.cursor \in Nat
          BY <1>3, <4>1, <4>3, OpenFacts DEF Open
        <5>2. \E m \in Readable(first) : req.cursor <= m
          BY <5>1, SeekFacts
        <5>3. \A m \in Readable(first) : m \in Nat /\ m <= last
          BY JournalBounded DEF Readable
        <5>4. QED
          BY <1>0, <4>1, <5>1, <5>2, <5>3
      <4>4. QED
        BY <4>2, <4>3
    <3>3. QED
      BY <3>1, <3>2
  <2>3. oldest' = first /\ UNCHANGED <<first, last, matching, req>>
    BY <1>3 DEF Open
  <2>4. QED
    BY <1>0, <2>1, <2>2, <2>3 DEF Places
<1>4. CASE ReadCurrent \/ ReadNext
  <2>1. PICK e \in matching : e \in Nat /\ Send(e)
    BY <1>4, SentFromJournal
  <2>2. loc'.e = e /\ UNCHANGED <<first, last, oldest, begin, matching, req>>
    BY <2>1 DEF Send, On
  <2>3. \A i \in 1 .. Len(received') : received'[i] \in matching
    BY <1>0, <2>1, Appended DEF Send, Places
  <2>4. QED
    BY <2>1, <2>2, <2>3 DEF Places
<1>5. CASE Reopen
  <2>1. saved \in matching
    BY <1>5 DEF Reopen, Phase, Places, On
  <2>2. loc'.e \in matching
    BY <1>5, <2>1, ReopenFacts DEF On, Sought, Readable
  <2>3. QED
    BY <1>0, <1>5, <2>2 DEF Reopen, Places
<1>6. CASE Invalidate \/ InvalidateLost
  BY <1>0, <1>6 DEF Invalidate, InvalidateLost, Places
<1>7. CASE OpenRefused \/ OpenError \/ OpenNotFound \/ UNCHANGED vars
  BY <1>7 DEF OpenRefused, OpenError, OpenNotFound, vars, Places
<1>8. CASE Ping \/ ReadEOF \/ FollowEOF \/ ReadError \/ WaitAgain
  BY <1>8 DEF Ping, ReadEOF, FollowEOF, ReadError, WaitAgain, Places
<1>9. CASE ReopenError \/ Disconnect \/ Reconnect
  BY <1>9 DEF ReopenError, Disconnect, Reconnect, Places
<1>10. QED
  BY <1>1, <1>2, <1>3, <1>4, <1>5, <1>6, <1>7, <1>8, <1>9 DEF Next, OpenReader, Read, Follow

\* A first request resumes nothing.
LEMMA HistoryInit ==
  ASSUME Init
  PROVE  History
BY DEF Init, History

\* The SSE id a client comes back with is that of the last entry it got.
LEMMA HistoryStep ==
  ASSUME TypeOK, Phase, Places, History, [Next]_vars
  PROVE  History'
<1> USE DEF journal, reader, client, BadRequest, History, LastSent
<1>0. received \in Seq(Nat) /\ lastEventID \in Nat
  BY DEF TypeOK
<1>1. CASE WriteEntry \/ Vacuum
  BY <1>1 DEF WriteEntry, Vacuum
<1>2. CASE Open
  <2>1. Resuming => UNCHANGED received
    BY <1>2 DEF Open
  <2>2. UNCHANGED <<lastEventID, req>>
    BY <1>2 DEF Open
  <2>3. QED
    BY <2>1, <2>2 DEF Resuming
<1>3. CASE ReadCurrent \/ ReadNext
  <2>1. PICK e \in matching : e \in Nat /\ Send(e)
    BY <1>3, SentFromJournal
  <2>2. pc = "read" /\ UNCHANGED req
    BY <1>3, <2>1 DEF ReadCurrent, ReadNext, Send
  <2>3. ~BadRequest
    BY <2>2 DEF Phase
  <2>4. CASE req.stream /\ req.format = "sse"
    <3>1. lastEventID' = e /\ received' = Append(received, e)
      BY <2>1, <2>4 DEF Send, EventID, Shows
    <3>2. QED
      BY <1>0, <2>1, <2>2, <2>3, <2>4, <3>1, Appended
  <2>5. CASE ~(req.stream /\ req.format = "sse")
    BY <2>1, <2>2, <2>5 DEF Send, EventID
  <2>6. QED
    BY <2>4, <2>5
<1>4. CASE OpenRefused \/ OpenError \/ OpenNotFound \/ UNCHANGED vars
  BY <1>4 DEF OpenRefused, OpenError, OpenNotFound, vars
<1>5. CASE Ping \/ ReadEOF \/ FollowEOF \/ ReadError \/ WaitAgain
  BY <1>5 DEF Ping, ReadEOF, FollowEOF, ReadError, WaitAgain
<1>6. CASE Invalidate \/ InvalidateLost \/ Reopen \/ ReopenError
  BY <1>6 DEF Invalidate, InvalidateLost, Reopen, ReopenError
<1>7. CASE Disconnect \/ Reconnect
  BY <1>7 DEF Disconnect, Reconnect
<1>8. QED
  BY <1>1, <1>2, <1>3, <1>4, <1>5, <1>6, <1>7 DEF Next, OpenReader, Read, Follow

-----------------------------------------------------------------------------
(***************************************************************************)
(* What is to come continues what was sent.                                *)
(***************************************************************************)
\* A client starts in the journal, or just in front of its last entry.
LEMMA StartBounded ==
  ASSUME TypeOK, Places
  PROVE  StartsBehind \in Int /\ StartsBehind <= last
<1>1. opened \in SUBSET Nat /\ last \in Nat /\ \A e \in opened : e <= last
  BY JournalBounded DEF TypeOK
<1>2. begin \in Nat /\ begin <= last
  BY DEF TypeOK, Places
<1>3. opened # {} => Max(opened) \in Nat /\ Max(opened) <= last
  BY <1>1, MaxNat
<1>4. QED
  BY <1>1, <1>2, <1>3 DEF StartsBehind

\* The reader never waits for an entry behind the one journald writes next.
LEMMA MarkBounded ==
  ASSUME TypeOK, Places
  PROVE  Mark \in Int /\ Mark <= last
<1>1. received \in Seq(Nat) /\ last \in Nat
  BY DEF TypeOK
<1>2. CASE received # <<>>
  <2>1. LastSent \in matching
    BY <1>1, <1>2, Ended DEF Places, LastSent
  <2>2. QED
    BY <1>2, <2>1, JournalBounded DEF Mark
<1>3. CASE received = <<>>
  BY <1>3, StartBounded DEF Mark
<1>4. QED
  BY <1>2, <1>3

\* Read sends the first of the entries to come.
LEMMA SendsFirst ==
  ASSUME TypeOK, Places, NEW e \in Nat,
         (ReadCurrent /\ e = loc.e) \/ (ReadNext /\ e \in Moves),
         loc.kind # "tail", req.reverse => loc.kind = "on"
  PROVE  e \in Coming /\ \A k \in Coming : k = e \/ Before(e, k)
<1>1. \A k \in Visible : k \in Nat
  BY JournalBounded DEF Visible, Readable
<1>2. CASE ReadCurrent /\ e = loc.e
  <2>1. ReadsCurrent /\ e \in Visible
    BY <1>2 DEF ReadCurrent, ReadsCurrent, OnEntry, Places, Visible, Readable
  <2>2. QED
    BY <1>2, <2>1 DEF Coming
<1>3. CASE ReadNext /\ e \in Moves
  <2>1. ~ReadsCurrent
    BY <1>3 DEF ReadNext
  <2>2. CASE req.reverse
    <3>1. e \in Behind(Visible, loc) /\ \A k \in Behind(Visible, loc) : k <= e
      BY <1>3, <2>2, MoveFacts
    <3>2. \A k \in Behind(Visible, loc) : k \in Nat
      BY <1>1 DEF Behind
    <3>3. Coming = Behind(Visible, loc)
      BY <2>1, <2>2 DEF Coming
    <3>4. \A k \in Behind(Visible, loc) : k = e \/ Before(e, k)
      BY <2>2, <3>1, <3>2 DEF Before
    <3>5. QED
      BY <3>1, <3>3, <3>4
  <2>3. CASE ~req.reverse
    <3>1. e \in Ahead(Visible, loc) /\ \A k \in Ahead(Visible, loc) : e <= k
      BY <1>3, <2>3, MoveFacts
    <3>2. \A k \in Ahead(Visible, loc) : k \in Nat
      BY <1>1 DEF Ahead
    <3>3. Coming = Ahead(Visible, loc)
      BY <2>1, <2>3 DEF Coming
    <3>4. \A k \in Ahead(Visible, loc) : k = e \/ Before(e, k)
      BY <2>3, <3>1, <3>2 DEF Before
    <3>5. QED
      BY <3>1, <3>3, <3>4
  <2>4. QED
    BY <2>2, <2>3
<1>4. QED
  BY <1>2, <1>3

\* On the entry it sent, the handle has those behind it to come.
LEMMA ComingAfterSend ==
  ASSUME TypeOK, NEW e \in Nat, Send(e)
  PROVE  /\ loc'.kind = "on" /\ loc'.e = e
         /\ Coming' = {k \in Visible : Before(e, k)}
         /\ UNCHANGED <<first, last, matching, passed, req, begin, opened, oldest, pc>>
<1>1. /\ loc' = On(e) /\ n' = n + 1 /\ n \in Nat
      /\ UNCHANGED <<first, last, matching, passed, req, begin, opened, oldest, pc>>
  BY DEF Send, journal, TypeOK
<1>2. loc'.kind = "on" /\ loc'.e = e
  BY <1>1 DEF On
<1>3. ~ReadsCurrent'
  BY <1>1 DEF ReadsCurrent
<1>4. Visible' = Visible
  BY <1>1 DEF Visible, Readable
<1>5. Coming' = IF req.reverse THEN Behind(Visible, loc') ELSE Ahead(Visible, loc')
  BY <1>1, <1>3, <1>4 DEF Coming
<1>6. \A k \in Visible : k \in Nat
  BY JournalBounded DEF Visible, Readable
<1>7. Behind(Visible, loc') = {k \in Visible : k < e}
  BY <1>2 DEF Behind
<1>8. Ahead(Visible, loc') = {k \in Visible : k > e}
  BY <1>2 DEF Ahead
<1>9. Coming' = {k \in Visible : Before(e, k)}
  BY <1>5, <1>6, <1>7, <1>8 DEF Before
<1>10. QED
  BY <1>1, <1>2, <1>9

\* The first entry to come that is to be shown closes no hole.
LEMMA ShownFirst ==
  ASSUME TypeOK, Places, Joined, Determined, NEW e \in matching,
         e \in Coming, \A k \in Coming : k = e \/ Before(e, k)
  PROVE  Before(Mark, e) /\ \A k \in Between(Mark, e) : Excused(k)
<1>1. Before(Mark, e)
  BY DEF Joined
<1>2. e \in Nat /\ \A k \in matching : k \in Nat
  BY JournalBounded
<1>3. ASSUME NEW k \in Between(Mark, e)
      PROVE  Excused(k)
  <2>1. k \in matching /\ Shows(k) /\ Before(Mark, k) /\ Before(k, e)
    BY <1>3 DEF Between
  <2>2. k # e /\ ~Before(e, k)
    BY <1>2, <2>1 DEF Before
  <2>3. QED
    BY <2>1, <2>2 DEF Joined
<1>4. QED
  BY <1>1, <1>3

\* Holes do not open by what journald and Follow do.
LEMMA HoleKept ==
  ASSUME TypeOK, TypeOK', NoHole,
         UNCHANGED <<req, received, begin, matching>>,
         first <= first', passed \subseteq passed'
  PROVE  NoHole'
<1>1. SkipsOnce' = SkipsOnce
  BY DEF SkipsOnce
<1>2. \A a, b : Between(a, b)' = Between(a, b) /\ Before(a, b)' = Before(a, b)
  BY DEF Between, Before, Shows
<1>3. \A e \in matching : e < first \/ e \in passed => e < first' \/ e \in passed'
  BY JournalBounded DEF TypeOK
<1>4. \A a, b : Between(a, b) \subseteq matching
  BY DEF Between
<1>5. QED
  BY <1>1, <1>2, <1>3, <1>4 DEF NoHole

\* A new entry lies behind everything that was sent, or in front of it.
LEMMA HoleWrite ==
  ASSUME TypeOK, Places, NoHole, WriteEntry
  PROVE  NoHole'
<1>1. /\ UNCHANGED <<req, received, begin, first, passed>>
      /\ matching' \subseteq matching \cup {last + 1}
      /\ last \in Nat /\ received \in Seq(Nat)
  BY DEF WriteEntry, reader, client, TypeOK
<1>2. SkipsOnce' = SkipsOnce
  BY <1>1 DEF SkipsOnce
<1>3. \A i \in 1 .. Len(received) : received[i] \in Nat /\ received[i] <= last
  BY JournalBounded DEF Places
<1>4. \A a, b \in Nat : a <= last /\ b <= last =>
        /\ Between(a, b)' \subseteq Between(a, b)
        /\ Before(a, b)' = Before(a, b)
  BY <1>1 DEF Between, Before, Shows
<1>5. \A i \in 2 .. Len(received) : i - 1 \in 1 .. Len(received) /\ i \in 1 .. Len(received)
  BY <1>1
<1>6. received # <<>> => 1 \in 1 .. Len(received)
  BY <1>1
<1>7. begin \in Nat /\ begin <= last
  BY DEF TypeOK, Places
<1>8. SUFFICES ASSUME SkipsOnce
               PROVE  NoHole'
  BY <1>2 DEF NoHole
<1>9. ASSUME NEW i \in 2 .. Len(received)
      PROVE  /\ Before(received[i - 1], received[i])'
             /\ \A e \in Between(received[i - 1], received[i])' : e < first \/ e \in passed
  <2>1. /\ Before(received[i - 1], received[i])
        /\ \A e \in Between(received[i - 1], received[i]) : e < first \/ e \in passed
    BY <1>8 DEF NoHole
  <2>2. /\ received[i - 1] \in Nat /\ received[i - 1] <= last
        /\ received[i] \in Nat /\ received[i] <= last
    BY <1>3, <1>5
  <2>3. QED
    BY <1>1, <1>4, <2>1, <2>2
<1>10. ASSUME begin # None, ~req.reverse, req.skipNext = 0, req.skipPrev = 0, received # <<>>
       PROVE  /\ begin < received[1]
              /\ \A e \in Between(begin, received[1])' : e < first \/ e \in passed
  <2>1. /\ begin < received[1]
        /\ \A e \in Between(begin, received[1]) : e < first \/ e \in passed
    BY <1>8, <1>10 DEF NoHole
  <2>2. received[1] \in Nat /\ received[1] <= last
    BY <1>3, <1>6, <1>10
  <2>3. QED
    BY <1>1, <1>4, <1>7, <2>1, <2>2
<1>11. QED
  BY <1>1, <1>9, <1>10 DEF NoHole

\* An entry that is sent and shown.
LEMMA HoleSend ==
  ASSUME TypeOK, Places, NoHole, Joined, NEW e \in matching, Send(e),
         (ReadCurrent /\ e = loc.e) \/ (ReadNext /\ e \in Moves)
  PROVE  NoHole'
<1>1. /\ UNCHANGED <<req, begin, first, passed, matching>>
      /\ received \in Seq(Nat) /\ e \in Nat
      /\ received' = IF Shows(e) THEN Append(received, e) ELSE received
  BY JournalBounded DEF Send, journal, TypeOK
<1>2. CASE ~Shows(e)
  <2>1. TypeOK'
    BY <1>1, TypeSend
  <2>2. first <= first' /\ UNCHANGED received
    BY <1>1, <1>2 DEF TypeOK
  <2>3. QED
    BY <1>1, <2>1, <2>2, HoleKept
<1>3. CASE Shows(e)
  <2>0. SkipsOnce' = SkipsOnce
    BY <1>1 DEF SkipsOnce
  <2>1. SUFFICES ASSUME SkipsOnce
                 PROVE  NoHole'
    BY <2>0 DEF NoHole
  <2>2. \A a, b : Between(a, b)' = Between(a, b) /\ Before(a, b)' = Before(a, b)
    BY <1>1 DEF Between, Before, Shows
  <2>3. Determined => Before(Mark, e) /\ \A k \in Between(Mark, e) : Excused(k)
    BY <1>1, SendsFirst, ShownFirst DEF Joined
  <2>4. received' = Append(received, e)
    BY <1>1, <1>3
  <2>5. ASSUME NEW i \in 2 .. Len(received')
        PROVE  /\ Before(received'[i - 1], received'[i])
               /\ \A k \in Between(received'[i - 1], received'[i]) : k < first \/ k \in passed
    <3>1. CASE i \in 2 .. Len(received)
      <4>1. i \in 1 .. Len(received) /\ i - 1 \in 1 .. Len(received)
        BY <1>1, <3>1
      <4>2. received'[i] = received[i] /\ received'[i - 1] = received[i - 1]
        BY <1>1, <2>4, <4>1, Appended
      <4>3. QED
        BY <2>1, <3>1, <4>2 DEF NoHole
    <3>2. CASE i \notin 2 .. Len(received)
      <4>1. i = Len(received) + 1 /\ i - 1 = Len(received) /\ received # <<>>
            /\ Len(received) \in 1 .. Len(received)
        BY <1>1, <2>4, <2>5, <3>2, Appended
      <4>2. received'[i] = e /\ received'[i - 1] = LastSent
        BY <1>1, <2>4, <4>1, Appended DEF LastSent
      <4>3. Determined /\ Mark = LastSent
        BY <2>1, <4>1 DEF Determined, Mark
      <4>4. QED
        BY <2>3, <4>2, <4>3 DEF Excused
    <3>3. QED
      BY <3>1, <3>2
  <2>6. ASSUME begin # None, ~req.reverse, req.skipNext = 0, req.skipPrev = 0
        PROVE  /\ begin < received'[1]
               /\ \A k \in Between(begin, received'[1]) : k < first \/ k \in passed
    <3>1. CASE received # <<>>
      <4>1. received'[1] = received[1]
        BY <1>1, <2>4, <3>1, Appended, Ended
      <4>2. QED
        BY <2>1, <2>6, <3>1, <4>1 DEF NoHole
    <3>2. CASE received = <<>>
      <4>1. received'[1] = e
        BY <1>1, <2>4, <3>2
      <4>2. ~req.end
        BY <2>6, RequestFields DEF Places
      <4>3. Determined /\ Mark = begin
        BY <2>1, <2>6, <3>2, <4>2 DEF Determined, Tailing, Mark, StartsBehind
      <4>4. QED
        BY <2>3, <2>6, <4>1, <4>3 DEF Excused, Before
    <3>3. QED
      BY <3>1, <3>2
  <2>7. QED
    BY <1>1, <2>2, <2>5, <2>6 DEF NoHole
<1>4. QED
  BY <1>2, <1>3

\* A step that leaves the handle and the client alone.
LEMMA JoinedKept ==
  ASSUME TypeOK, Joined, first \in Nat, first' \in Nat, first <= first',
         UNCHANGED <<matching, passed, req, received, begin, opened, oldest, loc, cursor, n>>
  PROVE  Joined'
<1>1. UNCHANGED <<Determined, Mark, Coming>>
  BY DEF Determined, SkipsOnce, Tailing, Mark, LastSent, StartsBehind, Coming, ReadsCurrent,
         OnEntry, Visible, Readable, Before
<1>2. \A a, b : Before(a, b)' = Before(a, b) /\ Shows(a)' = Shows(a)
  BY DEF Before, Shows
<1>3. \A e \in matching : Excused(e) => Excused(e)'
  BY JournalBounded DEF Excused
<1>4. QED
  BY <1>1, <1>2, <1>3 DEF Joined

\* An entry that is written is to come, unless the reader goes backwards.
LEMMA JoinedWrite ==
  ASSUME TypeOK, Places, Joined, WriteEntry
  PROVE  Joined'
<1>1. /\ UNCHANGED <<first, passed, req, received, begin, opened, oldest, loc, cursor, n>>
      /\ matching \subseteq matching' /\ matching' \subseteq matching \cup {last + 1}
      /\ last \in Nat
  BY DEF WriteEntry, reader, client, TypeOK
<1>2. UNCHANGED <<Determined, Mark, ReadsCurrent>>
  BY <1>1 DEF Determined, SkipsOnce, Tailing, Mark, LastSent, StartsBehind, ReadsCurrent,
              OnEntry
<1>3. \A a, b : /\ Before(a, b)' = Before(a, b) /\ Shows(a)' = Shows(a)
                /\ Excused(a)' = Excused(a)
  BY <1>1 DEF Before, Shows, Excused
<1>4. SUFFICES ASSUME Determined
               PROVE  Joined'
  BY <1>2 DEF Joined
<1>5. /\ loc.kind # "tail" /\ (req.reverse => loc.kind = "on")
      /\ loc.kind \in {"on", "sought"} => Mark = loc.e \/ Before(Mark, loc.e)
      /\ \A e \in Coming : Before(Mark, e)
      /\ \A e \in matching : Shows(e) /\ Before(Mark, e) /\ e \notin Coming => Excused(e)
  BY <1>4 DEF Joined
<1>6. Mark \in Int /\ Mark <= last
  BY MarkBounded
<1>7. loc.kind \in {"on", "sought"} => loc.e \in Nat /\ loc.e <= last
  BY JournalBounded DEF Places
<1>8. /\ Visible \subseteq Visible' /\ Visible' \subseteq Visible \cup {last + 1}
      /\ last + 1 \in matching' => last + 1 \in Visible'
      /\ last + 1 \notin Visible
  <2>1. oldest \in Nat /\ first \in Nat /\ oldest <= first /\ first <= last + 1
    BY DEF TypeOK, Places
  <2>2. last + 1 \notin matching
    BY <1>1, JournalBounded
  <2>3. QED
    BY <1>1, <2>1, <2>2 DEF Visible, Readable
<1>9. loc \in Location
  BY DEF TypeOK
<1>10. CASE req.reverse
  <2>1. loc.kind = "on"
    BY <1>5, <1>10
  <2>2. Coming' = Coming
    <3>1. CASE ReadsCurrent
      BY <1>1, <1>2, <1>7, <1>8, <1>10, <2>1, <3>1 DEF Coming, Before
    <3>2. CASE ~ReadsCurrent
      <4>1. Behind(Visible', loc) = Behind(Visible, loc)
        BY <1>1, <1>7, <1>8, <2>1 DEF Behind
      <4>2. QED
        BY <1>1, <1>2, <1>10, <3>2, <4>1 DEF Coming
    <3>3. QED
      BY <3>1, <3>2
  <2>3. ~Before(Mark, last + 1)
    BY <1>1, <1>6, <1>10 DEF Before
  <2>4. QED
    BY <1>1, <1>2, <1>3, <1>5, <2>2, <2>3 DEF Joined
<1>11. CASE ~req.reverse
  <2>1. Coming \subseteq Coming' /\ Coming' \subseteq Coming \cup {last + 1}
    <3>1. CASE ReadsCurrent
      BY <1>1, <1>2, <1>8, <3>1 DEF Coming, Before
    <3>2. CASE ~ReadsCurrent
      <4>1. Coming = Ahead(Visible, loc) /\ Coming' = Ahead(Visible', loc)
        BY <1>1, <1>2, <1>11, <3>2 DEF Coming
      <4>2. QED
        BY <1>8, <4>1 DEF Ahead
    <3>3. QED
      BY <3>1, <3>2
  <2>2. last + 1 \in matching' => last + 1 \in Coming'
    <3>1. SUFFICES ASSUME last + 1 \in matching'
                   PROVE  last + 1 \in Coming'
      OBVIOUS
    <3>2. last + 1 \in Visible'
      BY <1>8, <3>1
    <3>3. CASE ReadsCurrent
      <4>1. loc.kind = "on" /\ loc.e < last + 1
        BY <1>1, <1>7, <3>3 DEF ReadsCurrent, OnEntry
      <4>2. QED
        BY <1>1, <1>2, <1>11, <3>2, <3>3, <4>1 DEF Coming, Before
    <3>4. CASE ~ReadsCurrent
      <4>1. Coming' = Ahead(Visible', loc)
        BY <1>1, <1>2, <1>11, <3>4 DEF Coming
      <4>2. QED
        BY <1>1, <1>5, <1>7, <1>9, <3>2, <4>1 DEF Ahead, Location
    <3>5. QED
      BY <3>3, <3>4
  <2>3. Before(Mark, last + 1)
    BY <1>1, <1>6, <1>11 DEF Before
  <2>4. QED
    BY <1>1, <1>2, <1>3, <1>5, <2>1, <2>2, <2>3 DEF Joined
<1>12. QED
  BY <1>10, <1>11

\* After an entry is sent.
LEMMA JoinedSend ==
  ASSUME TypeOK, Places, Joined, NEW e \in matching, Send(e),
         (ReadCurrent /\ e = loc.e) \/ (ReadNext /\ e \in Moves)
  PROVE  Joined'
<1>1. e \in Nat /\ received \in Seq(Nat) /\ \A k \in matching : k \in Nat
  BY JournalBounded DEF TypeOK
<1>2. /\ loc'.kind = "on" /\ loc'.e = e
      /\ Coming' = {k \in Visible : Before(e, k)}
      /\ UNCHANGED <<first, matching, passed, req, begin, opened>>
  BY <1>1, ComingAfterSend
<1>3. \A a, b : /\ Before(a, b)' = Before(a, b) /\ Shows(a)' = Shows(a)
                /\ Excused(a)' = Excused(a)
  BY <1>2 DEF Before, Shows, Excused
<1>4. CASE Shows(e)
  <2>1. received' = Append(received, e)
    BY <1>4 DEF Send
  <2>2. received' # <<>> /\ received'[Len(received')] = e
    BY <1>1, <2>1, Appended
  <2>3. Mark' = e
    BY <2>2 DEF Mark, LastSent
  <2>4. ASSUME NEW k \in matching, Before(e, k), k \notin Coming'
        PROVE  Excused(k)
    <3>1. k \notin Visible
      BY <1>2, <2>4
    <3>2. k < oldest
      BY <1>1, <3>1 DEF Visible, Readable, TypeOK
    <3>3. QED
      BY <1>1, <3>2 DEF Excused, Places, TypeOK
  <2>5. QED
    BY <1>2, <1>3, <2>3, <2>4 DEF Joined
<1>5. CASE ~Shows(e)
  <2>1. UNCHANGED received
    BY <1>5 DEF Send
  <2>2. UNCHANGED <<Determined, Mark>>
    BY <1>2, <2>1 DEF Determined, SkipsOnce, Tailing, Mark, LastSent, StartsBehind
  <2>3. SUFFICES ASSUME Determined
                 PROVE  Joined'
    BY <2>2 DEF Joined
  <2>4. e \in Coming /\ \A k \in Coming : k = e \/ Before(e, k)
    BY <1>1, <2>3, SendsFirst DEF Joined
  <2>5. Before(Mark, e)
    BY <2>3, <2>4 DEF Joined
  <2>6. Mark \in Int
    BY MarkBounded
  <2>7. \A k \in Coming' : Before(Mark, k)
    <3>1. \A k \in Coming' : k \in Nat /\ Before(e, k)
      BY <1>1, <1>2 DEF Visible, Readable
    <3>2. QED
      BY <1>1, <2>5, <2>6, <3>1 DEF Before
  <2>8. ASSUME NEW k \in matching, Shows(k), Before(Mark, k), k \notin Coming'
        PROVE  Excused(k)
    <3>1. CASE k \in Coming
      <4>1. k \in Visible
        BY <3>1 DEF Coming, Ahead, Behind
      <4>2. k # e
        BY <1>5, <2>8
      <4>3. QED
        BY <1>2, <2>4, <2>8, <3>1, <4>1, <4>2
    <3>2. CASE k \notin Coming
      BY <2>3, <2>8, <3>2 DEF Joined
    <3>3. QED
      BY <3>1, <3>2
  <2>9. QED
    BY <1>2, <1>3, <2>2, <2>5, <2>7, <2>8 DEF Joined
<1>6. QED
  BY <1>4, <1>5

\* The entries to come when the handle stands on m, forwards.
LEMMA ComingForwards ==
  ASSUME TypeOK', ~req'.reverse, loc'.kind = "on"
  PROVE  Coming' = IF ReadsCurrent' THEN {e \in Visible' : loc'.e <= e}
                                    ELSE {e \in Visible' : loc'.e < e}
<1>1. loc'.e \in Nat /\ matching' \in SUBSET Nat
  BY DEF TypeOK, Location
<1>2. \A e \in Visible' : e \in Nat
  BY <1>1 DEF Visible, Readable
<1>3. CASE ReadsCurrent'
  <2>1. Coming' = {e \in Visible' : e = loc'.e \/ loc'.e < e}
    BY <1>3 DEF Coming, Before
  <2>2. QED
    BY <1>1, <1>2, <1>3, <2>1
<1>4. CASE ~ReadsCurrent'
  <2>1. Coming' = Ahead(Visible', loc')
    BY <1>4 DEF Coming
  <2>2. QED
    BY <1>1, <1>2, <1>4, <2>1 DEF Ahead
<1>5. QED
  BY <1>3, <1>4

\* A client that names a cursor has the entries behind it to come.
LEMMA OpenAtCursor ==
  ASSUME TypeOK, TypeOK', Open, StartCursor # None,
         SkipNextParam = 0, SkipPrevParam = 0, ~req.reverse
  PROVE  /\ loc'.kind = "on" /\ StartCursor <= loc'.e
         /\ \A e \in Coming' : StartCursor < e
         /\ \A e \in matching : StartCursor < e /\ e \notin Coming' => e < first
<1> DEFINE c == StartCursor
<1>1. c \in Nat /\ Found(Readable(first), c)
  BY OpenFacts DEF Open
<1>2. PICK m \in Readable(first) :
             /\ SeekCursor(Readable(first), c) = On(m)
             /\ c <= m
             /\ \A k \in Readable(first) : c <= k => m <= k
  BY <1>1, SeekFacts
<1>3. loc' = On(m)
  BY <1>2, OpenFacts DEF Sought0
<1>4. loc'.kind = "on" /\ loc'.e = m
  BY <1>3 DEF On
<1>5. cursor' = c /\ n' = 0 /\ oldest' = first /\ UNCHANGED <<first, matching, req>>
  BY DEF Open, journal
<1>6. Visible' = Readable(first)
  BY <1>5 DEF Visible, Readable
<1>7. /\ m \in matching /\ m \in Nat /\ m >= first /\ first \in Nat
      /\ \A e \in matching : e \in Nat
  BY JournalBounded DEF Readable, TypeOK
<1>8. ReadsCurrent' <=> m # c
  BY <1>4, <1>5, <1>7 DEF ReadsCurrent, OnEntry
<1>9. Coming' = IF m # c THEN {e \in Readable(first) : m <= e}
                         ELSE {e \in Readable(first) : m < e}
  BY <1>4, <1>5, <1>6, <1>8, ComingForwards
<1>10. \A e \in Readable(first) : e \in Nat
  BY <1>7 DEF Readable
<1>11. \A e \in Coming' : c < e
  BY <1>1, <1>2, <1>7, <1>9, <1>10
<1>12. ASSUME NEW e \in matching, c < e, e \notin Coming'
       PROVE  e < first
  <2>1. e \notin Readable(first)
    BY <1>1, <1>2, <1>7, <1>9, <1>12
  <2>2. QED
    BY <1>7, <2>1 DEF Readable
<1>13. QED
  BY <1>2, <1>4, <1>11, <1>12

\* A handle just opened is joined to what the client has: no readable entry lies
\* between the last one sent and the place where the first Read looks.
LEMMA JoinedOpen ==
  ASSUME TypeOK, TypeOK', Places, History, Open
  PROVE  Joined'
<1>1. /\ ~BadRequest
      /\ cursor' = StartCursor /\ n' = 0 /\ oldest' = first
      /\ UNCHANGED <<first, matching, req, passed>>
  BY DEF Open, journal
<1>2. \A a, b : /\ Before(a, b)' = Before(a, b) /\ Shows(a)' = Shows(a)
                /\ Excused(a)' = Excused(a)
  BY <1>1 DEF Before, Shows, Excused
<1>3. SUFFICES ASSUME Determined'
               PROVE  Joined'
  BY DEF Joined
<1>4. StartCursor \in Nat /\ \A e \in matching : e \in Nat /\ 1 <= e
  BY OpenFacts, JournalBounded
<1>5. CASE Resuming
  <2>1. /\ received' = received /\ received # <<>> /\ StartCursor = LastSent
        /\ StartCursor # None /\ req.stream
    BY <1>5 DEF Open, History, Resuming, StartCursor
  <2>2. ~req.reverse
    BY <1>1, <2>1, StreamsForwards
  <2>3. SkipNextParam = 0 /\ SkipPrevParam = 0
    BY <1>1, <1>3, <1>5, <2>1 DEF Determined, SkipsOnce, SkipNextParam, SkipPrevParam
  <2>4. Mark' = StartCursor
    BY <2>1 DEF Mark, LastSent
  <2>5. /\ loc'.kind = "on" /\ StartCursor <= loc'.e /\ loc'.e \in Nat
        /\ \A e \in Coming' : StartCursor < e
        /\ \A e \in matching : StartCursor < e /\ e \notin Coming' => e < first
    BY <2>1, <2>2, <2>3, OpenAtCursor DEF TypeOK, Location
  <2>6. QED
    BY <1>1, <1>2, <1>4, <2>2, <2>4, <2>5 DEF Joined, Before, Excused
<1>6. CASE ~Resuming
  <2>1. /\ received' = <<>> /\ begin' = req.cursor /\ opened' = Readable(first)
        /\ StartCursor = req.cursor
    BY <1>6 DEF Open, StartCursor
  <2>2. /\ ~req.reverse /\ req.skipNext = 0 /\ req.skipPrev = 0
        /\ req.end => Readable(first) # {}
    BY <1>1, <1>3, <2>1 DEF Determined, Tailing
  <2>3. SkipNextParam = 0 /\ SkipPrevParam = 0
    BY <2>2 DEF SkipNextParam, SkipPrevParam
  <2>4. loc' = Sought0
    BY <2>3, OpenFacts
  <2>5. Mark' = StartsBehind'
    BY <2>1 DEF Mark
  <2>6. Visible' = Readable(first)
    BY <1>1 DEF Visible, Readable
  <2>7. CASE req.cursor # None
    <3>1. ~req.end
      BY <2>7, RequestFields
    <3>2. Mark' = StartCursor
      BY <1>1, <2>1, <2>5, <3>1 DEF StartsBehind
    <3>3. /\ loc'.kind = "on" /\ StartCursor <= loc'.e /\ loc'.e \in Nat
          /\ \A e \in Coming' : StartCursor < e
          /\ \A e \in matching : StartCursor < e /\ e \notin Coming' => e < first
      BY <2>1, <2>2, <2>3, <2>7, OpenAtCursor DEF TypeOK, Location
    <3>4. QED
      BY <1>1, <1>2, <1>4, <2>2, <3>2, <3>3 DEF Joined, Before, Excused
  <2>8. CASE req.cursor = None /\ ~req.end
    <3>1. loc' = AtHead
      BY <2>1, <2>4, <2>8 DEF Sought0
    <3>2. loc'.kind = "head"
      BY <3>1 DEF AtHead
    <3>3. Mark' = 0
      BY <1>1, <2>1, <2>5, <2>8 DEF StartsBehind, None
    <3>4. ~ReadsCurrent'
      BY <3>2 DEF ReadsCurrent, OnEntry
    <3>5. Coming' = Readable(first)
      BY <1>1, <2>2, <2>6, <3>2, <3>4 DEF Coming, Ahead
    <3>6. \A e \in matching : e \notin Readable(first) => e < first
      BY <1>4 DEF Readable, TypeOK
    <3>7. \A e \in Readable(first) : e \in Nat /\ 0 < e
      BY <1>4 DEF Readable
    <3>8. QED
      BY <1>1, <1>2, <2>2, <3>2, <3>3, <3>5, <3>6, <3>7 DEF Joined, Before, Excused
  <2>9. CASE req.cursor = None /\ req.end
    <3> DEFINE V == Readable(first)
               h == Max(V)
    <3>1. PreviousSkip(V, AtTail, 1) = On(h) /\ h \in V /\ \A k \in V : k <= h
      <4>1. V # {} /\ Bounded(V, last)
        BY <2>2, <2>9, JournalBounded
      <4> HIDE DEF V
      <4>2. QED
        BY <4>1, LastEntry
    <3>2. loc' = On(h)
      BY <2>1, <2>4, <2>9, <3>1 DEF Sought0
    <3> HIDE DEF h
    <3>3. loc'.kind = "on" /\ loc'.e = h
      BY <3>2 DEF On
    <3>4. Mark' = h - 1
      BY <1>1, <2>1, <2>2, <2>5, <2>9 DEF StartsBehind, h
    <3>5. h \in Nat /\ 1 <= h /\ h >= first /\ first \in Nat /\ \A k \in V : k \in Nat
      BY <1>4, <3>1 DEF Readable, TypeOK
    <3>6. ReadsCurrent'
      BY <1>1, <2>1, <2>9, <3>3, <3>5 DEF ReadsCurrent, OnEntry, None
    <3>7. Coming' = {e \in V : h <= e}
      BY <1>1, <2>2, <2>6, <3>3, <3>6, ComingForwards
    <3>8. \A e \in matching : e \notin V => e < first
      BY <1>4 DEF Readable, TypeOK
    <3>9. /\ h - 1 < h /\ \A e \in Coming' : h - 1 < e
          /\ \A e \in matching : h - 1 < e /\ e \notin Coming' => e < first
      BY <1>4, <3>5, <3>7, <3>8
    <3>10. QED
      BY <1>1, <1>2, <2>2, <3>3, <3>4, <3>9 DEF Joined, Before, Excused
  <2>10. QED
    BY <2>7, <2>8, <2>9
<1>7. QED
  BY <1>5, <1>6

\* Once Wait reports the change the handle reads only what is still there.
LEMMA JoinedInvalidate ==
  ASSUME TypeOK, TypeOK', Phase, Places, Joined, Invalidate
  PROVE  Joined'
<1>1. /\ pc = "wait" /\ loc.kind = "on" /\ loc.e >= first /\ oldest' = first
      /\ UNCHANGED <<first, matching, req, passed, received, begin, opened, loc, cursor, n>>
  BY DEF Invalidate, OnEntry, journal, client
<1>2. UNCHANGED <<Determined, Mark>>
  BY <1>1 DEF Determined, SkipsOnce, Tailing, Mark, LastSent, StartsBehind
<1>3. \A a, b : /\ Before(a, b)' = Before(a, b) /\ Shows(a)' = Shows(a)
                /\ Excused(a)' = Excused(a)
  BY <1>1 DEF Before, Shows, Excused
<1>4. SUFFICES ASSUME Determined
               PROVE  Joined'
  BY <1>2 DEF Joined
<1>5. /\ loc.e \in Nat /\ oldest \in Nat /\ first \in Nat /\ oldest <= first
      /\ \A e \in matching : e \in Nat
  BY JournalBounded DEF TypeOK, Location, Places
<1>6. ReadsCurrent' = ReadsCurrent
  BY <1>1, <1>5 DEF ReadsCurrent, OnEntry
<1>7. Visible' = {e \in Visible : e >= first}
  BY <1>1, <1>5 DEF Visible, Readable
<1>8. Coming' = {e \in Coming : e >= first}
  BY <1>1, <1>6, <1>7 DEF Coming, Before, Ahead, Behind
<1>9. ASSUME NEW e \in matching, Shows(e), Before(Mark, e), e \notin Coming'
      PROVE  Excused(e)
  <2>1. CASE e \in Coming
    BY <1>5, <1>8, <1>9, <2>1 DEF Excused
  <2>2. CASE e \notin Coming
    BY <1>4, <1>9, <2>2 DEF Joined
  <2>3. QED
    BY <2>1, <2>2
<1>10. /\ req.reverse => loc.kind = "on"
       /\ Mark = loc.e \/ Before(Mark, loc.e)
       /\ \A e \in Coming : Before(Mark, e)
  BY <1>1, <1>4 DEF Joined
<1>11. QED
  BY <1>1, <1>2, <1>3, <1>8, <1>9, <1>10 DEF Joined

\* A reopened handle goes on where the old one stood, or passes the one entry it
\* lands on.
LEMMA JoinedReopen ==
  ASSUME TypeOK, TypeOK', Phase, Places, Joined, Reopen
  PROVE  Joined'
<1> DEFINE V == Readable(first)
<1>1. /\ pc = "reopen" /\ oldest' = first
      /\ UNCHANGED <<first, matching, req, received, begin, opened, cursor, n>>
  BY DEF Reopen, journal, client
<1>2. UNCHANGED <<Determined, Mark>>
  BY <1>1 DEF Determined, SkipsOnce, Tailing, Mark, LastSent, StartsBehind
<1>3. \A a, b : Before(a, b)' = Before(a, b) /\ Shows(a)' = Shows(a)
  BY <1>1 DEF Before, Shows
<1>4. SUFFICES ASSUME Determined
               PROVE  Joined'
  BY <1>2 DEF Joined
<1>5. loc.kind = "on" /\ loc.e = saved
  BY <1>1 DEF Phase, On
<1>6. ~req.reverse
  BY <1>1, StreamsForwards DEF Phase
<1>7. /\ saved \in Nat /\ saved \in matching /\ oldest \in Nat /\ first \in Nat
      /\ oldest <= first /\ \A e \in matching : e \in Nat
  BY <1>5, JournalBounded DEF TypeOK, Places
<1>8. Mark \in Int /\ Mark <= saved
  BY <1>4, <1>5, <1>6, <1>7, MarkBounded DEF Joined, Before
<1>9. /\ \A e \in Coming : Mark < e
      /\ \A e \in matching : Shows(e) /\ Mark < e /\ e \notin Coming => Excused(e)
  BY <1>4, <1>6 DEF Joined, Before
<1>10. /\ \A e \in Coming : e \in matching /\ e >= saved
       /\ saved \in Coming => ReadsCurrent
  <2>1. CASE ReadsCurrent
    <3>1. Coming = {e \in Visible : e = saved \/ saved < e}
      BY <1>5, <1>6, <2>1 DEF Coming, Before
    <3>2. Visible \subseteq matching
      BY DEF Visible, Readable
    <3>3. QED
      BY <1>7, <2>1, <3>1, <3>2
  <2>2. CASE ~ReadsCurrent
    <3>1. Coming = Ahead(Visible, loc)
      BY <1>6, <2>2 DEF Coming
    <3>2. Ahead(Visible, loc) = {e \in Visible : e > saved}
      BY <1>5 DEF Ahead
    <3>3. Visible \subseteq matching
      BY DEF Visible, Readable
    <3>4. Coming = {e \in Visible : e > saved}
      BY <3>1, <3>2
    <3>5. saved \notin Coming
      BY <1>7, <3>4
    <3>6. QED
      BY <1>7, <3>3, <3>4, <3>5
  <2>3. QED
    BY <2>1, <2>2
<1>11. Visible' = V
  BY <1>1 DEF Visible, Readable
<1>12. \A e \in matching : e \in V \/ e < first
  BY <1>7 DEF Readable
<1>13. CASE /\ loc' = Sought(saved)
            /\ ~Found(V, saved)
            /\ passed' = passed
  <2>1. loc'.kind = "sought" /\ loc'.e = saved
    BY <1>13 DEF Sought
  <2>2. Coming' = Ahead(V, Sought(saved))
    BY <1>1, <1>6, <1>11, <1>13, <2>1 DEF Coming, ReadsCurrent, OnEntry
  <2>3. Coming' = {}
    BY <1>13, <2>2 DEF Found
  <2>4. \A e \in V : ~(e >= saved)
    BY <1>13 DEF Found, Ahead, Sought
  <2>5. \A a : Excused(a)' = Excused(a)
    BY <1>1, <1>13 DEF Excused
  <2>6. ASSUME NEW e \in matching, Shows(e), Mark < e
        PROVE  Excused(e)
    <3>1. CASE e \in Coming
      BY <1>10, <1>12, <2>4, <3>1 DEF Excused
    <3>2. CASE e \notin Coming
      BY <1>9, <2>6, <3>2
    <3>3. QED
      BY <3>1, <3>2
  <2>7. QED
    BY <1>1, <1>2, <1>3, <1>6, <1>7, <1>8, <2>1, <2>3, <2>5, <2>6 DEF Joined, Before
<1>14. ASSUME NEW m \in V,
              /\ loc' = On(m)
              /\ saved <= m
              /\ \A k \in V : saved <= k => m <= k
              /\ passed' = passed \cup ({m} \ {saved})
       PROVE  Joined'
  <2>1. loc'.kind = "on" /\ loc'.e = m
    BY <1>14 DEF On
  <2>2. m \in matching /\ m \in Nat /\ m >= first /\ \A e \in V : e \in Nat
    BY <1>7 DEF Readable
  <2>3. Coming' = IF ReadsCurrent' THEN {e \in V : m <= e} ELSE {e \in V : m < e}
    BY <1>1, <1>6, <1>11, <2>1, ComingForwards
  <2>4. m = saved => ReadsCurrent' = ReadsCurrent
    BY <1>1, <1>5, <1>7, <2>1, <2>2 DEF ReadsCurrent, OnEntry
  <2>5. m = saved /\ ReadsCurrent => Mark < m
    <3>1. ReadsCurrent => saved \in Coming
      BY <1>5, <1>7 DEF Coming, ReadsCurrent, OnEntry, Visible, Readable
    <3>2. QED
      BY <1>9, <3>1
  <2>6. \A e \in Coming' : Mark < e
    <3>1. CASE ReadsCurrent'
      <4>1. Mark < m
        <5>1. CASE m = saved
          BY <2>4, <2>5, <3>1, <5>1
        <5>2. CASE m # saved
          BY <1>7, <1>8, <1>14, <2>2, <5>2
        <5>3. QED
          BY <5>1, <5>2
      <4>2. QED
        BY <1>8, <2>2, <2>3, <3>1, <4>1
    <3>2. CASE ~ReadsCurrent'
      BY <1>7, <1>8, <1>14, <2>2, <2>3, <3>2
    <3>3. QED
      BY <3>1, <3>2
  <2>7. ASSUME NEW e \in matching, Shows(e), Mark < e, e \notin Coming'
        PROVE  e < first \/ e \in passed'
    <3>1. CASE e \notin Coming
      BY <1>9, <1>14, <2>7, <3>1 DEF Excused
    <3>2. CASE e \in Coming /\ e \in V
      <4>1. saved <= e
        BY <1>7, <1>10, <3>2
      <4>2. e = m
        BY <1>14, <2>2, <2>3, <2>7, <3>2, <4>1
      <4>3. CASE m # saved
        BY <1>14, <4>2, <4>3
      <4>4. CASE m = saved
        <5>1. ReadsCurrent'
          BY <1>10, <2>4, <3>2, <4>2, <4>4
        <5>2. QED
          BY <2>2, <2>3, <2>7, <4>2, <5>1
      <4>5. QED
        BY <4>3, <4>4
    <3>3. QED
      BY <1>12, <3>1, <3>2
  <2>8. Mark <= m
    BY <1>7, <1>8, <1>14, <2>2
  <2>9. /\ Mark = m \/ Before(Mark, m)
        /\ \A e \in Coming' : Before(Mark, e)
    BY <1>6, <1>8, <2>2, <2>6, <2>8 DEF Before
  <2>10. ASSUME NEW e \in matching, Shows(e), Before(Mark, e), e \notin Coming'
         PROVE  Excused(e)'
    BY <1>1, <1>6, <2>7, <2>10 DEF Before, Excused
  <2>11. QED
    BY <1>1, <1>2, <1>3, <1>6, <2>1, <2>9, <2>10 DEF Joined
<1>15. QED
  BY <1>13, <1>14, ReopenFacts

-----------------------------------------------------------------------------
\* The invariant holds before the first request is opened.
LEMMA InvInit ==
  ASSUME Init
  PROVE  Inv
<1>1. received = <<>> /\ pc = "open"
  BY DEF Init
<1>2. NoHole /\ ~Reading
  BY <1>1 DEF NoHole, Reading
<1>3. QED
  BY <1>2, TypeInit, PhaseInit, PlacesInit, HistoryInit DEF Inv

\* The invariant survives every step. Read and Follow are the steps that need
\* Joined; Open and Reopen are those that establish it.
LEMMA InvStep ==
  ASSUME Inv, [Next]_vars
  PROVE  Inv'
<1> USE DEF journal, reader, client
<1>1. TypeOK' /\ Phase' /\ Places' /\ History'
  BY TypeStep, PhaseStep, PlacesStep, HistoryStep DEF Inv
<1>2. TypeOK /\ first \in Nat /\ first' \in Nat /\ Phase /\ Places /\ History /\ NoHole
  BY <1>1 DEF Inv, TypeOK
<1>3. Reading => Joined
  BY DEF Inv
<1>4. CASE WriteEntry
  <2>1. Reading' => Reading
    BY <1>4 DEF WriteEntry, Reading
  <2>2. QED
    BY <1>1, <1>2, <1>3, <1>4, <2>1, HoleWrite, JoinedWrite DEF Inv
<1>5. CASE Vacuum \/ Ping \/ FollowEOF \/ WaitAgain \/ UNCHANGED vars
  <2>1. /\ UNCHANGED <<matching, passed, req, received, begin, opened, oldest, loc, cursor, n>>
        /\ first <= first' /\ (Reading' => Reading)
    BY <1>2, <1>5 DEF Vacuum, Ping, FollowEOF, WaitAgain, vars, Reading
  <2>2. QED
    BY <1>1, <1>2, <1>3, <2>1, HoleKept, JoinedKept DEF Inv
<1>6. CASE \/ OpenRefused \/ OpenError \/ OpenNotFound \/ ReadEOF \/ ReadError
           \/ InvalidateLost \/ ReopenError \/ Disconnect \/ Reconnect
  <2>1. UNCHANGED <<first, passed, req, received, begin, matching>>
    BY <1>6 DEF OpenRefused, OpenError, OpenNotFound, ReadEOF, ReadError, InvalidateLost,
                ReopenError, Disconnect, Reconnect
  <2>2. ~Reading'
    BY <1>6 DEF OpenRefused, OpenError, OpenNotFound, ReadEOF, ReadError, InvalidateLost,
                ReopenError, Disconnect, Reconnect, Finish, Return, Reading
  <2>3. first <= first'
    BY <1>2, <2>1
  <2>4. QED
    BY <1>1, <1>2, <2>1, <2>2, <2>3, HoleKept DEF Inv
<1>7. CASE Open
  <2>1. NoHole'
    <3>1. CASE Resuming
      <4>1. UNCHANGED <<first, passed, req, received, begin, matching>>
        BY <1>7, <3>1 DEF Open
      <4>2. first <= first'
        BY <1>2, <4>1
      <4>3. QED
        BY <1>1, <1>2, <4>1, <4>2, HoleKept
    <3>2. CASE ~Resuming
      <4>1. received' = <<>>
        BY <1>7, <3>2 DEF Open
      <4>2. QED
        BY <4>1 DEF NoHole
    <3>3. QED
      BY <3>1, <3>2
  <2>2. QED
    BY <1>1, <1>2, <1>7, <2>1, JoinedOpen DEF Inv
<1>8. CASE ReadCurrent \/ ReadNext
  <2>1. Joined
    BY <1>3, <1>8 DEF ReadCurrent, ReadNext, Reading
  <2>2. PICK e \in matching :
               /\ Send(e)
               /\ (ReadCurrent /\ e = loc.e) \/ (ReadNext /\ e \in Moves)
    BY <1>2, <1>8, SentFromJournal
  <2>3. NoHole' /\ Joined'
    BY <1>2, <2>1, <2>2, HoleSend, JoinedSend
  <2>4. QED
    BY <1>1, <2>3 DEF Inv
<1>9. CASE Invalidate
  <2>1. /\ UNCHANGED <<first, passed, req, received, begin, matching>>
        /\ first <= first' /\ Reading
    BY <1>2, <1>9 DEF Invalidate, Reading
  <2>2. QED
    BY <1>1, <1>2, <1>3, <1>9, <2>1, HoleKept, JoinedInvalidate DEF Inv
<1>10. CASE Reopen
  <2>1. /\ UNCHANGED <<first, req, received, begin, matching>>
        /\ first <= first' /\ passed \subseteq passed' /\ Reading
    BY <1>2, <1>10 DEF Reopen, Reading
  <2>2. QED
    BY <1>1, <1>2, <1>3, <1>10, <2>1, HoleKept, JoinedReopen DEF Inv
<1>11. QED
  BY <1>4, <1>5, <1>6, <1>7, <1>8, <1>9, <1>10 DEF Next, OpenReader, Read, Follow

\* So it always holds.
LEMMA InvHolds == Spec => []Inv
BY InvInit, InvStep, PTL DEF Spec

\* Whatever is written, vacuumed, invalidated and reopened, and however often
\* the client comes back with Last-Event-ID: it gets the matching entries in
\* order and each one once, and misses only those Follow cannot help missing.
THEOREM NothingSkipped == Spec => []NoHole
<1>1. Inv => NoHole
  BY DEF Inv
<1>2. QED
  BY <1>1, InvHolds, PTL
=============================================================================
