------------------------ MODULE JournalRequestProofs ------------------------
(***************************************************************************)
(* What a request gets, for every journal, every request and any number of *)
(* reconnections: a tail of the journal (JournalReader implements          *)
(* LogTail), a start where skip_prev says (StartExact), and a range that   *)
(* ends because of its limit or because nothing is left (RangeExact).      *)
(***************************************************************************)
EXTENDS JournalReaderProofs

(***************************************************************************)
(* The refinement: writing an entry is Grow, vacuuming and a reopened      *)
(* handle that landed behind its cursor are Lose, opening without          *)
(* Last-Event-ID is Start, and an entry that is shown is Deliver; every    *)
(* other step is a stutter.                                                *)
(***************************************************************************)
\* What the refinement mapping gives lost, delivered and resumable.
Lost == {e \in Shown : e < first} \cup passed
Delivered0 == IF Tailing THEN received ELSE <<>>
Resumable == Tailing /\ lastEventID # None

\* Steps of LogTail, in terms of the mapping.
LEMMA Mapped ==
  /\ UNCHANGED EntryTail!vars <=>
       UNCHANGED <<Shown, Lost, StartsBehind, Delivered0, Resumable>>
  /\ EntryTail!Grow <=>
       /\ \E new \in Shown' :
            /\ \A old \in Shown : old < new
            /\ Shown' = Shown \cup {new}
       /\ UNCHANGED <<Lost, StartsBehind, Delivered0, Resumable>>
  /\ EntryTail!Lose <=>
       /\ Lost \subseteq Lost'
       /\ UNCHANGED <<Shown, StartsBehind, Delivered0, Resumable>>
  /\ EntryTail!Start <=>
       /\ ~Resumable
       /\ Delivered0' = <<>>
       /\ UNCHANGED <<Shown, Lost, Resumable>>
  /\ EntryTail!Position = IF Delivered0 = <<>> THEN StartsBehind
                          ELSE Delivered0[Len(Delivered0)]
  /\ EntryTail!Deliver <=>
       /\ \E item \in Shown :
            /\ EntryTail!Position < item
            /\ \A between \in Shown :
                 EntryTail!Position < between /\ between < item => between \in Lost
            /\ Delivered0' = Append(Delivered0, item)
       /\ Resumable => Resumable'
       /\ UNCHANGED <<Shown, Lost, StartsBehind>>
BY DEF EntryTail!vars, EntryTail!Grow, EntryTail!Lose, EntryTail!Start, EntryTail!Deliver,
       EntryTail!Position, Lost, Delivered0, Resumable

\* The mapping depends on these variables only.
LEMMA Unmoved ==
  ASSUME UNCHANGED <<first, matching, passed, req, received, lastEventID, begin, opened>>
  PROVE  UNCHANGED <<Shown, Lost, StartsBehind, Delivered0, Resumable, Tailing>>
<1>1. UNCHANGED Shown
  BY DEF Shown, Shows
<1>2. UNCHANGED Tailing
  BY DEF Tailing
<1>3. QED
  BY <1>1, <1>2 DEF Lost, StartsBehind, Delivered0, Resumable

\* An entry that is written grows the log, if it is one to show.
LEMMA WriteMapped ==
  ASSUME TypeOK, Places, WriteEntry
  PROVE  [EntryTail!Next]_(EntryTail!vars)
<1>1. /\ UNCHANGED <<first, passed, req, received, lastEventID, begin, opened>>
      /\ matching' = matching \/ matching' = matching \cup {last + 1}
      /\ last \in Nat /\ first \in Nat /\ first <= last + 1
  BY DEF WriteEntry, reader, client, TypeOK, Places
<1>2. CASE matching' = matching
  BY <1>1, <1>2, Unmoved, Mapped
<1>3. CASE matching' = matching \cup {last + 1}
  <2>1. \A e : Shows(e)' = Shows(e)
    BY <1>1 DEF Shows
  <2>2. Shown' = Shown \cup (IF Shows(last + 1) THEN {last + 1} ELSE {})
    BY <1>3, <2>1 DEF Shown
  <2>3. Lost' = Lost
    BY <1>1, <2>2 DEF Lost
  <2>4. UNCHANGED <<StartsBehind, Tailing>>
    BY <1>1 DEF StartsBehind, Tailing
  <2>5. UNCHANGED <<Delivered0, Resumable>>
    BY <1>1, <2>4 DEF Delivered0, Resumable
  <2>6. CASE Shows(last + 1)
    <3>1. \A old \in Shown : old < last + 1
      BY <1>1, JournalBounded DEF Shown
    <3>2. last + 1 \in Shown' /\ Shown' = Shown \cup {last + 1}
      BY <2>2, <2>6
    <3>3. EntryTail!Grow
      BY <2>3, <2>4, <2>5, <3>1, <3>2, Mapped
    <3>4. QED
      BY <3>3 DEF EntryTail!Next
  <2>7. CASE ~Shows(last + 1)
    BY <2>2, <2>3, <2>4, <2>5, <2>7, Mapped
  <2>8. QED
    BY <2>6, <2>7
<1>4. QED
  BY <1>1, <1>2, <1>3

\* What is vacuumed, or passed over, is lost.
LEMMA LossMapped ==
  ASSUME TypeOK, Vacuum \/ Reopen
  PROVE  EntryTail!Lose
<1>1. /\ UNCHANGED <<matching, req, received, lastEventID, begin, opened>>
      /\ passed \subseteq passed'
      /\ first \in Nat /\ (first' = first \/ first' = first + 1)
  BY DEF Vacuum, Reopen, reader, client, journal, TypeOK
<1>2. UNCHANGED Shown
  BY <1>1 DEF Shown, Shows
<1>3. UNCHANGED <<StartsBehind, Tailing>>
  BY <1>1 DEF StartsBehind, Tailing
<1>4. UNCHANGED <<Delivered0, Resumable>>
  BY <1>1, <1>3 DEF Delivered0, Resumable
<1>5. \A e \in Shown : e \in Nat
  BY JournalBounded DEF Shown
<1>6. Lost \subseteq Lost'
  BY <1>1, <1>2, <1>5 DEF Lost
<1>7. QED
  BY <1>2, <1>3, <1>4, <1>6, Mapped

\* A client without an id starts anew; one that has an id goes on.
LEMMA OpenMapped ==
  ASSUME TypeOK, Open
  PROVE  [EntryTail!Next]_(EntryTail!vars)
<1>1. UNCHANGED <<first, matching, passed, req, lastEventID>>
  BY DEF Open, journal
<1>2. CASE Resuming
  <2>1. UNCHANGED <<received, begin, opened>>
    BY <1>2 DEF Open
  <2>2. QED
    BY <1>1, <2>1, Unmoved, Mapped
<1>3. CASE ~Resuming
  <2>1. received' = <<>>
    BY <1>3 DEF Open
  <2>2. Delivered0' = <<>>
    BY <2>1 DEF Delivered0
  <2>3. ~Resumable /\ ~Resumable' /\ UNCHANGED Resumable
    BY <1>1, <1>3 DEF Resuming, Resumable
  <2>4. UNCHANGED Shown
    BY <1>1 DEF Shown, Shows
  <2>5. UNCHANGED Lost
    BY <1>1, <2>4 DEF Lost
  <2>6. EntryTail!Start
    BY <2>2, <2>3, <2>4, <2>5, Mapped
  <2>7. QED
    BY <2>6 DEF EntryTail!Next
<1>4. QED
  BY <1>2, <1>3

\* An entry that is sent and shown is the next one.
LEMMA SendMapped ==
  ASSUME TypeOK, Places, Joined, NEW e \in matching, Send(e),
         (ReadCurrent /\ e = loc.e) \/ (ReadNext /\ e \in Moves)
  PROVE  [EntryTail!Next]_(EntryTail!vars)
<1>1. /\ UNCHANGED <<first, matching, passed, req, begin, opened>>
      /\ received \in Seq(Nat)
      /\ \A k \in matching : k \in Nat /\ 1 <= k
  BY JournalBounded DEF Send, journal, TypeOK
<1>2. CASE ~Shows(e)
  <2>1. received' = received /\ lastEventID' = lastEventID
    BY <1>2 DEF Send, EventID, Shows
  <2>2. QED
    BY <1>1, <2>1, Unmoved, Mapped
<1>3. UNCHANGED <<StartsBehind, Tailing, Shown, Lost>>
  <2>1. UNCHANGED <<StartsBehind, Tailing, Shown>>
    BY <1>1 DEF StartsBehind, Tailing, Shown, Shows
  <2>2. QED
    BY <1>1, <2>1 DEF Lost
<1>4. CASE Shows(e) /\ ~Tailing
  <2>1. UNCHANGED <<Delivered0, Resumable>>
    BY <1>3, <1>4 DEF Delivered0, Resumable
  <2>2. QED
    BY <1>3, <2>1, Mapped
<1>5. CASE Shows(e) /\ Tailing
  <2>1. received' = Append(received, e)
    BY <1>5 DEF Send
  <2>2. Delivered0 = received /\ Delivered0' = Append(received, e)
    BY <1>3, <1>5, <2>1 DEF Delivered0
  <2>3. EntryTail!Position = Mark
    BY <2>2, Mapped DEF Mark, LastSent
  <2>4. Determined
    BY <1>5 DEF Determined, Tailing, SkipsOnce
  <2>5. Before(Mark, e) /\ \A k \in Between(Mark, e) : Excused(k)
    BY <1>1, <2>4, SendsFirst, ShownFirst DEF Joined
  <2>6. ~req.reverse
    BY <1>5 DEF Tailing
  <2>7. Mark < e
    BY <2>5, <2>6 DEF Before
  <2>8. \A k \in Shown : Mark < k /\ k < e => k \in Lost
    BY <2>5, <2>6 DEF Between, Before, Shown, Excused, Lost
  <2>9. Resumable => Resumable'
    <3>1. lastEventID' = lastEventID \/ lastEventID' = e
      BY DEF Send, EventID
    <3>2. e # None
      BY <1>1 DEF None
    <3>3. QED
      BY <1>3, <3>1, <3>2 DEF Resumable
  <2>10. e \in Shown
    BY <1>5 DEF Shown
  <2>11. EntryTail!Deliver
    BY <1>3, <2>2, <2>3, <2>7, <2>8, <2>9, <2>10, Mapped
  <2>12. QED
    BY <2>11 DEF EntryTail!Next
<1>6. QED
  BY <1>2, <1>4, <1>5

\* Reading forwards without skips, the endpoints implement LogTail: every step of
\* journald, of the handlers and of the client is a step of it or none.
THEOREM JournalImplementsTail == Spec => ImplementsTail
<1>1. Init => EntryTail!Init
  <2>1. ASSUME Init
        PROVE  Delivered0 = <<>> /\ ~Resumable
    BY <2>1 DEF Init, Delivered0, Resumable
  <2>2. QED
    BY <2>1 DEF EntryTail!Init, Delivered0, Resumable
<1>2. ASSUME Inv, [Next]_vars
      PROVE  [EntryTail!Next]_(EntryTail!vars)
  <2> USE DEF journal, reader, client
  <2>1. TypeOK /\ Places /\ (Reading => Joined)
    BY <1>2 DEF Inv
  <2>2. CASE WriteEntry
    BY <2>1, <2>2, WriteMapped
  <2>3. CASE Vacuum \/ Reopen
    BY <2>1, <2>3, LossMapped DEF EntryTail!Next
  <2>4. CASE Open
    BY <2>1, <2>4, OpenMapped
  <2>5. CASE ReadCurrent \/ ReadNext
    <3>1. PICK e \in matching :
                 /\ Send(e)
                 /\ (ReadCurrent /\ e = loc.e) \/ (ReadNext /\ e \in Moves)
      BY <2>1, <2>5, SentFromJournal
    <3>2. Joined
      BY <2>1, <2>5 DEF ReadCurrent, ReadNext, Reading
    <3>3. QED
      BY <2>1, <3>1, <3>2, SendMapped
  <2>6. CASE \/ OpenRefused \/ OpenError \/ OpenNotFound
             \/ Ping \/ ReadEOF \/ FollowEOF \/ ReadError
             \/ WaitAgain \/ Invalidate \/ InvalidateLost \/ ReopenError
             \/ Disconnect \/ Reconnect \/ UNCHANGED vars
    <3>1. UNCHANGED <<first, matching, passed, req, received, lastEventID, begin, opened>>
      BY <2>6 DEF OpenRefused, OpenError, OpenNotFound, Ping, ReadEOF, FollowEOF, ReadError,
                  WaitAgain, Invalidate, InvalidateLost, ReopenError, Disconnect, Reconnect,
                  vars
    <3>2. QED
      BY <3>1, Unmoved, Mapped
  <2>7. QED
    BY <1>2, <2>2, <2>3, <2>4, <2>5, <2>6 DEF Next, OpenReader, Read, Follow
<1>3. QED
  BY <1>1, <1>2, InvHolds, PTL DEF Spec, ImplementsTail, EntryTail!Spec

-----------------------------------------------------------------------------
\* skip_prev has an entry to start with, and everything in front can be shown.
StartsInFront ==
  /\ req.skipPrev > 0 /\ req.skipNext = 0
  /\ InFront # {} /\ \A e \in InFront : Shows(e)

\* The N-th entry in front.
StartEntry(e) ==
  /\ e \in InFront
  /\ Cardinality({k \in InFront : k >= e}) = AtMost(req.skipPrev, InFront)

\* The first entry sent was the N-th.
StartSent ==
  StartsInFront /\ received # <<>> =>
    /\ StartEntry(received[1])
    /\ req.api = "v1" /\ reconnects = 0 => skipped.prev = AtMost(req.skipPrev, InFront)

\* Until something is sent the handle stands where reading is to start.
StartInv ==
  /\ StartSent
  /\ pc = "open" /\ received # <<>> => reconnects > 0
  /\ StartsInFront /\ Reading /\ received = <<>> =>
       /\ pc = "read" /\ n = 0 /\ limit = req.limit
       /\ OnEntry(oldest) /\ loc.e # cursor
       /\ StartEntry(loc.e)
       /\ req.api = "v1" /\ reconnects = 0 => skipped.prev = AtMost(req.skipPrev, InFront)

\* What a range request has counted, and where its handle may stand.
RangeInv ==
  /\ RangeExact
  /\ ~req.stream /\ pc = "open" => received = <<>> /\ passed = {}
  /\ ~req.stream /\ pc = "read" =>
       /\ passed = {}
       /\ \A e \in opened : e >= oldest
       /\ req.limit > 0 => limit + n = req.limit
       /\ Len(received) <= n
       /\ n > 0 => loc.kind = "on"
       /\ n = 0 => /\ cursor = begin
                   /\ loc.kind # "sought"
                   /\ loc.kind = "tail" => opened = {}
                   /\ loc.kind = "head" => begin = None /\ req.skipPrev = 0
                   /\ loc.kind = "on" => loc.e >= oldest

-----------------------------------------------------------------------------
(***************************************************************************)
(* Where skip_prev starts.                                                 *)
(***************************************************************************)
\* InFront, and what is said of it, changes with a fresh start only.
LEMMA FrontKept ==
  ASSUME UNCHANGED <<req, begin, opened>>
  PROVE  /\ UNCHANGED <<InFront, StartsInFront>>
         /\ \A e : StartEntry(e)' = StartEntry(e)
<1>1. UNCHANGED InFront
  BY DEF InFront
<1>2. QED
  BY <1>1 DEF StartsInFront, StartEntry, Shows

\* PreviousSkip from the cursor, or from the tail, ends on the entry wanted.
LEMMA OpenInFront ==
  ASSUME TypeOK, TypeOK', Open, ~Resuming, StartsInFront'
  PROVE  /\ pc' = "read" /\ n' = 0 /\ limit' = req.limit /\ req' = req
         /\ OnEntry(oldest)' /\ loc'.e # cursor'
         /\ StartEntry(loc.e)'
         /\ skipped'.prev = AtMost(req.skipPrev, InFront')
<1> DEFINE V == Readable(first)
           c == req.cursor
           from == SkipPrevFrom(Forth0)
           F == {e \in V : c = None \/ e < c}
<1>1. /\ pc' = "read" /\ n' = 0 /\ limit' = req.limit /\ oldest' = first
      /\ cursor' = c /\ UNCHANGED <<first, matching, req>>
  BY DEF Open, journal, StartCursor
<1>2. begin' = c /\ opened' = V /\ StartCursor = c
  BY DEF Open, StartCursor
<1>3. InFront' = F
  BY <1>1, <1>2 DEF InFront, None
<1>4. /\ req.skipPrev \in Nat /\ req.skipPrev > 0 /\ req.skipNext = 0 /\ F # {}
  BY <1>1, <1>3, RequestFields DEF StartsInFront
<1>5. SkipNextParam = 0 /\ SkipPrevParam = req.skipPrev
  BY <1>4 DEF SkipNextParam, SkipPrevParam
<1>6. /\ Forth0 = Sought0
      /\ loc' = PreviousSkip(V, from, req.skipPrev)
      /\ skipped'.prev = AtMost(req.skipPrev, Behind(V, from))
  <2>1. /\ SkipNextParam = 0 => Forth0 = Sought0
        /\ loc' = IF SkipPrevParam > 0 THEN PreviousSkip(V, from, SkipPrevParam) ELSE Forth0
        /\ skipped' = [next |-> SkippedNext(V, Sought0, SkipNextParam),
                       prev |-> SkippedPrev(V, from, SkipPrevParam)]
    BY OpenFacts
  <2>2. QED
    BY <1>4, <1>5, <2>1 DEF SkippedPrev
<1>7. /\ c \in Nat /\ first \in Nat
      /\ \A e \in V : e \in Nat /\ 1 <= e /\ e >= first
  BY <1>2, OpenFacts, JournalBounded DEF Readable, TypeOK
<1>8. Behind(V, from) = F
  <2>1. CASE c = None
    <3>1. from = AtTail
      BY <1>2, <2>1 DEF SkipPrevFrom
    <3>2. QED
      BY <2>1, <3>1 DEF Behind, AtTail
  <2>2. CASE c # None
    <3>1. Found(V, c)
      BY <1>2, <2>2 DEF Open
    <3>2. PICK m \in V : /\ SeekCursor(V, c) = On(m)
                         /\ c <= m
                         /\ \A k \in V : c <= k => m <= k
      BY <1>7, <3>1, SeekFacts
    <3>3. from = On(m)
      BY <1>2, <1>6, <2>2, <3>2 DEF SkipPrevFrom, Sought0
    <3>4. Behind(V, from) = {e \in V : e < m}
      BY <3>3 DEF Behind, On
    <3>5. QED
      BY <1>7, <2>2, <3>2, <3>4
  <2>3. QED
    BY <2>1, <2>2
<1>9. PICK e \in F :
             /\ loc' = On(e)
             /\ Cardinality({k \in F : k >= e}) = AtMost(req.skipPrev, F)
  <2>1. Bounded(V, last)
    BY JournalBounded
  <2> HIDE DEF V, from, F
  <2>2. QED
    BY <1>4, <1>6, <1>8, <2>1, PreviousSkipFacts
<1>10. loc'.kind = "on" /\ loc'.e = e
  BY <1>9 DEF On
<1>11. e >= first /\ e # c
  BY <1>7 DEF None
<1>12. StartEntry(loc.e)'
  <2>1. InFront' = F /\ req' = req /\ e \in F
    BY <1>1, <1>3
  <2> HIDE DEF F
  <2>2. QED
    BY <1>9, <1>10, <2>1 DEF StartEntry
<1>13. OnEntry(oldest)'
  BY <1>1, <1>10, <1>11 DEF OnEntry
<1>14. QED
  BY <1>1, <1>3, <1>6, <1>8, <1>10, <1>11, <1>12, <1>13

\* Before a request is opened it has no start to be right about.
LEMMA StartInit ==
  ASSUME Init
  PROVE  StartInv
BY DEF Init, StartInv, StartSent, Reading

\* Once the first entry is sent nothing changes where the request started.
LEMMA StartStep ==
  ASSUME Inv, Inv', StartInv, [Next]_vars
  PROVE  StartInv'
<1> USE DEF journal, reader, client
<1>1. TypeOK /\ TypeOK' /\ Phase /\ Places /\ History
  BY DEF Inv
<1>2. /\ received \in Seq(Nat) /\ reconnects \in Nat /\ limit \in Nat
  BY <1>1 DEF TypeOK
<1>3. CASE \/ WriteEntry \/ Vacuum \/ UNCHANGED vars
  <2>1. UNCHANGED <<req, begin, opened, received, skipped, reconnects, pc, n, limit, oldest,
                    loc, cursor>>
    BY <1>3 DEF WriteEntry, Vacuum, vars
  <2>2. QED
    BY <2>1, FrontKept DEF StartInv, StartSent, Reading, OnEntry
<1>4. CASE \/ OpenRefused \/ OpenError \/ OpenNotFound \/ ReadEOF \/ ReadError
           \/ InvalidateLost \/ ReopenError \/ Disconnect
  <2>1. UNCHANGED <<req, begin, opened, received, skipped, reconnects>>
    BY <1>4 DEF OpenRefused, OpenError, OpenNotFound, ReadEOF, ReadError, InvalidateLost,
                ReopenError, Disconnect
  <2>2. pc' \in {"gone", "done"}
    BY <1>4 DEF OpenRefused, OpenError, OpenNotFound, ReadEOF, ReadError, InvalidateLost,
                ReopenError, Disconnect, Finish, Return
  <2>3. QED
    BY <2>1, <2>2, FrontKept DEF StartInv, StartSent, Reading
<1>5. CASE Reconnect
  <2>1. /\ UNCHANGED <<req, begin, opened, received, skipped>>
        /\ pc' = "open" /\ reconnects' > 0
    BY <1>2, <1>5 DEF Reconnect
  <2>2. QED
    BY <2>1, FrontKept DEF StartInv, StartSent, Reading
<1>6. CASE Open
  <2>1. pc = "open" /\ pc' = "read" /\ UNCHANGED <<req, reconnects>>
    BY <1>6 DEF Open
  <2>2. CASE Resuming
    <3>1. UNCHANGED <<begin, opened, received>> /\ received # <<>>
      BY <1>1, <1>6, <2>2 DEF Open, Resuming, History
    <3>2. reconnects # 0
      BY <1>2, <2>1, <3>1 DEF StartInv
    <3>3. QED
      BY <2>1, <3>1, <3>2, FrontKept DEF StartInv, StartSent
  <2>3. CASE ~Resuming
    <3>1. received' = <<>>
      BY <1>6, <2>3 DEF Open
    <3>2. StartsInFront' =>
            /\ n' = 0 /\ limit' = req.limit
            /\ OnEntry(oldest)' /\ loc'.e # cursor'
            /\ StartEntry(loc.e)'
            /\ skipped'.prev = AtMost(req.skipPrev, InFront')
      BY <1>1, <1>6, <2>3, OpenInFront
    <3>3. StartSent'
      BY <3>1 DEF StartSent
    <3>4. QED
      BY <2>1, <3>1, <3>2, <3>3 DEF StartInv
  <2>4. QED
    BY <2>2, <2>3
<1>7. CASE ReadCurrent \/ ReadNext
  <2>1. PICK e \in matching :
               /\ e \in Nat
               /\ Send(e)
               /\ (ReadCurrent /\ e = loc.e) \/ (ReadNext /\ e \in Moves)
    BY <1>1, <1>7, SentFromJournal
  <2>2. /\ UNCHANGED <<req, begin, opened, skipped, reconnects, pc>> /\ pc = "read"
        /\ received' = IF Shows(e) THEN Append(received, e) ELSE received
    BY <1>7, <2>1 DEF ReadCurrent, ReadNext, Send
  <2>3. CASE received # <<>>
    <3>1. received' # <<>> /\ received'[1] = received[1]
      BY <1>2, <2>1, <2>2, <2>3, Appended, Ended
    <3>2. QED
      BY <2>2, <2>3, <3>1, FrontKept DEF StartInv, StartSent
  <2>4. CASE received = <<>> /\ ~StartsInFront
    BY <2>2, <2>4, FrontKept DEF StartInv, StartSent
  <2>5. CASE received = <<>> /\ StartsInFront
    <3>1. /\ n = 0 /\ OnEntry(oldest) /\ loc.e # cursor /\ StartEntry(loc.e)
          /\ req.api = "v1" /\ reconnects = 0 => skipped.prev = AtMost(req.skipPrev, InFront)
      BY <2>2, <2>5 DEF StartInv, Reading
    <3>2. e = loc.e
      BY <2>1, <3>1 DEF ReadNext, ReadsCurrent
    <3>3. StartEntry(e)
      BY <3>1, <3>2
    <3>4. Shows(e)
      BY <2>5, <3>3 DEF StartEntry, StartsInFront
    <3>5. received' # <<>> /\ received'[1] = e
      BY <2>1, <2>2, <2>5, <3>4
    <3>6. StartEntry(received[1])'
      <4>1. StartEntry(e)'
        BY <2>2, <3>3, FrontKept
      <4>2. QED
        BY <3>5, <4>1 DEF StartEntry
    <3>7. QED
      BY <2>2, <3>1, <3>5, <3>6, FrontKept DEF StartInv, StartSent
  <2>6. QED
    BY <2>3, <2>4, <2>5
<1>8. CASE Ping \/ FollowEOF \/ WaitAgain \/ Invalidate \/ Reopen
  <2>1. /\ UNCHANGED <<req, begin, opened, received, skipped, reconnects>>
        /\ pc' # "open" /\ Reading
    BY <1>8 DEF Ping, FollowEOF, WaitAgain, Invalidate, Reopen, Reading
  <2>2. received # <<>> \/ ~StartsInFront
    <3>1. SUFFICES ASSUME received = <<>>, StartsInFront
                   PROVE  FALSE
      OBVIOUS
    <3>2. pc = "read" /\ ReadsCurrent /\ limit = req.limit
      BY <2>1, <3>1 DEF StartInv, ReadsCurrent
    <3>3. ~ReturnsEOF /\ ~AtEnd
      BY <3>2 DEF ReturnsEOF, AtEnd, LimitReached
    <3>4. QED
      BY <1>8, <3>2, <3>3 DEF Ping, FollowEOF, WaitAgain, Invalidate, Reopen
  <2>3. QED
    BY <2>1, <2>2, FrontKept DEF StartInv, StartSent
<1>9. QED
  BY <1>3, <1>4, <1>5, <1>6, <1>7, <1>8 DEF Next, OpenReader, Read, Follow

\* skip_prev=N starts with the N-th entry in front of the cursor or of the tail,
\* or with the oldest, and v1 reports how many it found.
THEOREM StartsRight == Spec => []StartExact
<1>1. Init => StartInv
  BY StartInit
<1>2. Inv /\ Inv' /\ StartInv /\ [Next]_vars => StartInv'
  BY StartStep
<1>3. StartInv => StartExact
  BY DEF StartInv, StartSent, StartExact, StartsInFront, StartEntry
<1>4. QED
  BY <1>1, <1>2, <1>3, InvHolds, PTL DEF Spec

-----------------------------------------------------------------------------
(***************************************************************************)
(* How a range request ends.                                               *)
(***************************************************************************)
LEMMA RangeInit ==
  ASSUME Init
  PROVE  RangeInv
BY DEF Init, RangeInv, RangeExact

\* The options leave the handle at an end only where nothing else was asked for.
LEMMA OpenEnds ==
  ASSUME TypeOK, Open, ~Resuming
  PROVE  /\ loc'.kind # "sought"
         /\ loc'.kind = "tail" => Readable(first) = {}
         /\ loc'.kind = "head" => req.cursor = None /\ req.skipPrev = 0
         /\ loc'.kind = "on" => loc'.e >= first
<1> DEFINE V == Readable(first)
           from == SkipPrevFrom(Forth0)
<1>1. StartCursor = req.cursor /\ SkipPrevParam = req.skipPrev /\ req.skipPrev \in Nat
  BY RequestFields DEF StartCursor, SkipPrevParam
<1>2. /\ Sought0 \in Landings(V) /\ Forth0 \in Landings(V) /\ loc' \in Landings(V)
      /\ SkipNextParam \in Nat
      /\ loc' = IF SkipPrevParam > 0 THEN PreviousSkip(V, from, SkipPrevParam) ELSE Forth0
  BY OpenFacts
<1>3. Bounded(V, last)
  BY JournalBounded
<1>4. /\ loc'.kind # "sought" /\ (loc'.kind = "on" => loc'.e >= first)
      /\ loc'.kind = "tail" => loc' = AtTail
      /\ loc'.kind = "head" => loc' = AtHead
  <2>1. CASE loc' = AtHead
    BY <2>1 DEF AtHead
  <2>2. CASE loc' = AtTail
    BY <2>2 DEF AtTail
  <2>3. CASE \E e \in V : loc' = On(e)
    BY <2>3 DEF On, Readable
  <2>4. QED
    BY <1>2, <2>1, <2>2, <2>3 DEF Landings
<1>5. \A e : On(e) # AtTail /\ On(e) # AtHead /\ AtHead # AtTail
  BY DEF On, AtHead, AtTail
<1>6. /\ Sought0 = AtTail => V = {}
      /\ Sought0 = AtHead => req.cursor = None
      /\ req.cursor # None => \E e \in V : Sought0 = On(e)
  <2>1. CASE req.cursor # None
    <3>1. Found(V, StartCursor) /\ StartCursor \in Nat
      BY <1>1, <2>1, OpenFacts DEF Open
    <3>2. \E m \in V : SeekCursor(V, StartCursor) = On(m)
      BY <3>1, SeekFacts
    <3>3. QED
      BY <1>1, <1>5, <2>1, <3>2 DEF Sought0
  <2>2. CASE req.cursor = None /\ req.end
    <3>1. Sought0 = PreviousSkip(V, AtTail, 1)
      BY <1>1, <2>2 DEF Sought0
    <3>2. V # {} => PreviousSkip(V, AtTail, 1) = On(Max(V))
      <4> HIDE DEF V
      <4>1. QED
        BY <1>3, LastEntry
    <3>3. QED
      BY <1>5, <2>2, <3>1, <3>2
  <2>3. CASE req.cursor = None /\ ~req.end
    BY <1>1, <1>5, <2>3 DEF Sought0
  <2>4. QED
    BY <2>1, <2>2, <2>3
<1>7. Forth0 = Sought0 \/ \E e \in V : Forth0 = On(e)
  <2> HIDE DEF V
  <2>1. QED
    BY <1>2, <1>3, SkipsLand DEF Forth0, V
<1>8. CASE req.skipPrev = 0
  BY <1>1, <1>2, <1>4, <1>5, <1>6, <1>7, <1>8
<1>9. CASE req.skipPrev > 0
  <2>1. loc' = PreviousSkip(V, from, req.skipPrev)
    BY <1>1, <1>2, <1>9
  <2>2. loc' = from \/ \E e \in V : loc' = On(e)
    <3> HIDE DEF V, from
    <3>1. QED
      BY <1>1, <1>3, <2>1, SkipsLand
  <2>3. CASE req.cursor # None
    <3>1. from = Forth0
      BY <1>1, <2>3 DEF SkipPrevFrom
    <3>2. QED
      BY <1>4, <1>5, <1>6, <1>7, <2>2, <2>3, <3>1
  <2>4. CASE req.cursor = None
    <3>1. from = AtTail
      BY <1>1, <2>4 DEF SkipPrevFrom
    <3>2. V # {} => \E e \in V : loc' = On(e)
      <4>1. Behind(V, AtTail) = V
        BY DEF Behind, AtTail
      <4>2. SUFFICES ASSUME V # {}
                     PROVE  \E e \in V : loc' = On(e)
        OBVIOUS
      <4> HIDE DEF V, from
      <4> DEFINE B == Behind(V, AtTail)
      <4>3. PICK e \in B : /\ PreviousSkip(V, AtTail, req.skipPrev) = On(e)
                           /\ Cardinality({k \in B : k >= e}) = AtMost(req.skipPrev, B)
        BY <1>1, <1>3, <1>9, <4>1, <4>2, PreviousSkipFacts
      <4>4. QED
        BY <2>1, <3>1, <4>1, <4>3
    <3>3. QED
      BY <1>4, <1>5, <2>2, <3>1, <3>2
  <2>5. QED
    BY <2>3, <2>4
<1>10. QED
  BY <1>1, <1>8, <1>9

\* At the end of its range a request has its limit, or nothing is left.
LEMMA RangeEnds ==
  ASSUME Inv, RangeInv, ReadEOF
  PROVE  RangeExact'
<1>1. /\ pc = "read" /\ ~req.stream /\ ReturnsEOF
      /\ UNCHANGED <<first, matching, req, received, n, loc, begin, opened>>
  BY DEF ReadEOF, journal, reader, client
<1>2. TypeOK /\ Places /\ Joined
  BY <1>1 DEF Inv, Reading
<1>3. /\ passed = {} /\ (\A e \in opened : e >= oldest)
      /\ req.limit > 0 => limit + n = req.limit
      /\ Len(received) <= n
      /\ n > 0 => loc.kind = "on"
      /\ n = 0 => /\ cursor = begin
                  /\ loc.kind # "sought"
                  /\ loc.kind = "tail" => opened = {}
                  /\ loc.kind = "head" => begin = None /\ req.skipPrev = 0
                  /\ loc.kind = "on" => loc.e >= oldest
  BY <1>1 DEF RangeInv
<1>4. /\ received \in Seq(Nat) /\ Len(received) \in Nat /\ n \in Nat /\ limit \in Nat
      /\ req.limit \in Nat /\ first \in Nat /\ oldest \in Nat /\ oldest <= first
      /\ opened \subseteq matching /\ loc \in Location
      /\ \A e \in matching : e \in Nat /\ 1 <= e
  BY <1>2, RequestFields, JournalBounded DEF TypeOK, Places
<1>5. req.limit > 0 => Len(received) <= req.limit
  BY <1>3, <1>4
<1>6. CASE LimitReached
  <2>1. req.limit > 0 /\ n = req.limit
    BY <1>3, <1>4, <1>6 DEF LimitReached
  <2>2. QED
    BY <1>1, <1>5, <2>1 DEF RangeExact
<1>7. CASE AtEnd
  <2>1. /\ ~ReadsCurrent
        /\ req.reverse => Behind(Visible, loc) = {}
        /\ ~req.reverse => Ahead(Visible, loc) = {}
    BY <1>7 DEF AtEnd, MayEnd, NextMayEnd, PreviousMayEnd
  <2>2. \A e \in matching : e >= oldest => e \in Visible
    BY DEF Visible, Readable
  <2>3. loc.kind = "on" => ~\E e \in Visible : Before(loc.e, e)
    <3>1. \A e \in Visible : e \in Nat
      BY <1>4 DEF Visible, Readable
    <3>2. QED
      BY <1>4, <2>1, <3>1 DEF Before, Ahead, Behind, Location
  <2>4. CASE n > 0
    <3>1. ASSUME NEW e \in Readable(first), Shows(e), Before(LastRead, e)
          PROVE  FALSE
      <4>1. e \in matching /\ ~(e < first) /\ e \in Visible
        BY <1>4, <2>2 DEF Readable
      <4>2. CASE received # <<>>
        <5>1. Determined /\ Mark = LastRead
          BY <1>1, <4>2 DEF Determined, Mark, LastSent, LastRead
        <5>2. e \notin Coming
          BY <2>1 DEF Coming
        <5>3. Excused(e)
          BY <1>2, <3>1, <4>1, <5>1, <5>2 DEF Joined
        <5>4. QED
          BY <1>3, <4>1, <5>3 DEF Excused
      <4>3. CASE received = <<>>
        BY <1>3, <2>3, <2>4, <3>1, <4>1, <4>3 DEF LastRead
      <4>4. QED
        BY <4>2, <4>3
    <3>2. /\ Readable(first)' = Readable(first) /\ LastRead' = LastRead
          /\ \A a, b : Before(a, b)' = Before(a, b) /\ Shows(a)' = Shows(a)
      BY <1>1 DEF Readable, LastRead, Before, Shows
    <3>3. QED
      BY <1>1, <1>5, <2>4, <3>1, <3>2 DEF RangeExact
  <2>5. CASE n = 0
    <3>1. received = <<>>
      BY <1>3, <1>4, <2>5
    <3>2. ASSUME ~req.reverse \/ begin # None \/ req.skipPrev > 0,
                 NEW e \in opened, begin = None \/ Before(begin, e)
          PROVE  FALSE
      <4>1. e \in Visible /\ e \in Nat
        BY <1>3, <1>4, <2>2
      <4>2. loc.kind # "tail" /\ loc.kind # "sought"
        BY <1>3, <2>5, <3>2
      <4>3. CASE loc.kind = "head"
        <5>1. ~req.reverse
          BY <1>3, <2>5, <3>2, <4>3
        <5>2. QED
          BY <2>1, <4>1, <4>3, <5>1 DEF Ahead
      <4>4. CASE loc.kind = "on"
        <5>1. loc.e = begin
          BY <1>3, <2>1, <2>5, <4>4 DEF ReadsCurrent, OnEntry
        <5>2. begin # None
          BY <1>2, <1>4, <4>4, <5>1 DEF Places, None
        <5>3. QED
          BY <2>3, <3>2, <4>1, <4>4, <5>1, <5>2
      <4>5. QED
        BY <1>4, <4>2, <4>3, <4>4 DEF Location
    <3>3. \A a, b : Before(a, b)' = Before(a, b)
      BY <1>1 DEF Before
    <3>4. QED
      BY <1>1, <1>5, <2>5, <3>1, <3>2, <3>3 DEF RangeExact
  <2>6. QED
    BY <1>4, <2>4, <2>5
<1>8. QED
  BY <1>1, <1>6, <1>7 DEF ReturnsEOF

\* The number of entries sent and why a range stops are kept in step by Read.
LEMMA RangeStep ==
  ASSUME Inv, RangeInv, [Next]_vars
  PROVE  RangeInv'
<1> USE DEF journal, reader, client
<1>1. TypeOK /\ Phase /\ Places /\ History
  BY DEF Inv
<1>2. /\ received \in Seq(Nat) /\ Len(received) \in Nat /\ n \in Nat /\ limit \in Nat
      /\ req.limit \in Nat
  BY <1>1, RequestFields DEF TypeOK
<1>3. CASE WriteEntry \/ Vacuum
  <2>1. /\ pc # "done"
        /\ UNCHANGED <<req, pc, received, passed, opened, oldest, limit, n, loc, cursor, begin>>
    BY <1>3 DEF WriteEntry, Vacuum
  <2>2. QED
    BY <2>1 DEF RangeInv, RangeExact
<1>4. CASE UNCHANGED vars
  BY <1>4 DEF vars, RangeInv, RangeExact, Readable, Shows, Before, LastRead
<1>5. CASE \/ OpenRefused \/ OpenError \/ OpenNotFound \/ ReadError
           \/ InvalidateLost \/ ReopenError \/ Disconnect
  <2>1. /\ pc' \in {"gone", "done"}
        /\ pc' = "done" => status' \notin {"ok", "nocontent"}
    BY <1>5 DEF OpenRefused, OpenError, OpenNotFound, ReadError, InvalidateLost, ReopenError,
                Disconnect, Finish, Return
  <2>2. QED
    BY <2>1 DEF RangeInv, RangeExact
<1>6. CASE Reconnect \/ FollowEOF \/ WaitAgain \/ Invalidate \/ Reopen
  <2>1. req.stream /\ req' = req /\ pc' # "done"
    BY <1>1, <1>6 DEF Reconnect, FollowEOF, WaitAgain, Invalidate, Reopen, Phase
  <2>2. QED
    BY <2>1 DEF RangeInv, RangeExact
<1>7. CASE Open
  <2>1. /\ pc = "open" /\ pc' = "read" /\ n' = 0 /\ limit' = req.limit /\ oldest' = first
        /\ cursor' = StartCursor /\ UNCHANGED <<req, passed>>
    BY <1>7 DEF Open
  <2>2. CASE req.stream
    BY <2>1, <2>2 DEF RangeInv, RangeExact
  <2>3. CASE ~req.stream
    <3>1. ~Resuming
      BY <1>1, <2>3 DEF History, Resuming
    <3>2. /\ received' = <<>> /\ begin' = req.cursor /\ opened' = Readable(first)
          /\ cursor' = req.cursor
      BY <1>7, <2>1, <3>1 DEF Open, StartCursor
    <3>3. \A e \in opened' : e >= oldest'
      BY <2>1, <3>2 DEF Readable
    <3>4. /\ loc'.kind # "sought"
          /\ loc'.kind = "tail" => Readable(first) = {}
          /\ loc'.kind = "head" => req.cursor = None /\ req.skipPrev = 0
          /\ loc'.kind = "on" => loc'.e >= first
      BY <1>1, <1>7, <3>1, OpenEnds
    <3>5. passed' = {}
      BY <2>1, <2>3 DEF RangeInv
    <3>6. Len(received') <= n' /\ limit' + n' = req.limit
      BY <1>2, <2>1, <3>2
    <3>7. QED
      BY <2>1, <3>2, <3>3, <3>4, <3>5, <3>6 DEF RangeInv, RangeExact
  <2>4. QED
    BY <2>2, <2>3
<1>8. CASE ReadCurrent \/ ReadNext
  <2>1. PICK e \in matching : e \in Nat /\ Send(e)
    BY <1>1, <1>8, SentFromJournal
  <2>2. /\ pc = "read" /\ ~LimitReached
        /\ UNCHANGED <<req, pc, passed, opened, oldest>>
        /\ n' = n + 1 /\ loc' = On(e) /\ limit' = LimitLeft
        /\ received' = IF Shows(e) THEN Append(received, e) ELSE received
    BY <1>8, <2>1 DEF ReadCurrent, ReadNext, Send
  <2>3. loc'.kind = "on"
    BY <2>2 DEF On
  <2>4. req.limit > 0 => limit' + n' = limit + n
    BY <1>2, <2>2 DEF LimitReached, LimitLeft
  <2>5. Len(received) <= n => Len(received') <= n'
    BY <1>2, <2>1, <2>2, Appended
  <2>6. n' > 0
    BY <1>2, <2>2
  <2>7. QED
    BY <2>2, <2>3, <2>4, <2>5, <2>6 DEF RangeInv, RangeExact
<1>9. CASE Ping
  <2>1. /\ pc = "read"
        /\ UNCHANGED <<req, pc, received, passed, opened, oldest, limit, n, loc, cursor, begin>>
    BY <1>9 DEF Ping
  <2>2. QED
    BY <2>1 DEF RangeInv, RangeExact
<1>10. CASE ReadEOF
  <2>1. pc' = "done"
    BY <1>10 DEF ReadEOF, Finish
  <2>2. QED
    BY <1>10, <2>1, RangeEnds DEF RangeInv
<1>11. QED
  BY <1>3, <1>4, <1>5, <1>6, <1>7, <1>8, <1>9, <1>10 DEF Next, OpenReader, Read, Follow

\* A range request that ends well has sent its limit, or nothing to show was left
\* in its direction when it ended: Limit, the skips and the end Read detects agree.
THEOREM RangeEndsRight == Spec => []RangeExact
<1>1. Init => RangeInv
  BY RangeInit
<1>2. Inv /\ RangeInv /\ [Next]_vars => RangeInv'
  BY RangeStep
<1>3. RangeInv => RangeExact
  BY DEF RangeInv
<1>4. QED
  BY <1>1, <1>2, <1>3, InvHolds, PTL DEF Spec
=============================================================================
