---------------------------- MODULE JournalReader ----------------------------
(***************************************************************************)
(* The journal endpoints: Reader (journal/reader) driven by                *)
(* readJournalHandler (api/v1) or journalHandler (api/v2), the journal     *)
(* that is written, rotated and vacuumed meanwhile, and an SSE client that *)
(* reconnects with Last-Event-ID.                                          *)
(*                                                                         *)
(* Every request opens a handle of its own, so one request and its         *)
(* reconnections are the whole system.  An entry is formatted and sent in  *)
(* one step: io.Copy drains msgReader before it reads the next one.        *)
(***************************************************************************)
EXTENDS Journal, Sequences

CONSTANTS
  MaxEntries,     \* bound on the entries ever written
  MaxReconnects,  \* bound on the reconnections of an SSE client
  Silent,         \* the entries without a MESSAGE field
  Requests        \* the requests a client may open with

None == 0

\* A cursor that validateCursor refuses.
Garbled == -1

\* The terms a request's matches are made of: v2's component name, and the filters
\* (with v1's path variables).
Terms == {"name", "filter"}

\* parses: every parameter is well-formed.  by: the terms to match.  cursor: an
\* entry, None or Garbled; end: v2's cursor=END; a negative skip of v2 is its
\* skipPrev.  stream: v1's /stream/, v2's SSE.  format: the Accept header.
Request == [api : {"v1", "v2"}, parses : BOOLEAN, by : SUBSET Terms,
            cursor : Nat \cup {Garbled}, end : BOOLEAN, skipNext : Nat,
            skipPrev : Nat, limit : Nat, reverse : BOOLEAN, stream : BOOLEAN,
            format : {"text", "json", "sse"}]

\* cursor=END is a value of the cursor parameter; v2 has no read_reverse.
ASSUME JournalReaderAssumption ==
  /\ MaxEntries \in Nat
  /\ MaxReconnects \in Nat
  /\ Silent \subseteq Nat
  /\ Requests \subseteq Request
  /\ \A r \in Requests : r.end => r.cursor = None
  /\ \A r \in Requests : r.api = "v2" => ~r.reverse

VARIABLES
  first, last,    \* the oldest entry on disk, the newest
  matching,       \* the entries the handle's matches accept
  named,          \* those of them the named component wrote (all if none is named)
  req,            \* the request the client opened with
  pc,             \* where the handler is
  status,         \* how it ended: "none" while it runs
  handles,        \* the journal handles this request opened less those it closed
  oldest,         \* the oldest entry the open handle can read
  loc,            \* where it stands
  cursor, limit, n, skipped,    \* Reader's Cursor, Limit, n, Skipped*
  timed,          \* Reader's eofTime has been set
  copied,         \* io.Copy has written something
  saved,          \* Follow's cursor while it reopens the journal
  received,       \* what this client got, in order
  lastEventID,    \* the last SSE id the client saw
  begin,          \* history: the cursor the client's reading started from
  opened,         \* history: the entries to read when it started
  passed,         \* history: where reopening landed behind its cursor
  reconnects

journal == <<first, last, matching, named>>
reader == <<oldest, loc, cursor, limit, n, skipped, timed, copied, saved>>
client == <<received, lastEventID, begin, opened>>
vars == <<first, last, matching, named, req, pc, status, handles, oldest, loc, cursor,
          limit, n, skipped, timed, copied, saved, received, lastEventID, begin,
          opened, passed, reconnects>>

Readable(from) == {e \in matching : e >= from}

\* Whether the matches accept an entry that satisfies these terms: OptionMatchOR
\* ends with a disjunction, so the filters behind it are one more alternative.
Accepts(terms) == req.by = {} \/ req.by \cap terms # {}

-----------------------------------------------------------------------------
Init ==
  /\ last \in 0 .. MaxEntries
  /\ first \in 1 .. last + 1 /\ (last > 0 => first <= last)
  /\ req \in Requests /\ req.cursor <= last
  /\ matching \in SUBSET (1 .. last) /\ (req.by = {} => matching = 1 .. last)
  /\ named \in SUBSET matching /\ (req.by # Terms => named = matching)
  /\ pc = "open" /\ status = "none" /\ handles = 0
  /\ oldest = first /\ loc = AtHead
  /\ cursor = None /\ limit = 0 /\ n = 0 /\ skipped = [next |-> 0, prev |-> 0]
  /\ timed = FALSE /\ copied = FALSE /\ saved = None
  /\ received = <<>> /\ lastEventID = None /\ begin = None
  /\ opened = {} /\ passed = {}
  /\ reconnects = 0

\* journald writes an entry that satisfies some of the terms.
WriteEntry ==
  /\ pc # "done"
  /\ last < MaxEntries
  /\ last' = last + 1
  /\ \E terms \in SUBSET req.by :
       LET new == IF Accepts(terms) THEN {last + 1} ELSE {}
       IN  /\ matching' = matching \cup new
           /\ named' = named \cup (IF "name" \in req.by \ terms THEN {} ELSE new)
  /\ UNCHANGED <<first, req, pc, status, handles, reader, client, passed, reconnects>>

\* Old journal files are removed; an open handle keeps reading them until it
\* processes the change in Wait.
Vacuum ==
  /\ pc # "done"
  /\ first < last
  /\ first' = first + 1
  /\ UNCHANGED <<last, matching, named, req, pc, status, handles, reader, client,
                 passed, reconnects>>

\* The handler's deferred Close.
CloseHandle == handles' = handles - 1

\* A handler that returns; the client of a stream may ask again.
Return(how) ==
  /\ pc' = IF req.stream THEN "gone" ELSE "done"
  /\ status' = how

\* A range request is over, or the request is answered with an HTTP error, from
\* which EventSource does not come back.
Finish(how) ==
  /\ pc' = "done"
  /\ status' = how

-----------------------------------------------------------------------------
(***************************************************************************)
(* NewReader and its options.                                              *)
(***************************************************************************)
\* v1 refuses to stream with limit or read_reverse.
BadRequest ==
  \/ ~req.parses
  \/ req.api = "v1" /\ req.stream /\ (req.limit > 0 \/ req.reverse)

OpenRefused ==
  /\ pc = "open"
  /\ BadRequest
  /\ Finish("bad")
  /\ UNCHANGED <<journal, req, handles, reader, client, passed, reconnects>>

\* NewJournal fails: there is no handle to close.
OpenError ==
  /\ pc = "open"
  /\ ~BadRequest
  /\ Finish("error")
  /\ UNCHANGED <<journal, req, handles, reader, client, passed, reconnects>>

Resuming == lastEventID # None

StartCursor == IF Resuming THEN lastEventID ELSE req.cursor

\* Mutant: v1 keeps skip_prev although the client resumes.
SkipPrevKept == req.skipPrev

\* v1 nulls the skips when the client resumes, v2 does not.
SkipNextParam == IF Resuming /\ req.api = "v1" THEN 0 ELSE req.skipNext
SkipPrevParam == IF Resuming /\ req.api = "v1" THEN 0 ELSE req.skipPrev

\* SeekCursor: the nearest entry at or behind the cursor.  TestCursor of the
\* bindings fails only when there is none.
Found(V, c) == Ahead(V, Sought(c)) # {}
SeekCursor(V, c) == On(Min(Ahead(V, Sought(c))))

\* OptionSeekCursor refuses a cursor that is malformed or not found: NewReader
\* returns its error and nobody closes the handle it opened.
OpenNotFound ==
  /\ pc = "open"
  /\ ~BadRequest
  /\ StartCursor # None
  /\ StartCursor = Garbled \/ ~Found(Readable(first), StartCursor)
  /\ handles' = handles + 1
  /\ Finish("notfound")
  /\ UNCHANGED <<journal, req, reader, client, passed, reconnects>>

\* Mutant: skip_prev counts from the head when there is no cursor.
SkipPrevHere(at) == at

\* SkipPrev moves to the tail first unless a cursor is set.
SkipPrevFrom(at) == IF StartCursor = None THEN AtTail ELSE at

Open ==
  /\ pc = "open"
  /\ ~BadRequest
  /\ StartCursor # Garbled
  /\ StartCursor # None => Found(Readable(first), StartCursor)
  /\ LET V == Readable(first)
         sought == IF StartCursor # None THEN SeekCursor(V, StartCursor)
                   ELSE IF req.end THEN PreviousSkip(V, AtTail, 1)
                   ELSE AtHead
         forth == NextSkip(V, sought, SkipNextParam)
         back == PreviousSkip(V, SkipPrevFrom(forth), SkipPrevParam)
     IN  /\ loc' = IF SkipPrevParam > 0 THEN back ELSE forth
         /\ skipped' = [next |-> SkippedNext(V, sought, SkipNextParam),
                        prev |-> SkippedPrev(V, SkipPrevFrom(forth), SkipPrevParam)]
         /\ IF Resuming
              THEN UNCHANGED <<received, begin, opened>>
              ELSE received' = <<>> /\ begin' = req.cursor /\ opened' = V
  /\ pc' = "read"
  /\ handles' = handles + 1
  /\ oldest' = first
  /\ cursor' = StartCursor
  /\ limit' = req.limit
  /\ n' = 0
  /\ timed' = FALSE /\ copied' = FALSE
  /\ saved' = None
  /\ UNCHANGED <<journal, req, status, lastEventID, passed, reconnects>>

-----------------------------------------------------------------------------
(***************************************************************************)
(* Reader.Read under io.Copy.                                              *)
(***************************************************************************)
Visible == Readable(oldest)

\* GetCursor succeeds on an entry whose file is still there.
OnEntry(from) == loc.kind = "on" /\ loc.e >= from

\* Mutant: the limit is taken for one more entry.
LimitExceeded == req.limit > 0 /\ n > req.limit

\* UseLimit && Limit == 0
LimitReached == req.limit > 0 /\ limit = 0

\* Mutant: Limit is decremented although no limit is used.
LimitUnguarded == limit - 1

LimitLeft == IF req.limit > 0 /\ limit > 0 THEN limit - 1 ELSE limit

\* Mutant: the entry the client named as its cursor is read again.
ReadsAnyCurrent == n = 0 /\ OnEntry(oldest)

\* skipRead: the first entry is the one the handle stands on, unless it is the
\* one the client already has.
ReadsCurrent == n = 0 /\ OnEntry(oldest) /\ loc.e # cursor

Moves == IF req.reverse THEN Previouses(Visible, loc) ELSE Nexts(Visible, loc)

MayEnd == IF req.reverse THEN PreviousMayEnd(Visible, loc)
                         ELSE NextMayEnd(Visible, loc)

\* FormatSSE of a stream puts the entry's cursor in front as its id.
EventID(e) == IF req.stream /\ req.format = "sse" THEN e ELSE lastEventID

\* FormatText makes nothing of an entry without MESSAGE.
Shows(e) == req.format = "text" => e \notin Silent

\* GetEntry, FormatEntry and the write of io.Copy.
Send(e) ==
  /\ loc' = On(e)
  /\ n' = n + 1
  /\ limit' = LimitLeft
  /\ timed' = TRUE /\ copied' = (copied \/ Shows(e))
  /\ received' = IF Shows(e) THEN Append(received, e) ELSE received
  /\ lastEventID' = EventID(e)
  /\ UNCHANGED <<journal, req, pc, status, handles, oldest, cursor, skipped, saved,
                 begin, opened, passed, reconnects>>

ReadCurrent ==
  /\ pc = "read"
  /\ ~LimitReached
  /\ ReadsCurrent
  /\ Send(loc.e)

ReadNext ==
  /\ pc = "read"
  /\ ~LimitReached
  /\ ~ReadsCurrent
  /\ \E e \in Moves : Send(e)

\* Next or Previous returned 0.
AtEnd == ~LimitReached /\ ~ReadsCurrent /\ MayEnd

\* An SSE reader that has been idle for 15 seconds, or never had an entry,
\* sends ": ping".
Ping ==
  /\ pc = "read"
  /\ AtEnd
  /\ req.format = "sse"
  /\ timed' = TRUE /\ copied' = TRUE
  /\ UNCHANGED <<journal, req, pc, status, handles, oldest, loc, cursor, limit, n,
                 skipped, saved, client, passed, reconnects>>

ReturnsEOF == LimitReached \/ (AtEnd /\ (req.format = "sse" => timed))

\* io.EOF ends a range request, with 204 if io.Copy wrote nothing.
ReadEOF ==
  /\ pc = "read"
  /\ ~req.stream
  /\ ReturnsEOF
  /\ CloseHandle
  /\ Finish(IF copied THEN "ok" ELSE "nocontent")
  /\ UNCHANGED <<journal, req, reader, client, passed, reconnects>>

\* io.EOF in Follow: it waits for the journal only if io.Copy wrote nothing;
\* else the handler flushes and calls it again.
FollowEOF ==
  /\ pc = "read"
  /\ req.stream
  /\ ReturnsEOF
  /\ pc' = IF copied THEN "read" ELSE "wait"
  /\ copied' = FALSE
  /\ UNCHANGED <<journal, req, status, handles, oldest, loc, cursor, limit, n, skipped,
                 timed, saved, client, passed, reconnects>>

\* libsystemd fails, or io.Copy cannot write to the client.
ReadError ==
  /\ pc = "read"
  /\ ~LimitReached
  /\ CloseHandle
  /\ Return("error")
  /\ UNCHANGED <<journal, req, reader, client, passed, reconnects>>

-----------------------------------------------------------------------------
(***************************************************************************)
(* Follow behind the bottom of the journal.                                *)
(***************************************************************************)
\* SD_JOURNAL_NOP or SD_JOURNAL_APPEND: the handler calls Follow again.
WaitAgain ==
  /\ pc = "wait"
  /\ oldest = first
  /\ pc' = "read"
  /\ UNCHANGED <<journal, req, status, handles, reader, client, passed, reconnects>>

\* SD_JOURNAL_INVALIDATE, which systemd before v236 also returns without a
\* rotation: Follow notes where it stands.
Invalidate ==
  /\ pc = "wait"
  /\ OnEntry(first)
  /\ oldest' = first
  /\ saved' = loc.e
  /\ pc' = "reopen"
  /\ UNCHANGED <<journal, req, status, handles, loc, cursor, limit, n, skipped, timed,
                 copied, client, passed, reconnects>>

\* GetCursor fails: there is no current entry, or its file was removed.
\* Follow returns the error and the handler closes the stream.
InvalidateLost ==
  /\ pc = "wait"
  /\ ~OnEntry(first)
  /\ oldest' = first
  /\ CloseHandle
  /\ Return("nocursor")
  /\ UNCHANGED <<journal, req, loc, cursor, limit, n, skipped, timed, copied,
                 saved, client, passed, reconnects>>

\* Mutant: the new handle is moved to the last entry.
ReopenAtLast ==
  /\ pc = "reopen"
  /\ oldest' = first
  /\ loc' = PreviousSkip(Readable(first), AtTail, 1)
  /\ saved' = None
  /\ pc' = "read"
  /\ UNCHANGED <<journal, req, status, handles, cursor, limit, n, skipped, timed,
                 copied, client, passed, reconnects>>

\* Mutant: the old handle stays open.
ReopenKeepsHandle == handles' = handles + 1

\* Close and NewJournal.
ReopenHandle == UNCHANGED handles

\* A new handle with the same matches, moved to the saved cursor; an error of
\* SeekCursor is ignored.
Reopen ==
  /\ pc = "reopen"
  /\ oldest' = first
  /\ loc' = IF Found(Readable(first), saved)
              THEN SeekCursor(Readable(first), saved)
              ELSE Sought(saved)
  /\ passed' = passed \cup ({loc'.e} \ {saved})
  /\ saved' = None
  /\ ReopenHandle
  /\ pc' = "read"
  /\ UNCHANGED <<journal, req, status, cursor, limit, n, skipped, timed, copied,
                 client, reconnects>>

\* NewJournal fails: r.Journal is still the handle that was just closed and the
\* deferred Close closes it again, which libsystemd may or may not survive.
ReopenError ==
  /\ pc = "reopen"
  /\ handles' = handles - 2
  /\ pc' \in {"gone", "done"}
  /\ status' = "noreopen"
  /\ UNCHANGED <<journal, req, reader, client, passed, reconnects>>

-----------------------------------------------------------------------------
\* <-notify, between two calls of Follow.
Disconnect ==
  /\ pc = "read"
  /\ req.stream
  /\ pc' = "gone"
  /\ CloseHandle
  /\ UNCHANGED <<journal, req, status, reader, client, passed, reconnects>>

\* The client asks again, with Last-Event-ID if it has one.
Reconnect ==
  /\ pc = "gone"
  /\ reconnects < MaxReconnects
  /\ pc' = "open"
  /\ status' = "none"
  /\ handles' = 0
  /\ reconnects' = reconnects + 1
  /\ UNCHANGED <<journal, req, reader, client, passed>>

OpenReader == OpenRefused \/ OpenError \/ OpenNotFound \/ Open

Read == ReadCurrent \/ ReadNext \/ Ping \/ ReadEOF \/ FollowEOF \/ ReadError

Follow == WaitAgain \/ Invalidate \/ InvalidateLost \/ Reopen \/ ReopenError

Next ==
  \/ WriteEntry
  \/ Vacuum
  \/ OpenReader
  \/ Read
  \/ Follow
  \/ Disconnect
  \/ Reconnect

Spec == Init /\ [][Next]_vars

\* The handler goes on: its loop calls Follow every second, and Wait returns
\* after 100 ms.  Nothing is assumed of journald or of the client.
LiveSpec == Spec /\ WF_vars(OpenReader) /\ WF_vars(Read) /\ WF_vars(Follow)

-----------------------------------------------------------------------------
(***************************************************************************)
(* Properties.                                                             *)
(***************************************************************************)
\* The variables stay in their types: in particular the uint64 Limit is never
\* decremented below zero.
TypeOK ==
  /\ first \in Nat /\ last \in Nat
  /\ matching \in SUBSET (1 .. last) /\ named \in SUBSET matching
  /\ req \in Requests
  /\ pc \in {"open", "read", "wait", "reopen", "gone", "done"}
  /\ status \in {"none", "ok", "nocontent", "bad", "error", "notfound", "nocursor", "noreopen"}
  /\ handles \in Int
  /\ oldest \in Nat
  /\ loc \in Location
  /\ cursor \in Nat
  /\ limit \in Nat
  /\ n \in Nat
  /\ skipped \in [next : Nat, prev : Nat]
  /\ timed \in BOOLEAN /\ copied \in BOOLEAN
  /\ saved \in Nat
  /\ received \in Seq(Nat)
  /\ lastEventID \in Nat
  /\ begin \in Nat
  /\ opened \subseteq matching
  /\ passed \subseteq matching
  /\ reconnects \in Nat

Before(a, b) == IF req.reverse THEN a > b ELSE a < b

Between(a, b) == {e \in matching : Shows(e) /\ Before(a, e) /\ Before(e, b)}

\* v2 applies the skips again when the client resumes.
SkipsOnce == req.api = "v1" \/ (req.skipNext = 0 /\ req.skipPrev = 0)

\* A client gets the entries its filters match in order and each one once, and
\* an entry is left out only if it was vacuumed, or if a reopened handle was
\* placed on it because the entry before it was vacuumed: whatever the writes,
\* rotations, pings, spurious invalidations and reconnections between (skipRead
\* in Read, the cursor Follow saves, and Last-Event-ID as the next cursor).
NoHole ==
  SkipsOnce =>
    /\ \A i \in 2 .. Len(received) :
         /\ Before(received[i - 1], received[i])
         /\ \A e \in Between(received[i - 1], received[i]) : e < first \/ e \in passed
    /\ /\ begin # None /\ ~req.reverse
       /\ req.skipNext = 0 /\ req.skipPrev = 0
       /\ received # <<>>
       => /\ begin < received[1]
          /\ \A e \in Between(begin, received[1]) : e < first \/ e \in passed

\* The entries that were in front of the cursor, or all if there was none.
InFront == {e \in opened : begin = None \/ e < begin}

\* skip_prev=N starts with the N-th entry in front of the cursor (without one,
\* of the tail), or with the oldest if there are fewer, in either direction of
\* reading; and v1's X-Journal-Skip-Prev says how many there were (SkipPrev,
\* and Read's first entry).
StartExact ==
  /\ req.skipPrev > 0 /\ req.skipNext = 0
  /\ received # <<>> /\ InFront # {} /\ \A e \in InFront : Shows(e)
  => /\ received[1] \in InFront
     /\ Cardinality({e \in InFront : e >= received[1]}) = AtMost(req.skipPrev, InFront)
     /\ req.api = "v1" /\ reconnects = 0 => skipped.prev = AtMost(req.skipPrev, InFront)

\* The last entry sent, or the last one that showed nothing.
LastRead == IF received # <<>> THEN received[Len(received)] ELSE loc.e

\* A range request that ended well sent no more than limit entries, and stopped
\* short of reading limit entries only because nothing to show was left in its
\* direction (Limit, EOF detection and the skips agree).
RangeExact ==
  /\ pc = "done" /\ status \in {"ok", "nocontent"}
  => /\ req.limit > 0 => Len(received) <= req.limit
     /\ \/ req.limit > 0 /\ n = req.limit
        \/ /\ n > 0
           /\ ~\E e \in Readable(first) : Shows(e) /\ Before(LastRead, e)
        \/ /\ n = 0 /\ received = <<>>
           /\ ~req.reverse \/ begin # None \/ req.skipPrev > 0
              => ~\E e \in opened : begin = None \/ Before(begin, e)

Delivered(e) == \E i \in 1 .. Len(received) : received[i] = e

\* A stream delivers every entry its filters match that is written behind its
\* position, unless the entry is vacuumed first or the stream ends (the loop
\* over Follow: its waits, its reopenings, its pings).
EventualDelivery ==
  \A e \in 1 .. MaxEntries :
    (/\ pc \in {"read", "wait", "reopen"} /\ req.stream /\ req.limit = 0
     /\ loc.kind # "tail" /\ e \in Ahead(Readable(first), loc) /\ Shows(e))
      ~> (Delivered(e) \/ e < first \/ e \in passed \/ pc \in {"gone", "done"})

\* A running request holds exactly one journal handle through any number of
\* reopenings, and one that is over holds none: every handle is closed once,
\* except where the cursor was refused (never) and where reopening failed (twice).
OneHandle ==
  \/ pc \in {"read", "wait", "reopen"} /\ handles = 1
  \/ pc \in {"open", "gone", "done"} /\ handles = 0
  \/ status = "notfound" /\ handles = 1
  \/ status = "noreopen" /\ handles = -1

-----------------------------------------------------------------------------
(***************************************************************************)
(* The journal endpoints implement a tail of the matching entries.         *)
(***************************************************************************)
Shown == {e \in matching : Shows(e)}

\* cursor=END starts with the last entry there is.
StartsBehind == IF req.end /\ opened # {} THEN Max(opened) - 1 ELSE begin

\* Forwards, without skips, and with an entry to stand on for cursor=END.
Tailing ==
  /\ ~req.reverse /\ req.skipNext = 0 /\ req.skipPrev = 0
  /\ req.end => opened # {}

EntryTail ==
  INSTANCE LogTail WITH
    log <- Shown,
    lost <- {e \in Shown : e < first} \cup passed,
    from <- StartsBehind,
    delivered <- IF Tailing THEN received ELSE <<>>,
    resumable <- Tailing /\ lastEventID # None

\* Reading forwards without skips, every step sends the next entry that is to be
\* shown or none: the two handlers over Read and Follow, with their pings, waits,
\* invalidations, reopened handles and Last-Event-ID, implement LogTail.
ImplementsTail == EntryTail!Spec

-----------------------------------------------------------------------------
(***************************************************************************)
(* What docs and comments say of the endpoints and the code does not do.   *)
(***************************************************************************)
\* readJournalHandler's comment: a client that sends Last-Event-ID does not see
\* duplicate log entries.
NoDuplicates == \A i \in 2 .. Len(received) : received[i - 1] < received[i]

\* Follow's comment: if the cursor is not found the new log is read from the
\* beginning; so only vacuumed entries are left out of a stream.
ReadFromBeginning ==
  \A i \in 2 .. Len(received) :
    \A e \in Between(received[i - 1], received[i]) : e < first

\* swagger.yml: /v2/component/<name> reads the logs of the component named.
NamedOnly == \A i \in 1 .. Len(received) : received[i] \in named
=============================================================================
