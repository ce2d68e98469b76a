----------------------------- MODULE FilesReader -----------------------------
(***************************************************************************)
(* The v2 task log endpoint: ReadManager (mesos/files/reader) driven by    *)
(* filesAPIHandler (api/v2/handlers.go), the sandbox file that the task    *)
(* keeps writing, and an SSE client that reconnects with Last-Event-ID.    *)
(*                                                                         *)
(* Every request has a ReadManager of its own, so one request and its      *)
(* reconnections are the whole system.  A step of the reader holds at most *)
(* one HTTP exchange with the mesos agent and takes effect when the agent  *)
(* answers; the task writes between any two steps.                         *)
(***************************************************************************)
EXTENDS SandboxFile, Sequences

CONSTANTS
  BufSize,        \* io.Copy's buffer, the b of Read(b)
  MaxSize,        \* bound on the size of the file
  MaxLine,        \* bound on the length of the lines the task writes
  Requests,       \* the requests a client may open with
  MaxReconnects   \* bound on the reconnections of an SSE client

\* cursor: an offset, or EndCursor for ?cursor=END.  skip, limit: 0 if absent.
EndCursor == -1
None == -1
Request == [cursor : Int, skip : Int, limit : Int, stream : BOOLEAN]

ASSUME FilesReaderAssumption ==
  /\ BufSize \in Nat
  /\ MaxSize \in Nat
  /\ MaxLine \in Nat
  /\ MaxReconnects \in Nat
  /\ Requests \subseteq Request

VARIABLES
  size, nl,       \* the file
  req,            \* the request the client opened with
  pc,             \* where the handler is
  status,         \* how it ended: "none" while it runs
  offset, lines, skipped, readLines,    \* fields of ReadManager
  skip, limit,    \* rm.skip, rm.readLimit
  chunk,          \* calcOffset's offset, length and foundLines
  received,       \* what this client got, in order
  lastEventID,    \* the last SSE id the client saw
  asked,          \* history: the position the client asked to read from
  begin,          \* history: the offset this client's reading started at
  reconnects

file == <<size, nl>>
manager == <<offset, lines, skipped, readLines, skip, limit, chunk>>
client == <<received, lastEventID, asked, begin>>
vars == <<size, nl, req, pc, status, offset, lines, skipped, readLines,
          skip, limit, chunk, received, lastEventID, asked, begin, reconnects>>

-----------------------------------------------------------------------------
Init ==
  /\ size \in 0 .. MaxSize
  /\ nl \in SUBSET (0 .. size - 1)
  /\ \A l \in Split(nl, 0, size) : l.Size <= MaxLine
  /\ req \in Requests
  /\ pc = "setup" /\ status = "none"
  /\ offset = 0 /\ lines = {} /\ skipped = 0 /\ readLines = 0
  /\ skip = 0 /\ limit = 0
  /\ chunk = [offset |-> 0, length |-> 0, found |-> 0]
  /\ received = <<>> /\ lastEventID = None /\ asked = 0 /\ begin = 0
  /\ reconnects = 0

\* The task writes one byte.
Write ==
  /\ pc # "done"
  /\ size < MaxSize
  /\ size' = size + 1
  /\ \/ nl' = nl \cup {size}
     \/ /\ \E l \in Split(nl, 0, size) : LineEnd(l) = size /\ l.Size < MaxLine
        /\ nl' = nl
  /\ UNCHANGED <<req, pc, status, manager, client, reconnects>>

Finish(how) == pc' = "done" /\ status' = how

-----------------------------------------------------------------------------
(***************************************************************************)
(* buildOpts and NewLineReader.  The zero value of every option is what    *)
(* the constructor leaves in the struct.                                   *)
(***************************************************************************)
StartReading(off) ==
  /\ pc' = "read"
  /\ offset' = off
  /\ begin' = off

\* Last-Event-ID: OptOffset alone, the other parameters are ignored.
Resume ==
  /\ pc = "setup"
  /\ lastEventID # None
  /\ pc' = "read"
  /\ offset' = lastEventID
  /\ UNCHANGED <<file, req, status, lines, skipped, readLines, skip, limit,
                 chunk, client, reconnects>>

\* optCursor, optSkip and optLimit; ?cursor=END asks the agent for the size.
Open ==
  /\ pc = "setup"
  /\ lastEventID = None
  /\ LET off == IF req.cursor = EndCursor THEN size ELSE req.cursor
     IN  /\ off >= 0
         /\ skip' = req.skip
         /\ limit' = req.limit
         /\ received' = <<>>
         /\ asked' = off
         /\ IF req.skip < 0        \* BottomToTop
              THEN /\ pc' = "calcOffset"
                   /\ offset' = off
                   /\ chunk' = IF off > ChunkSize
                                 THEN [offset |-> off - ChunkSize,
                                       length |-> ChunkSize, found |-> 0]
                                 ELSE [offset |-> 0, length |-> off, found |-> 0]
                   /\ begin' = begin
              ELSE StartReading(off) /\ chunk' = chunk
  /\ UNCHANGED <<file, req, status, lines, skipped, readLines, lastEventID,
                 reconnects>>

\* OptOffset refuses a negative offset; a failed request ends the set-up.
OpenError ==
  /\ pc \in {"setup", "calcOffset"}
  /\ Finish("error")
  /\ UNCHANGED <<file, req, manager, client, reconnects>>

\* Mutant: no guard against a negative offset.
Unguarded(off) == off

\* NewLineReader's guard against a negative offset.
NonNegative(off) == IF off < 0 THEN 0 ELSE off

\* One round of calcOffset's loop.
CalcOffset ==
  /\ pc = "calcOffset"
  /\ LET lo == chunk.offset
         hi == WindowEnd(size, lo, chunk.length)
         back == ReversedLines(nl, lo, hi)
         above == lo - (ChunkSize - ReversedDelta(nl, lo, hi))
     IN  \/ /\ NoNewData(nl, lo, hi)
            /\ StartReading(NonNegative(offset))
            /\ chunk' = chunk
         \/ /\ ~NoNewData(nl, lo, hi)
            /\ chunk.found + Cardinality(back) >= -skip
            /\ StartReading(NonNegative(offset - Rewind(back, hi, -skip)))
            /\ chunk' = chunk
         \/ /\ ~NoNewData(nl, lo, hi)
            /\ chunk.found + Cardinality(back) < -skip
            /\ above < 0
            /\ StartReading(0)
            /\ chunk' = chunk
         \/ /\ ~NoNewData(nl, lo, hi)
            /\ chunk.found + Cardinality(back) < -skip
            /\ above >= 0
            /\ pc' = pc /\ begin' = begin
            /\ offset' = above
            /\ chunk' = [offset |-> above, length |-> ChunkSize,
                         found |-> chunk.found + Cardinality(back)]
  /\ UNCHANGED <<file, req, status, lines, skipped, readLines, skip, limit,
                 received, lastEventID, asked, reconnects>>

-----------------------------------------------------------------------------
(***************************************************************************)
(* ReadManager.Read under io.Copy and the handler's loop.                  *)
(***************************************************************************)
\* Mutant: one line too many.
LimitExceeded == ~req.stream /\ limit > 0 /\ readLines > limit

LimitReached == ~req.stream /\ limit > 0 /\ readLines = limit

ChunkEnd == WindowEnd(size, offset, ChunkSize)

\* io.EOF for a range request: io.Copy returns nil and so does the handler.
ReadLimit ==
  /\ pc = "read"
  /\ LimitReached
  /\ Finish("ok")
  /\ UNCHANGED <<file, req, manager, client, reconnects>>

\* No data behind rm.offset.  A stream sleeps and asks again.
ReadEOF ==
  /\ pc = "read"
  /\ ~LimitReached
  /\ lines = {}
  /\ NoNewData(nl, offset, ChunkEnd)
  /\ IF req.stream THEN UNCHANGED <<pc, status>> ELSE Finish("ok")
  /\ UNCHANGED <<file, req, manager, client, reconnects>>

\* The agent fails or times out.  A stream logs it and asks again.
ReadError ==
  /\ pc = "read"
  /\ ~LimitReached
  /\ lines = {}
  /\ IF req.stream THEN UNCHANGED <<pc, status>> ELSE Finish("error")
  /\ UNCHANGED <<file, req, manager, client, reconnects>>

\* Mutant: rm.offset moves only when a line was found.
ReadNoDataStays ==
  /\ pc = "read"
  /\ ~LimitReached
  /\ lines = {}
  /\ ~NoNewData(nl, offset, ChunkEnd)
  /\ Buffered(nl, offset, ChunkEnd) = {}
  /\ UNCHANGED vars

\* ErrNoData: only empty lines in the chunk.  Both loops call Read again.
ReadNoData ==
  /\ pc = "read"
  /\ ~LimitReached
  /\ lines = {}
  /\ ~NoNewData(nl, offset, ChunkEnd)
  /\ Buffered(nl, offset, ChunkEnd) = {}
  /\ offset' = NextOffset(nl, offset, ChunkEnd)
  /\ UNCHANGED <<file, req, pc, status, lines, skipped, readLines, skip, limit,
                 chunk, client, reconnects>>

\* Prepend puts later lines in front and Pop takes from the end, so the
\* buffer, filled by one chunk, is emptied in the order of the file.
Pop(buffer) == CHOOSE l \in buffer : \A k \in buffer : l.Offset <= k.Offset

\* strings.NewReader(formatFn(line)).Read(b): what does not fit is dropped.
\* Size + 1 is what LineFormat makes of a line; SSEFormat adds its envelope.
Sent(l) == [Offset |-> l.Offset, Size |-> l.Size, cut |-> l.Size + 1 > BufSize]

\* Mutant: the id is where the line starts.
EventIDAtOffset(l) ==
  IF req.stream /\ l.Offset > 0 /\ l.Size > 0 THEN l.Offset - 1 ELSE lastEventID

\* SSEFormat writes an id for lines that do not start the file.
EventID(l) ==
  IF req.stream /\ l.Offset > 0 /\ l.Size > 0 THEN LineEnd(l) ELSE lastEventID

\* A line is popped and skipped or sent.
Take(l, rest, off) ==
  /\ lines' = rest
  /\ offset' = off
  /\ IF skip > 0 /\ skipped < skip
       THEN /\ skipped' = skipped + 1
            /\ UNCHANGED <<readLines, received, lastEventID>>
       ELSE /\ readLines' = readLines + 1
            /\ received' = Append(received, Sent(l))
            /\ lastEventID' = EventID(l)
            /\ UNCHANGED skipped
  /\ UNCHANGED <<file, req, pc, status, skip, limit, chunk, asked, begin, reconnects>>

ReadBuffered ==
  /\ pc = "read"
  /\ ~LimitReached
  /\ lines # {}
  /\ Take(Pop(lines), lines \ {Pop(lines)}, offset)

ReadChunk ==
  /\ pc = "read"
  /\ ~LimitReached
  /\ lines = {}
  /\ ~NoNewData(nl, offset, ChunkEnd)
  /\ LET new == Buffered(nl, offset, ChunkEnd)
     IN  /\ new # {}
         /\ Take(Pop(new), new \ {Pop(new)}, NextOffset(nl, offset, ChunkEnd))

-----------------------------------------------------------------------------
\* The client goes away: <-notify, or io.Copy fails to write.  The handler
\* returns and its ReadManager is gone; the client of a stream comes back.
Disconnect ==
  /\ pc = "read"
  /\ IF req.stream
       THEN reconnects < MaxReconnects /\ pc' = "gone" /\ status' = status
       ELSE Finish("error")
  /\ UNCHANGED <<file, req, manager, client, reconnects>>

\* The client asks again, with Last-Event-ID if it has one.
Reconnect ==
  /\ pc = "gone"
  /\ pc' = "setup"
  /\ offset' = 0 /\ lines' = {} /\ skipped' = 0 /\ readLines' = 0
  /\ skip' = 0 /\ limit' = 0
  /\ chunk' = [offset |-> 0, length |-> 0, found |-> 0]
  /\ reconnects' = reconnects + 1
  /\ UNCHANGED <<file, req, status, client>>

Read ==
  \/ ReadLimit
  \/ ReadEOF
  \/ ReadError
  \/ ReadNoData
  \/ ReadBuffered
  \/ ReadChunk

Next ==
  \/ Write
  \/ Resume
  \/ Open
  \/ OpenError
  \/ CalcOffset
  \/ Read
  \/ Disconnect
  \/ Reconnect

Spec == Init /\ [][Next]_vars

\* The handler goes on: its loop calls Read again at the latest after a second
\* and the agent answers now and then.  Nothing is assumed of the task, of the
\* client or of the agent's errors.
SetUp == Resume \/ Open \/ CalcOffset

AnsweredRead ==
  \/ ReadLimit
  \/ ReadEOF
  \/ ReadNoData
  \/ ReadBuffered
  \/ ReadChunk

LiveSpec == Spec /\ WF_vars(SetUp) /\ WF_vars(AnsweredRead)

-----------------------------------------------------------------------------
(***************************************************************************)
(* Properties.                                                             *)
(***************************************************************************)
SentLine == [Offset : Nat, Size : Nat, cut : BOOLEAN]

\* The variables stay in their types: in particular rm.offset never becomes
\* negative where a read starts (NewLineReader's guard) and every newline lies
\* inside the file.
TypeOK ==
  /\ size \in Nat
  /\ nl \in SUBSET (0 .. size - 1)
  /\ req \in Requests
  /\ pc \in {"setup", "calcOffset", "read", "gone", "done"}
  /\ status \in {"none", "ok", "error"}
  /\ offset \in Nat
  /\ lines \in SUBSET Line
  /\ skipped \in Nat
  /\ readLines \in Nat
  /\ skip \in Int
  /\ limit \in Int
  /\ chunk \in [offset : Nat, length : Nat, found : Nat]
  /\ received \in Seq(SentLine)
  /\ lastEventID \in Nat \cup {None}
  /\ asked \in Nat
  /\ begin \in Nat
  /\ reconnects \in Nat

OnlyNewlines(lo, hi) == \A p \in lo .. hi - 1 : p \in nl

\* No byte of the file is lost between two lines a client gets, nor between
\* the offset it started at and its first line, whatever the chunk boundaries,
\* the task's writes and the reconnections; and a line starts at most one byte
\* before the end of the line sent before it (the arithmetic of rm.offset in
\* Read, and the SSE id that becomes the next offset).
NoGap ==
  /\ \A i \in 2 .. Len(received) :
       /\ LineEnd(received[i - 1]) - 1 <= received[i].Offset
       /\ OnlyNewlines(LineEnd(received[i - 1]), received[i].Offset)
  /\ req.skip <= 0 /\ received # <<>> =>
       /\ begin <= received[1].Offset
       /\ OnlyNewlines(begin, received[1].Offset)

Whole(l) ==
  /\ l.Size > 0
  /\ l.Offset - 1 \in nl
  /\ LineEnd(l) \in nl
  /\ \A p \in nl : p < l.Offset \/ LineEnd(l) <= p

\* A client whose reading started on a newline, as a Last-Event-ID or a
\* negative skip makes it, gets only whole lines, each one once and in the
\* order of the file, however the task's writes and the client's reconnections
\* fall between the reads (read drops the unfinished last piece, Read steps
\* back over it, SSEFormat's id is the newline behind the line).
ExactlyOnce ==
  begin > 0 /\ begin \in nl =>
    /\ \A i \in 1 .. Len(received) : Whole(received[i])
    /\ \A i \in 2 .. Len(received) :
         /\ LineEnd(received[i - 1]) < received[i].Offset
         /\ OnlyNewlines(LineEnd(received[i - 1]), received[i].Offset)

CompleteLines == {l \in [Offset : begin + 1 .. size, Size : 1 .. size] : Whole(l)}

Rank(l) == Cardinality({k \in CompleteLines : k.Offset <= l.Offset})

Wanted ==
  {l \in CompleteLines : /\ skip > 0 => Rank(l) > skip
                         /\ limit > 0 => Rank(l) <= limit + NonNegative(skip)}

\* A range request that started on a newline and was closed without an error
\* sent exactly the lines its skip and limit ask for, and all of them: Read's
\* end of file, its limit and its skip agree with each other.
RangeExact ==
  pc = "done" /\ status = "ok" /\ begin > 0 /\ begin \in nl =>
    /\ {[Offset |-> received[i].Offset, Size |-> received[i].Size] :
          i \in 1 .. Len(received)} = Wanted
    /\ Len(received) = Cardinality(Wanted)

AskedLines == {l \in Split(nl, 0, asked) : l.Size > 0}

TailStarted ==
  /\ req.cursor = EndCursor /\ req.skip < 0
  /\ pc \in {"read", "gone"} \/ status = "ok"

\* begin is at the edge of a line and -skip of the lines that were in the file
\* lie behind it, or all of them if there were fewer.
TailBegin ==
  /\ \A l \in AskedLines : begin <= l.Offset \/ LineEnd(l) <= begin
  /\ \/ Cardinality({l \in AskedLines : l.Offset >= begin}) = -req.skip
     \/ Cardinality(AskedLines) <= -req.skip /\ begin <= Min({asked} \cup {l.Offset : l \in AskedLines})

TailInReach ==
  \/ asked <= ChunkSize
  \/ Cardinality({l \in AskedLines : l.Offset > asked - ChunkSize}) >= -req.skip

\* ?cursor=END&skip=-N starts at the N-th line from the end (calcOffset), when
\* the last chunk of the file holds N line starts or the file fits in a chunk,
\* also when the task writes between the request for the size and the read.
TailExact == TailStarted /\ TailInReach => TailBegin

\* The complete lines of the file, each known by its first byte.
WholeLines == {p \in 1 .. size : p \notin nl /\ p - 1 \in nl /\ \E q \in nl : p < q}

\* The reading started on a newline and skips nothing.
Tailing == begin > 0 /\ begin \in nl /\ req.skip <= 0

\* A chunk that starts on a newline holds the line at p and the newline behind it.
FitsInChunk(p) == \E q \in nl : p < q /\ q - p <= ChunkSize - 2

\* A stream that started on a newline delivers every line the task completes,
\* unless the client goes away or a line that does not fit in a chunk lies
\* between, which read takes for unfinished every time (the loop of
\* filesAPIHandler over io.Copy and Read).
EventualDelivery ==
  \A pos \in 1 .. MaxSize :
    (/\ pc = "read" /\ req.stream /\ Tailing /\ begin < pos
     /\ pos \in WholeLines
     /\ \A p \in WholeLines : begin < p /\ p <= pos => FitsInChunk(p))
      ~> (pc = "gone" \/ \E i \in 1 .. Len(received) : received[i].Offset = pos)

-----------------------------------------------------------------------------
(***************************************************************************)
(* The task log endpoint implements a tail of the file's whole lines.      *)
(***************************************************************************)
LineTail ==
  INSTANCE LogTail WITH
    log <- WholeLines,
    lost <- {},
    from <- begin,
    delivered <- IF Tailing
                   THEN [i \in 1 .. Len(received) |-> received[i].Offset]
                   ELSE <<>>,
    resumable <- Tailing /\ lastEventID # None

\* Reading from a newline, by range or by stream and without a positive skip,
\* every step sends the next whole line of the file or none: filesAPIHandler over
\* ReadManager.Read, its chunks, the lines it buffers, the ones it leaves
\* unfinished, its errors and the id it resumes from implement LogTail.
ImplementsTail == LineTail!Spec

-----------------------------------------------------------------------------
(***************************************************************************)
(* What docs and tests say of the endpoint and the code does not do.       *)
(***************************************************************************)
\* TestRangeRead: reading a file from its start returns its bytes, none twice.
RangeFromStart ==
  asked = 0 /\ ~req.stream =>
    \A i \in 2 .. Len(received) : LineEnd(received[i - 1]) <= received[i].Offset

\* OptStream: only a stream keeps the connection open.
RangeCloses == ~req.stream ~> pc = "done"

\* swagger.yml, skip: a negative N moves N lines back from the cursor.
TailAlways == TailStarted => TailBegin
=============================================================================
