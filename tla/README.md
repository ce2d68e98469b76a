# A TLA+ model of dcos-log

dcos-log is an HTTP server that runs on every DC/OS node and serves two kinds of
logs: the systemd journal of the node and the files in the sandboxes of the
tasks that mesos runs there. This directory holds TLA+ specifications of its
two readers, of the handlers that drive them and of the server around them, the
TLC configurations that check them, and TLAPS proofs about them.

## The system

| Component | State | Operations | Model |
|---|---|---|---|
| Task log reader, `mesos/files/reader` | `ReadManager`: offset, buffered lines, skip and limit counters | `NewLineReader`, `calcOffset`, `Read` | `SandboxFile`, `FilesReader` |
| Task log endpoint, `filesAPIHandler` in `api/v2` | none beyond the reader | range loop, stream loop, `Last-Event-ID` | `FilesReader`, set-up in `Server` |
| Journal reader, `journal/reader` | `Reader`: a libsystemd handle, cursor, limit, number of entries read, ping timer | `NewReader` and options, `Read`, `Follow`, `Close` | `Journal`, `JournalReader` |
| Journal endpoints, `readJournalHandler` (v1), `journalHandler` (v2) | none beyond the reader | parameters, range, stream, `Last-Event-ID` | `JournalReader`, set-up of v1 in `Server` |
| Field values, discovery, browse, download | none | one query, redirect or proxied request each | `Routes`, `Server` |
| Auth and request context, `api/middleware` | none | refuse a request or hand it on | `Server` |
| `NodeInfo`, `dcos-go/dcos/nodeutil` | cached IP, cached mesos ID, a mutex | `DetectIP`, `MesosID`, `TaskCanonicalID` | `Server` |
| Routing, `api/routes.go`, `api/v1`, `api/v2` | a table, fixed at start-up | match, redirect | `Routes` |
| Server and configuration | the effective options | `NewConfig`, `StartServer` | `Config`, `Server` |
| Gzip download middleware | none | compress what a handler writes | not modelled |

A request has a goroutine and a reader of its own. Once a reader is set up, what
runs concurrently with it is outside the program: the task that writes its file,
journald that writes, rotates and vacuums the journal, the mesos agent that may
fail or time out, and the client, which goes away and comes back with the id of
the last event it saw. So `FilesReader` and `JournalReader` are one request, its
reconnections and its environment. Up to that point requests share the
`NodeInfo` with its mutex and its caches, and see tasks start and end, the agent
register anew and tokens expire: `Server` has several requests at once and ends
where the readers begin.

Five behaviours are hard:

* **Positions are computed, not stored.** `ReadManager.Read` derives the offset
  of the next chunk from the lengths of the lines it got, and the SSE id a client
  resumes from is computed from a line, not from that offset. Both must agree for
  every position of the newlines relative to the chunks, while the file grows.
* **The reader stands between entries.** Whether the first `Read` of the journal
  moves before it reads depends on how the options left the handle. `Follow`
  moves the reader to another handle in the middle of a stream.
* **Streams must not stop.** Pings, waits, empty chunks, failed requests and
  invalidations all lead back to the same loop.
* **Discovery is not a snapshot.** `discover` looks at two states of mesos, its
  redirect is taken apart by the routing table of the dcos-log of another node,
  at a third time, and what it finds there is a directory whose name is put
  together from a cached mesos ID.
* **One mutex for all.** `DetectIP` holds it while a script runs, `MesosID` gives it
  up between looking at its cache and storing what it fetched.

The properties that make the readers correct: in order, each entry or line once, none
left out; start where the parameters say; end at the limit or the end and not before;
deliver everything in the end; release the handles. Those of the server: valid options
only; the sandbox of a task that was asked for or none; access only with an accepted
token; what is there is found; every request is answered. `PROJECT.json` lists the
hazards one by one.

## Modules

* `SandboxFile` – a file as a size and a set of newline positions, and what
  `ReadManager.read` makes of one answer of the agent, forwards and (for
  `calcOffset`) backwards. Line sums are written telescoped: the lines of a chunk
  tile it. No state.
* `FilesReader` – EXTENDS it with the request. `Open`, `Resume`, `CalcOffset` and
  `OpenError` are `buildOpts` and `NewLineReader`, one step per exchange with the
  agent. `ReadLimit`, `ReadEOF`, `ReadError`, `ReadNoData`, `ReadBuffered`,
  `ReadChunk` are the ways through `Read`, together with what the handler's loop
  does with the result. `Write`, `Disconnect`, `Reconnect` are the environment.
  `asked`, `begin` and `received` are history.
* `Journal` – external: a libsystemd handle as `sdjournal` exposes it. Entries are
  numbered and the number is the cursor. Calling `Next` behind the tail or
  `Previous` before the head is nondeterministic, since libsystemd versions differ.
* `JournalReader` – EXTENDS it with the request and both API versions.
  `OpenRefused`, `OpenError`, `OpenNotFound` and `Open` are the parameters and
  `NewReader` with its options; `ReadCurrent`, `ReadNext`, `Ping`, `ReadEOF`,
  `FollowEOF`, `ReadError` are `Read` under `io.Copy`; `WaitAgain`, `Invalidate`,
  `InvalidateLost`, `Reopen`, `ReopenError` are the rest of `Follow`, split where
  journald can act between two calls. `handles` counts the journal handles a
  request has opened and not closed, `Accepts` is what the matches of a component
  name and of filters amount to in the order they are added, `Shows` leaves out
  what `FormatText` makes nothing of. `WriteEntry`, `Vacuum`, `Disconnect`,
  `Reconnect` are the environment. `begin`, `opened`, `passed`, `received` are
  history.
* `LogTail` – the abstract specification of a tail: the log grows, items may be
  lost, the next item that is not lost is delivered, a client that can say where
  it stopped never starts anew. `FilesReader` and `JournalReader` implement it
  (`ImplementsTail`); the refinement mappings are `LineTail` (items are whole lines,
  none may be lost) and `EntryTail` (items are the entries to be shown, lost are the
  vacuumed ones and those of `journal_reopen`).
* `Config` – `NewConfig`: defaults, flags and file, the schema applied to the file
  and to the result. No state.
* `Routes` – both routing tables in their order, `mux`'s choice, the redirects of
  discovery and the directories that readers and Auth derive from a request. Paths
  are sequences of segments. `RedirectURL` joins variables that `mux` has decoded
  without escaping them, as the code does; `Parsed` is how the next reader takes the
  URL apart, and the constant `Misread` says of the segments that hold a `?`, `#` or
  `%` what they are read back as and whether they end the path. No state.
* `Server` – EXTENDS both: `StartServer` and `StartFails`; `Arrive` and `Follow` (a
  client follows its redirect) with the early returns of middleware and handlers.
  A handler is then the sequence of calls it has left to make, and there is an
  action per call: `MesosIDHit`, `MesosIDMiss`, `DetectIPHit`, `DetectIPRun`,
  `ScriptDone`, `ScriptFails`, `FetchState`, `Store` are `NodeInfo`, split where the
  mutex is taken or given up; `LookUp` is one look-up of `discover`; `Authorize` is
  Auth's request to the agent; `Size`, `Read`, `Browse`, `Download`, `Journal`,
  `Field` are what the handlers do first with their reader; `CallFails` is a call
  that times out or is refused. `ReRegister`, `Launch`, `Run`, `Complete`, `Revoke` are
  mesos. `seen` is history. `nodeutil` is vendored, so it is modelled from its source:
  `Matching` is `findTask`, which finds a task by its name and by any part of its ID
  (`PartOf` says which names occur in which IDs), and `LocalSlave` goes through the
  agents that the state lists (`States`), which may lack the node's or hold a pid
  that is no address.
* `MCFilesReader`, `MCJournalReader`, `MCServer` – the requests, start-up inputs
  and tasks of the runs.
* `NatSets`, `SandboxFileProofs`, `JournalProofs` – lemmas about sets of positions,
  about the arithmetic of `SandboxFile` and about the calls of `Journal`.
* `FilesReaderProofs`, `JournalReaderProofs`, `ServerProofs` – the inductive invariant
  of each component and the theorems that follow from it.
* `FilesRequestProofs`, `JournalRequestProofs` – what one request gets of its reader:
  where it starts, where it ends, and that it implements `LogTail`. Each EXTENDS the
  proofs about its reader.

Definitions whose comment starts with `Mutant` are faulty variants of a definition
after them. Nothing uses them; putting one in the place of the real definition
makes the property named with it in `PROJECT.json` fail.

Abstractions: file content is reduced to newlines and characters are one byte;
the JSON envelope of SSE, log messages, `verbose` and the URL scheme are left out;
the agent's answer is atomic. The file only grows (see the hazards for truncation).
Malformed parameters are requests with `parses = FALSE` or the query `"garbled"`, a
malformed cursor is `Garbled`. In `Server` a token is good, malformed or missing, only
`GET` is used, and any value of a wrong JSON type in the configuration file is `Mistyped`.
IDs that mesos makes of agents need no escapes in a URL, and no variable is `.`, `..` or
holds a slash: `mux` redirects a request to its cleaned path before it looks for a route,
and mesos refuses such IDs. What follows a `?` in a file name sets no option of its own;
escapes that are read back as `.` or `..` (`mux` redirects once more) or that are none
(`%zz`, refused with 400) do not occur.
An SSE client comes back after a closed connection and not after an HTTP error, as
EventSource does. After `ReopenError` a handle is closed twice: the process may or
may not survive, so the client may or may not come back.

## Runs

| Run | Shows |
|---|---|
| `files` | `TypeOK`, `NoGap`, `ExactlyOnce`: a stream loses and repeats nothing over chunk boundaries, partial lines, agent failures and a reconnection. `TailExact`: `cursor=END&skip=-N` starts at the N-th last line when it lies within the last chunk. `RangeExact`: a range that started on a newline returns exactly the lines skip and limit ask for. `ImplementsTail` |
| `files_live` | `EventualDelivery` of completed lines, unless a line comes first that does not fit in a chunk behind the newline before it: the stream stalls there and nowhere else |
| `journal` | `TypeOK`, `NoHole`: entries in order, once, none left out but vacuumed ones (and those of the finding on reopening), for streams and for ranges in either direction. `StartExact`: where `skip_prev` starts. `RangeExact`: where a range ends. `OneHandle`: reopening and reconnecting pile up no handles. `ImplementsTail` |
| `journal_live` | `EventualDelivery` of matching entries |
| `server` | `ServesValid`: only valid options are served with, wherever they come from. `DiscoversRight`: although `discover` looks twice, its answer is right at some moment of the request, if all the time there was one task the name finds, in its name or in a part of its ID. `RightSandbox`: who follows the redirect gets the file it asked for, of a task that the name finds, or nothing, also with a cached mesos ID that is out of date; it is stated for IDs and file names that need no escapes (`Legible`). `TaskAuthorised`: no cache opens a task's log to a client whose token is not accepted. `FoundIfThere`: what is on the disk is served. `LockedForScript`: `NodeInfo`'s mutex is held while the script of `DetectIP` runs, and given back when it fails. `EveryRequestAnswered`: nobody waits for ever for the mutex or for a call, requests for a task's log not even where the timeout is zero and others wait |

The other runs each check a sentence of a doc, comment or test that the code
does not keep; TLC's counterexample is the explanation. They are listed under
"findings" in `PROJECT.json`:

| Run | The code |
|---|---|
| `files_split` | splits the last line of a file's first chunk in overlapping pieces |
| `files_tail` | starts a tail that spans chunks at the wrong line |
| `files_hang` | repeats a request for ever on a chunk without a complete, non-empty line |
| `journal_resume` | v2 applies `skip` again when a client resumes |
| `journal_reopen` | leaves out an entry if the one before it is vacuumed while `Follow` reopens |
| `journal_filter` | returns entries of other components where a component is read with a filter |
| `server_id` | shows the log of the running task web.10 under /v2/task/web.1 when web.1 has completed: `findTask` takes a name for any part of an ID |

Other places where docs and code differ are single steps and need no run:

* `skip_next=100` (README.md:78) starts with the 100th entry and not behind it, as
  TestJournalSkipForward expects too, and `cursor=C&skip_prev=2&limit=2`
  (README.md:80) returns the two entries before C.
* A line longer than the buffer of `io.Copy` is cut, where read_test.go:92 expects
  the bytes of the file.
* A request whose cursor is refused leaves its journal handle open: `NewReader`
  (read.go:37 of the reader) returns the error without closing it, and the handlers
  defer `Close` behind that. read.go:248 says that a close is to release it.
  `OneHandle` has the exact balance.
* A file name with a `?`, `#` or `%` in it is not escaped in the redirect of discovery
  (handlers.go:362 of v2), so that a file of another name is looked for, where
  swagger.yml:248 has "the <filename>".
* An invalidation before the first entry closes a stream, which README.md:7 keeps
  open; an SSE range without a match answers 200 with a ping, not 204
  (README.md:58).
* Discovery of an unknown task answers 500, not the 404 of swagger.yml:236-237, and so
  does that of a task whose ID is a part of another's while both run; a
  download the agent refuses answers 200 with the text of the refusal.
* README.md:67-68 documents a flag `-config-json-schema` that `setFlags` does not
  have.

`NoHole` is stated for v1 and for v2 without skips, `ImplementsTail` for readings
without skips (files: from a newline), `ExactlyOnce` and `RangeExact` for readings that
start on a newline, `TailExact` for tails within a chunk: what they leave out is what
`journal_resume`, `files_split` and `files_tail` show. `FoundIfThere` is stated for an
agent that keeps the ID it had when dcos-log started: with another one dcos-log answers
404 until it is started again, since `cachedMesosID` is never dropped. `DiscoversRight`
is stated for requests in which no call fails and the name finds one task with a
container: else the second look-up may send the client to another, completed task that
the name finds, which `RightSandbox` allows. What both leave out is what `server_id` shows.

**Bounds.** Chunks are 4 bytes and files at most 7: a second chunk, lines that end
before, at and behind its edge, runs of empty lines and all contents at that size;
`BufSize` 2 lets a line be cut. `MaxLine` bounds line lengths; at 4 with files of 6
(`files_live`) some lines fit in a chunk and some do not. Skips of -2..1 and limits of
0..2 fall short of, reach and exceed the lines there are. Journals hold up to 4 entries,
any subset of which matches and any prefix of which is vacuumed; one has no `MESSAGE`.
One reconnection suffices, since a second starts from the same kind of state as the
first; the theorems have no such bound. `server` has two clients with one request and
one redirect each, two for a race on the cache and the mutex; two tasks of one name, one
of them in a pod, the other's ID a part of its ID (web.1 and web.10), so that either
name finds one, both or none as they come and go; a file name that is cut by a `?` (and,
in `server_id`, one that is decoded); two registrations of the agent, the second only
when no task is active, as an agent that recovers its tasks keeps its ID; a token that
is revoked and not granted again; and thirteen start-up inputs, three of which lead to a
server (socket with Auth on an agent, port and no timeout, master). These are 434
thousand states; `server_id` has one client of one agent. Deadlock is not checked: a
finished request does nothing more.

**Fairness.** `LiveSpec` assumes weak fairness of the handler's own steps: its loop
calls `Read` or `Follow` again after at most a second, HTTP requests time out after
3 seconds and `Wait` after 100 ms. In `FilesReader` the fair read excludes
`ReadError`: the agent has to answer now and then. In `Server` a call to mesos or the
agent returns only if a timeout ends it: the configured one unless it is zero, the
5 seconds `setupFilesAPIReader` gives `MesosID` or the 3 of a read; the script of `DetectIP` has a
timeout of its own. Nothing is assumed of the task, mesos, journald or the client.

## Proofs

TLAPS proves these for every value of the constants that the assumptions allow:
every chunk size, file, journal and set of requests, any number of reconnections,
clients, tasks and registrations of the agent.

| Module | Theorem | States |
|---|---|---|
| `FilesReaderProofs` | `TypeCorrect` | `Spec => []TypeOK` |
| | `NothingLost`, `EachLineOnce` | `Spec => []NoGap`, `Spec => []ExactlyOnce` |
| `FilesRequestProofs` | `FilesImplementTail` | `Spec => ImplementsTail` |
| | `RangeReturnsWanted`, `TailStartsRight` | `Spec => []RangeExact`, `Spec => []TailExact` |
| `JournalReaderProofs` | `TypeCorrect` | `Spec => []TypeOK` |
| | `HandlesBalanced`, `NothingSkipped` | `Spec => []OneHandle`, `Spec => []NoHole` |
| `JournalRequestProofs` | `JournalImplementsTail` | `Spec => ImplementsTail` |
| | `StartsRight`, `RangeEndsRight` | `Spec => []StartExact`, `Spec => []RangeExact` |
| `ServerProofs` | `TypeCorrect`, `ServesRight` | `Spec => []TypeOK`, `Spec => []ServesValid` |
| | `AuthorisedOnly`, `DiscoveryRight` | `Spec => []TaskAuthorised`, `Spec => []DiscoversRight` |
| | `WhatIsThereIsFound`, `SandboxRight` | `Spec => []FoundIfThere`, `Spec => []RightSandbox` |
| | `MutexForScript` | `Spec => []LockedForScript` |

**Assumptions.** `ChunkSizeAssumption`: chunks have at least 2 bytes.
`FilesReaderAssumption` and `JournalReaderAssumption`: the bounds are naturals and the
requests are of the type `Request`; for the journal also that a request which seeks the
end has no cursor and that v2 does not read backwards, as its handlers see to, and that
silent entries are entries. `MisreadAssumption`: a segment that is misread is read as at
least one segment, and the words of the routing table are not misread.
`ServerAssumption`: requests and tasks have their types, tasks are finitely many, have
IDs of their own, each of which occurs in itself, and share a container only with tasks
of the same executor, the agent has at least one ID, its IDs need no escapes and
`Nobody` is not a client. Nothing else is assumed of `PartOf` and `Misread`, so the
theorems hold for every set of names, IDs and ways to read a segment. The bounds on
sizes and reconnections are parameters, so the theorems hold for all of them.

**A task's log.** `NoGap` and `ExactlyOnce` speak of lines that were sent, so they say
nothing of the next one and are not inductive. `Inv` adds what holds while reading: the
buffered lines are separate and leave no gap up to `rm.offset` (`BufferOK`), they
continue what was sent (`JoinOK`), and once reading started on a newline `rm.offset` is
always a newline and every buffered line whole (`WholeOK`); and, for a reconnection,
that the SSE id is the end of the last line sent (`History`). The step that fills the
buffer rests on `NextOffsetFacts` (both formulas of `NextOffset` give the end of the
returned lines, or one byte less when the chunk is full and nothing was dropped),
`BufferedFacts` and `BufferedCover` (the lines of a chunk are separate, whole, and cover
it).

* `RangeExact` counts lines. `RangeInv` says that what was passed since the start, taken
  as a set of line ends in the file, is as large as the counters `skipped` and
  `readLines` say (`Counted`), so that the `limit`-th line sent is the one the counters
  stop at. `RankedFromBelow` of `NatSets` says which element of a set a count reaches.
* `TailExact` needs `TailInv`: `calcOffset` stays in its first round (`FirstRound`) as
  long as the tail lies in the last chunk, and what the task writes between the request
  for the size and the one for the chunk does not move the N-th last line of what was
  asked for. `FirstRoundFinds` is that round, by counting from the top of the chunk
  (`NthFromBottom`).
* `ImplementsTail`: a byte that completes a line is `Grow`, setting up without
  `Last-Event-ID` is `Start`, a line that is sent is `Deliver`, every other step a
  stutter. That `Deliver` takes the next line is `WholeOK` with `JoinOK`.

**The journal.** `JournalReaderProofs!Inv` says of a request that is being read that
nothing readable lies between the last entry sent (or the place it started behind) and
the handle but what may be missing (`Joined`): `Coming` are the entries the next calls
reach, `Excused` those vacuumed or lost by a reopening. `Places` bounds handle and
cursor, `History` says that the SSE id is the last entry sent. Where the calls of
libsystemd leave a handle is `JournalProofs`.

* `StartExact` needs `StartInv`: until the first entry is sent the handle stands on the
  N-th matching entry before the place the options seek; from then on the first entry
  sent is that one.
* `RangeExact` needs `RangeInv`: what is left of the limit and the entries read add up to
  the limit that was asked for, and no more were sent than read.
* `ImplementsTail`: writing an entry is `Grow`, vacuuming and a reopened handle that
  landed behind its cursor are `Lose`, opening without `Last-Event-ID` is `Start`, an
  entry that is shown is `Deliver`.

**The server.** `Flow` says of every request which calls its handler may still have to
make (`Planned`: a suffix of what `Calls` gave it, with `MesosID` and `DetectIP` possibly
expanded) and which answers a handler ends with; it implies `TypeOK` and `ServesValid`.
The steps of a handler are seen through `CallEffect`: it goes on with the rest of its
calls, retries, or ends. On top of `Flow`,

* `Allowed`: who is past `Authorize`, or is answered with a task's log, had an accepted
  token since the request arrived;
* `Discovering`: when the second look-up is due, the first would have found the task if
  the name had found an active one all the time;
* `Finding`: while the agent has its first ID every ID in a cache or in a handler is
  that one (`Steady`, `Located`), and what was on the disk stays there (`There`);
* `Sent`: a client that has followed a redirect is at a task that the name it gave finds
  (`Lands`), which no variable remembers. `RedirectShape` gives the segments of the path
  in a redirect, `ReadAsWritten` that they are read back so if none is misread,
  `OnlyReader` that no other route of the table matches them than the one they are meant
  for, whatever the IDs and the file are called, and `RedirectLands` that mux finds in
  them the variables they were made of. `SandboxIs` then uses the assumptions on
  task IDs and containers: of all directories of the agent only the task's own can be
  the one asked for, also when the ID of the node is not the one in the redirect;
* `Locking`: the script is never among the calls behind the next one, so that who holds
  the mutex is about to give it up, whichever way `MesosID` put `DetectIP` in front of
  the calls it found. This is the safety half of `EveryRequestAnswered`.

**Only model-checked.** The liveness properties (`EventualDelivery` of both readers,
`EveryRequestAnswered`), which are out of TLAPS's reach. The runs that expect a violation
show one behaviour each and there is nothing to prove.

## Not modelled

* The gzip middleware: it chooses a file name and compresses what a handler writes;
  no handler sees a difference. Its routes are in `Routes`.
* `OptionSince`, which no handler uses, and the text that `FormatJSON` and `FormatSSE`
  write, but for the id.
* Characters of several bytes. The positions of `FilesReader` are bytes; a chunk that
  breaks a character would make the sums of line lengths differ from positions.
* Truncation of a sandbox file: `ReadManager` keeps nothing that would let it notice.
* Content of the journal's fields (`fieldHandler` answers what libsystemd knows) and
  of the agent's list of files.

## Plan

Done: all modules, runs and refinements above, and a theorem for every invariant and
both refinements that the passing runs check. What the runs check besides is liveness
and stays with TLC. Ideas beyond that, each a model of its own: a sandbox file that is
rotated under a stream, characters of several bytes, and master nodes that answer
discovery from a state that lags behind.
