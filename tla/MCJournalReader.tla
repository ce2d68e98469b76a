--------------------------- MODULE MCJournalReader ---------------------------
(***************************************************************************)
(* Requests for the model checker.  Skips and limits of up to two against  *)
(* journals of up to four entries reach beyond the top, beyond the bottom  *)
(* and neither.                                                            *)
(***************************************************************************)
EXTENDS JournalReader

RequestsOf(api, cursors, skipsNext, skipsPrev, limits, reverse, stream, formats) ==
  [api : {api}, parses : {TRUE}, by : {{"filter"}}, cursor : cursors, end : {FALSE},
   skipNext : skipsNext, skipPrev : skipsPrev, limit : limits, reverse : reverse,
   stream : {stream}, format : formats]

EndRequests(limits, stream, format) ==
  [api : {"v2"}, parses : {TRUE}, by : {{"filter"}}, cursor : {None}, end : {TRUE},
   skipNext : {0}, skipPrev : {0, 2}, limit : limits, reverse : {FALSE},
   stream : {stream}, format : {format}]

\* v2's SSE stream of a component.
ComponentRequests(by) ==
  [api : {"v2"}, parses : BOOLEAN, by : by, cursor : {None}, end : {FALSE},
   skipNext : {0}, skipPrev : {0}, limit : {0}, reverse : {FALSE}, stream : {TRUE},
   format : {"sse"}]

\* The second line holds the requests v1 refuses.
StreamRequests ==
  UNION {RequestsOf("v1", {None, 2}, {0, 1}, {0, 1}, {0}, {FALSE}, TRUE, {"text", "sse"}),
         RequestsOf("v1", {None}, {0}, {0}, {0, 1}, BOOLEAN, TRUE, {"sse"}),
         RequestsOf("v2", {None, 1, Garbled}, {0}, {0}, {0, 1}, {FALSE}, TRUE, {"sse"}),
         EndRequests({0}, TRUE, "sse"),
         ComponentRequests({{}, Terms})}

RangeRequests ==
  UNION {RequestsOf("v1", {None, 1, 2, 3}, {0, 1, 2}, {0, 1, 2}, {0, 1, 2},
                    BOOLEAN, FALSE, {"text", "sse"}),
         RequestsOf("v1", {None, 2}, {0}, {0, 1}, {0, 1}, BOOLEAN, FALSE, {"json"}),
         EndRequests({0, 1}, FALSE, "text")}

AllRequests == StreamRequests \cup RangeRequests

LiveRequests == RequestsOf("v1", {None, 1}, {0}, {0, 1}, {0}, {FALSE}, TRUE, {"sse"})

ResumeRequests == RequestsOf("v2", {None}, {0}, {1}, {0}, {FALSE}, TRUE, {"sse"})

PlainStreams == RequestsOf("v1", {None, 1}, {0}, {0}, {0}, {FALSE}, TRUE, {"sse"})

FilteredComponent == ComponentRequests({Terms})

SilentEntries == {2}
=============================================================================
