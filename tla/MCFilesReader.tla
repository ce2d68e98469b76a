---------------------------- MODULE MCFilesReader ----------------------------
(***************************************************************************)
(* Requests for the model checker.  A chunk of four bytes and files of up  *)
(* to seven keep what matters of 64 KB chunks: a file of several chunks,   *)
(* lines that end in, at and behind the edge of a chunk, empty lines.      *)
(***************************************************************************)
EXTENDS FilesReader

RequestsOf(cursors, skips, limits, streams) ==
  [cursor : cursors, skip : skips, limit : limits, stream : streams]

StreamRequests ==
  RequestsOf({EndCursor, 0, 1, 2}, {-2, -1, 0, 1}, {0}, {TRUE})

LiveRequests == RequestsOf({EndCursor, 1}, {-1, 0}, {0}, {TRUE})

RangeRequests ==
  RequestsOf({EndCursor, 0, 1, 2}, {-2, -1, 0, 1}, {0, 1, 2}, {FALSE})

AllRequests == StreamRequests \cup RangeRequests
=============================================================================
