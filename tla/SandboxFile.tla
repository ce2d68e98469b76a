----------------------------- MODULE SandboxFile -----------------------------
(***************************************************************************)
(* A log file in a mesos sandbox and what ReadManager.read makes of one    *)
(* answer of the mesos files API (dcos-log/mesos/files/reader/read.go).    *)
(*                                                                         *)
(* The reader only ever looks at byte positions and at newlines, so a file *)
(* is its size and the set nl of the positions that hold a newline.  A     *)
(* Line is the record of line.go: its Message is the byte interval         *)
(* Offset .. Offset + Size - 1 of the file and is not kept apart.          *)
(***************************************************************************)
EXTENDS Integers, FiniteSets, FiniteSetsExt

CONSTANT ChunkSize    \* read.go's chunkSize, the bytes asked for at once

ASSUME ChunkSizeAssumption == ChunkSize \in Nat \ {0, 1}

Line == [Offset : Nat, Size : Nat]

LineEnd(l) == l.Offset + l.Size

(***************************************************************************)
(* The answer to /files/read?offset=lo&length=len is the bytes lo .. hi-1  *)
(* (hi <= lo: no data).                                                    *)
(***************************************************************************)
WindowEnd(size, lo, len) == IF lo + len < size THEN lo + len ELSE size

\* resp.Data == "" || resp.Data == "\n": read reports io.EOF.
NoNewData(nl, lo, hi) == hi <= lo \/ (hi = lo + 1 /\ lo \in nl)

Breaks(nl, lo, hi) == {p \in nl : lo <= p /\ p < hi}

\* strings.Split(data, "\n"): the maximal intervals without a newline.
Split(nl, lo, hi) ==
  {l \in [Offset : lo .. hi, Size : 0 .. hi - lo] :
     /\ l.Offset = lo \/ l.Offset - 1 \in Breaks(nl, lo, hi)
     /\ LineEnd(l) = hi \/ LineEnd(l) \in Breaks(nl, lo, hi)
     /\ \A p \in Breaks(nl, lo, hi) : p < l.Offset \/ LineEnd(l) <= p}

\* Mutant: the last piece is kept although its line may be unfinished.
KeepsLast(nl, lo, hi) == FALSE

\* offset > 0 && len(lines) > 1: the last piece is taken for an unfinished line.
DropsLast(nl, lo, hi) == lo > 0 /\ Breaks(nl, lo, hi) # {}

\* The lines read returns for the data in file order (modifier == nil).
ReadLines(nl, lo, hi) ==
  {l \in Split(nl, lo, hi) : DropsLast(nl, lo, hi) => LineEnd(l) # hi}

\* delta: the length of the dropped piece.
Delta(nl, lo, hi) ==
  IF DropsLast(nl, lo, hi) THEN hi - (Max(Breaks(nl, lo, hi)) + 1) ELSE 0

\* Where the last returned line ends.
LinesEnd(nl, lo, hi) ==
  IF DropsLast(nl, lo, hi) THEN Max(Breaks(nl, lo, hi)) ELSE hi

\* linesLen, the sum of len(line.Message) + 1.  The returned lines tile the
\* bytes from lo to LinesEnd, so the sum telescopes.
LinesLen(nl, lo, hi) == LinesEnd(nl, lo, hi) + 1 - lo

\* Mutant: the next chunk starts where this one ended.
NextOffsetAtEnd(nl, lo, hi) == hi

\* rm.offset after a chunk has been buffered.
NextOffset(nl, lo, hi) ==
  IF LinesLen(nl, lo, hi) < ChunkSize
    THEN lo + LinesLen(nl, lo, hi) - 1
    ELSE lo + ChunkSize - Delta(nl, lo, hi) - 1

\* Prepend ignores an empty line; what a chunk adds to the buffer.
Buffered(nl, lo, hi) == {l \in ReadLines(nl, lo, hi) : l.Size > 0}

-----------------------------------------------------------------------------
(***************************************************************************)
(* The same answer read bottom to top (modifier == reverse), as calcOffset *)
(* does: the piece dropped is now the one at the start of the chunk.       *)
(***************************************************************************)
ReversedLines(nl, lo, hi) ==
  {l \in Split(nl, lo, hi) : DropsLast(nl, lo, hi) => l.Offset # lo}

ReversedDelta(nl, lo, hi) ==
  IF DropsLast(nl, lo, hi) THEN Min(Breaks(nl, lo, hi)) - lo ELSE 0

\* Mutant: empty lines are counted.
LinesFrom(lines, l) == Cardinality({k \in lines : k.Offset >= l.Offset})

NonEmptyFrom(lines, l) ==
  Cardinality({k \in lines : k.Size > 0 /\ k.Offset >= l.Offset})

\* The line at which the loop over lines stops: the n-th non-empty one from
\* the bottom, or the topmost if there are fewer.
StopLine(lines, n) ==
  IF \E l \in lines : l.Size > 0 /\ NonEmptyFrom(lines, l) = n
    THEN CHOOSE l \in lines : l.Size > 0 /\ NonEmptyFrom(lines, l) = n
    ELSE CHOOSE l \in lines : \A k \in lines : l.Offset <= k.Offset

\* What the loop subtracts from rm.offset (the sum telescopes as above).
Rewind(lines, hi, n) == hi + 1 - StopLine(lines, n).Offset
=============================================================================
