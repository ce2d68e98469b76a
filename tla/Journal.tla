------------------------------- MODULE Journal -------------------------------
(***************************************************************************)
(* The systemd journal behind an sdjournal handle, as journal/reader uses  *)
(* it.  libsystemd is outside the repository: this module is modelled from *)
(* the calls of journal/reader/read.go and the sdjournal bindings.         *)
(*                                                                         *)
(* Entries are numbered in the order they are written and an entry's       *)
(* cursor is its number.  V is the set of the entries a handle can read:   *)
(* retained on disk when it was opened and accepted by its matches.        *)
(***************************************************************************)
EXTENDS Integers, FiniteSets, FiniteSetsExt

\* Where a handle stands: before or behind everything, sought to a cursor but
\* not yet on an entry, or on an entry.
AtHead == [kind |-> "head", e |-> 0]
AtTail == [kind |-> "tail", e |-> 0]
Sought(c) == [kind |-> "sought", e |-> c]
On(c) == [kind |-> "on", e |-> c]

Location == [kind : {"head", "tail", "sought", "on"}, e : Nat]

Ahead(V, loc) ==
  {e \in V : \/ loc.kind = "head"
             \/ loc.kind = "sought" /\ e >= loc.e
             \/ loc.kind = "on" /\ e > loc.e}

Behind(V, loc) ==
  {e \in V : \/ loc.kind = "tail"
             \/ loc.kind \in {"sought", "on"} /\ e < loc.e}

(***************************************************************************)
(* Next and Previous: the entries the handle may move to (none: the call   *)
(* returns 0 and the handle stays).  Next behind the tail and Previous     *)
(* before the head depend on the version of libsystemd: some turn round    *)
(* and return the last, or the first, entry.                               *)
(***************************************************************************)
Nexts(V, loc) ==
  IF Ahead(V, loc) # {} THEN {Min(Ahead(V, loc))}
  ELSE {e \in V : loc.kind = "tail" /\ e = Max(V)}

Previouses(V, loc) ==
  IF Behind(V, loc) # {} THEN {Max(Behind(V, loc))}
  ELSE {e \in V : loc.kind = "head" /\ e = Min(V)}

\* Next and Previous may return 0.
NextMayEnd(V, loc) == Ahead(V, loc) = {}
PreviousMayEnd(V, loc) == Behind(V, loc) = {}

AtMost(n, S) == IF n < Cardinality(S) THEN n ELSE Cardinality(S)

\* NextSkip and PreviousSkip return how many entries they moved over and leave
\* the handle on the last of them.
SkippedNext(V, loc, n) == AtMost(n, Ahead(V, loc))
SkippedPrev(V, loc, n) == AtMost(n, Behind(V, loc))

NextSkip(V, loc, n) ==
  LET c == SkippedNext(V, loc, n)
  IN  IF c = 0 THEN loc
      ELSE On(CHOOSE e \in Ahead(V, loc) :
                Cardinality({k \in Ahead(V, loc) : k <= e}) = c)

PreviousSkip(V, loc, n) ==
  LET c == SkippedPrev(V, loc, n)
  IN  IF c = 0 THEN loc
      ELSE On(CHOOSE e \in Behind(V, loc) :
                Cardinality({k \in Behind(V, loc) : k >= e}) = c)
=============================================================================
