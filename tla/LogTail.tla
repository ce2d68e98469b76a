------------------------------- MODULE LogTail -------------------------------
(***************************************************************************)
(* What both log readers promise a client, without chunks, cursors,        *)
(* handles or buffers: the items of a growing log come in the order of the *)
(* log, each one once, none left out, across any number of connections.    *)
(*                                                                         *)
(* An item is its position in the log.  The reader may pass over an item   *)
(* that is lost, and it may still deliver it.                              *)
(***************************************************************************)
EXTENDS Integers, Sequences

VARIABLES
  log,         \* the items written so far
  lost,        \* those that need not be delivered any more
  from,        \* the position behind which the client reads
  delivered,   \* what the client got
  resumable    \* the client can say where it stopped

vars == <<log, lost, from, delivered, resumable>>

Position == IF delivered = <<>> THEN from ELSE delivered[Len(delivered)]

Init == delivered = <<>> /\ resumable = FALSE

\* The log grows behind its last item.
Grow ==
  /\ \E new \in log' :
       /\ \A old \in log : old < new
       /\ log' = log \cup {new}
  /\ UNCHANGED <<lost, from, delivered, resumable>>

Lose ==
  /\ lost \subseteq lost'
  /\ UNCHANGED <<log, from, delivered, resumable>>

\* A client that cannot say where it stopped starts anew, anywhere.
Start ==
  /\ ~resumable
  /\ delivered' = <<>>
  /\ UNCHANGED <<log, lost, resumable>>

\* The next item: whatever lies between is lost.
Deliver ==
  /\ \E item \in log :
       /\ Position < item
       /\ \A between \in log : Position < between /\ between < item => between \in lost
       /\ delivered' = Append(delivered, item)
  /\ resumable => resumable'
  /\ UNCHANGED <<log, lost, from>>

Next == Grow \/ Lose \/ Start \/ Deliver

Spec == Init /\ [][Next]_vars
=============================================================================
