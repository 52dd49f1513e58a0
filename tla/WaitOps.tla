------------------------------- MODULE WaitOps ------------------------------
(***************************************************************************)
(* The sender's list of packets waiting for an acknowledgement             *)
(* (ping6-datasend/src/stream/buffers.rs), as the rest of the sender sees  *)
(* it: a sequence of entries [seqno, acked, ...] in sending order.  The    *)
(* module AckWaitlist keeps the acknowledged entries in a RangeTracker, as *)
(* the code does, and implements these operators.                          *)
(***************************************************************************)
EXTENDS SeqnoOps, Sequences, FiniteSets

Unacked(w) == {i \in DOMAIN w : ~w[i].acked}

(* iter().next(): the first entry still waiting. *)
FirstUnacked(w) == CHOOSE i \in Unacked(w) : \A j \in Unacked(w) : i <= j

(* iter(): the entries still waiting, in the order of the list. *)
UnackedEntries(w) ==
  [k \in 1..Cardinality(Unacked(w)) |->
     w[CHOOSE i \in Unacked(w) : Cardinality({j \in Unacked(w) : j <= i}) = k]]

(* remove_non_wrapping: among the waiting entries, in order, skip while    *)
(* seqno < lo, then take while seqno <= hi.  Raw u16 comparisons.          *)
Selected_ExclusiveEnd(w, lo, hi) ==   \* mutant: seqno < hi
  {i \in Unacked(w) : lo <= w[i].seqno /\ w[i].seqno < hi}

Selected(w, lo, hi) ==
  LET past == {i \in Unacked(w) :
                 \E j \in Unacked(w) : j <= i /\ w[j].seqno >= lo}
  IN  {i \in past : \A j \in past : j <= i => w[j].seqno <= hi}

Mark(w, I) == [i \in DOMAIN w |-> [w[i] EXCEPT !.acked = @ \/ i \in I]]

(* remove: a range that goes round is split at the largest number, and its *)
(* second part is looked at only when the first part removed something.    *)
FirstPart(w, lo, hi)  == Selected(w, lo, IF lo > hi THEN SeqMod - 1 ELSE hi)
SecondPart(w, lo, hi) ==
  IF lo > hi /\ FirstPart(w, lo, hi) # {}
  THEN Selected(Mark(w, FirstPart(w, lo, hi)), 0, hi)
  ELSE {}

Removed(w, lo, hi) == Mark(w, FirstPart(w, lo, hi) \cup SecondPart(w, lo, hi))

(* cleanup: drop the acknowledged entries at the front of the list. *)
Cleaned(w) ==
  IF Unacked(w) = {} THEN <<>> ELSE SubSeq(w, FirstUnacked(w), Len(w))
=============================================================================
