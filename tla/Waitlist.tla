------------------------------ MODULE Waitlist ------------------------------
(***************************************************************************)
(* What the sender relies on: a list of packets in sending order, each     *)
(* flagged when an acknowledgement names it, whose flagged front can be    *)
(* dropped.                                                                *)
(***************************************************************************)
EXTENDS WaitOps

VARIABLE wait

Init == wait = <<>>

Add ==
  \E s \in Seqno :
     /\ wait # <<>> => s = Plus(wait[Len(wait)].seqno, 1)
     /\ wait' = Append(wait, [seqno |-> s, acked |-> FALSE])

Remove == \E lo, hi \in Seqno : wait' = Removed(wait, lo, hi)

Cleanup == wait' = Cleaned(wait)

Next == Add \/ Remove \/ Cleanup

Spec == Init /\ [][Next]_wait
=============================================================================
