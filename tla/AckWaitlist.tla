----------------------------- MODULE AckWaitlist ----------------------------
(***************************************************************************)
(* AckWaitlist (ping6-datasend/src/stream/buffers.rs) in the detail of the *)
(* code: a queue of packets and a RangeTracker of the queue indices that   *)
(* are acknowledged.  It implements the flagged list of WaitOps, which the *)
(* model of the sender uses.                                               *)
(***************************************************************************)
EXTENDS WaitOps, FiniteSetsExt

CONSTANTS
  WindowSize,    \* window_size: entries that can be outstanding
  FirstSeqno,    \* sequence number of the first packet
  Packets        \* bound: packets added in all

ASSUME WindowAssumption  == WindowSize \in 1..(SeqMod - 1)
ASSUME FirstAssumption   == FirstSeqno \in Seqno
ASSUME PacketsAssumption == Packets \in Nat

VARIABLES
  inner,        \* inner: VecDeque<AckWait>, here the sequence numbers
  delTracker,   \* del_tracker over the indices of inner, counted from 0
  added,        \* history: packets added so far
  named         \* history: packets (by stream position) that some remove()
                \* named while they were waiting

waitlistVars == <<inner, delTracker, added, named>>

(* The list WaitOps describes: iter_from_lock skips the indices tracked.   *)
Entries ==
  [i \in DOMAIN inner |->
     [seqno |-> inner[i],
      acked |-> \E a \in Relative(delTracker) : ContainsPoint(a, i - 1)]]

WaitlistInit ==
  /\ inner = <<>>
  /\ delTracker = EmptyTracker
  /\ added = 0
  /\ named = {}

(* The sender keeps at most WindowSize packets from the first waiting one. *)
Add ==
  /\ added < Packets
  /\ Unacked(Entries) # {} =>
       Len(inner) - FirstUnacked(Entries) + 1 < WindowSize
  /\ inner' = Append(inner, Plus(FirstSeqno, added))
  /\ added' = added + 1
  /\ UNCHANGED <<delTracker, named>>

(* tmpvec: the selected indices, from 0, split where the sequence numbers  *)
(* of the selected entries jump.                                           *)
Runs(w, I) ==
  LET starts == {i \in I : ~\E j \in I : j < i /\ Plus(w[j].seqno, 1) = w[i].seqno}
      run(i) == {j \in I : i <= j /\ ~\E k \in starts : i < k /\ k <= j}
  IN  {<<i - 1, Max(run(i)) - 1>> : i \in starts}

(* remove_non_wrapping: every run is tracked. *)
TrackSelected(t, w, I) ==
  FoldSet(LAMBDA run, acc : Track(acc, run[1], run[2]), t, Runs(w, I))

Remove(lo, hi) ==
  LET w     == Entries
      t1    == TrackSelected(delTracker, w, FirstPart(w, lo, hi))
      w1    == Mark(w, FirstPart(w, lo, hi))
  IN  /\ delTracker' = TrackSelected(t1, w1, SecondPart(w, lo, hi))
      /\ named' = named \cup {q \in (added - Len(inner))..(added - 1) :
                                Plus(FirstSeqno, q) \in Circular(lo, hi)}
      /\ UNCHANGED <<inner, added>>

(* cleanup: take_range() and drain the entries it names. *)
Cleanup_DrainsShort ==   \* mutant: the last index of the range is kept
  /\ CanTake(delTracker)
  /\ inner' = SubSeq(inner, TakenLast(delTracker) + 1, Len(inner))
  /\ delTracker' = Take(delTracker)
  /\ UNCHANGED <<added, named>>

Cleanup ==
  /\ CanTake(delTracker)
  /\ inner' = SubSeq(inner, TakenLast(delTracker) + 2, Len(inner))
  /\ delTracker' = Take(delTracker)
  /\ UNCHANGED <<added, named>>

(* The receiver only names packets that were sent, from position p to q.   *)
WaitlistNext ==
  \/ Add
  \/ \E p, q \in 0..(added - 1) :
        q - p \in 0..(SeqMod - 1) /\ Remove(Plus(FirstSeqno, p), Plus(FirstSeqno, q))
  \/ Cleanup

WaitlistSpec == WaitlistInit /\ [][WaitlistNext]_waitlistVars

-----------------------------------------------------------------------------
(* The packets no longer waiting, flagged or already drained, are exactly  *)
(* those an acknowledgement named.  One that is dropped unnamed is never   *)
(* retransmitted; one that is named and kept is retransmitted for ever.    *)
ExactlyTheNamedAreAcked ==
  LET base == added - Len(inner)
  IN  named = (0..(base - 1)) \cup
              {base + i - 1 : i \in DOMAIN inner \ Unacked(Entries)}

(* The same, until the sequence numbers go round: remove_non_wrapping      *)
(* compares them as they are.                                              *)
NamedAreAckedUntilTheWrap == FirstSeqno + added <= SeqMod => ExactlyTheNamedAreAcked

(* The index ranges of the RangeTracker, renumbered by every cleanup,      *)
(* always flag the entries the simple list flags.                          *)
Flagged == INSTANCE Waitlist WITH wait <- Entries

ImplementsWaitlist == Flagged!Spec
=============================================================================
