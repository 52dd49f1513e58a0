------------------------------ MODULE SeqnoOps ------------------------------
(***************************************************************************)
(* Sequence numbers: Wrapping<u16> arithmetic, and the pure part of        *)
(* SeqnoTracker (ping6-datarecv/src/stream/buffers.rs), which remembers    *)
(* which sequence numbers arrived, relative to the start of the receive    *)
(* window.  Its state is the record                                        *)
(*   [tracker |-> a RangeOps tracker, start |-> window_start].             *)
(***************************************************************************)
EXTENDS RangeOps

CONSTANT SeqMod   \* the number of sequence numbers: 2^16 in the code

ASSUME SeqModAssumption == SeqMod \in Nat /\ SeqMod > 1

Seqno == 0..(SeqMod - 1)

Plus(s, n)  == (s + n) % SeqMod
Minus(s, t) == (s - t) % SeqMod

(* The sequence numbers from lo to hi, going round past SeqMod - 1. *)
Circular(lo, hi) == {Plus(lo, i) : i \in 0..Minus(hi, lo)}

NewSeqnoTracker(s) == [tracker |-> EmptyTracker, start |-> s]

(* pos_to_sequential and pos_from_sequential *)
PosOf(st, s)   == Minus(s, st.start)
SeqnoAt(st, p) == Plus(st.start, p)

(* What add() answers: is s new to the tracker? *)
IsNew(st, s) == IsRangeTracked(st.tracker, PosOf(st, s), PosOf(st, s)) # "yes"

AddPanics(st, s) ==
  /\ IsNew(st, s)
  /\ LET p == PosOf(st, s) + st.tracker.offset
     IN  TrackPanics(st.tracker.ranges, p, p)

AddSeqno(st, s) ==
  IF IsNew(st, s)
  THEN [st EXCEPT !.tracker = Track(@, PosOf(st, s), PosOf(st, s))]
  ELSE st

(* take(): every range is reported, the first is consumed if it starts at  *)
(* the window's start, and then the window starts after it.                *)
ReportedRanges_Absolute(st) == st.tracker.ranges   \* mutant: offset ignored
ReportedRanges(st) == Relative(st.tracker)

(* Mutant: the window starts at the last number taken. *)
TakeSeqnos_StartShort(st) ==
  IF CanTake(st.tracker)
  THEN [tracker |-> Take(st.tracker), start |-> SeqnoAt(st, TakenLast(st.tracker))]
  ELSE st

TakeSeqnos(st) ==
  IF CanTake(st.tracker)
  THEN [tracker |-> Take(st.tracker),
        start   |-> Plus(SeqnoAt(st, TakenLast(st.tracker)), 1)]
  ELSE st
=============================================================================
