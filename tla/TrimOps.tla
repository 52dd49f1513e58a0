------------------------------- MODULE TrimOps ------------------------------
(***************************************************************************)
(* The pure part of the TrimmingBuffer of ping6_datacommon/src/buffer.rs:  *)
(* a ring (VecDeque) whose bytes are handed out as slices that borrow its  *)
(* memory, and are given back when slices are dropped, in any order.       *)
(*                                                                         *)
(* A buffer is the record                                                  *)
(*   mem    the ring's memory: in each cell the number of the byte it      *)
(*          holds, counted from the first ever added                       *)
(*   head   the cell of the first byte, and len the number of bytes        *)
(*   first  first_available: the position after those handed out           *)
(*   del    del_tracker, whose offset is the number of the first byte      *)
(* and a slice borrowing memory (Direct) is                                *)
(*   start  the cell its pointer names, and len its length                 *)
(*   from   the number of the byte that was there when it was made         *)
(***************************************************************************)
EXTENDS RangeOps

CONSTANTS
  RingSize,   \* cells of the VecDeque's memory
  Capacity    \* VecDeque::capacity(): all of them, or all but one

ASSUME TrimAssumption ==
  RingSize \in Nat \ {0} /\ Capacity \in {RingSize, RingSize - 1}

Cell == 0..RingSize - 1

NewBuffer ==
  [mem |-> [c \in Cell |-> 0], head |-> 0, len |-> 0, first |-> 0, del |-> EmptyTracker]

SpaceLeft(b) == Capacity - b.len
Available(b) == b.len - b.first

CellOf(b, pos) == (b.head + pos) % RingSize

(* add: the caller has made sure that there is room. *)
AddBytes(b, n) ==
  [b EXCEPT
     !.mem = [c \in Cell |->
                IF \E k \in 0..n - 1 : c = CellOf(b, b.len + k)
                THEN b.del.offset + b.len + ((c - CellOf(b, b.len)) % RingSize)
                ELSE @[c]],
     !.len = @ + n]

(* as_slices: the bytes before the end of the memory, and the rest. *)
BeginningLen(b) == IF b.head + b.len <= RingSize THEN b.len ELSE RingSize - b.head

-----------------------------------------------------------------------------
(* RangeTracker::slice_to_range finds the slice's address in one of the    *)
(* two halves, and panics if it is in neither.                             *)

InBeginning(b, s) == b.head <= s.start /\ s.start + s.len <= b.head + BeginningLen(b)
InEnding(b, s) == s.start + s.len <= b.len - BeginningLen(b)

PositionOf(b, s) ==
  IF InBeginning(b, s) THEN s.start - b.head ELSE s.start + BeginningLen(b)

(* Drop of a slice: its bytes are tracked as deleted. *)
DropBytes(b, s) ==
  [b EXCEPT !.del = Track(@, PositionOf(b, s), PositionOf(b, s) + s.len - 1)]

(* take_range of positions l..r: a slice that would cross the end of the   *)
(* memory is copied, and its two halves are tracked as deleted at once.    *)
CrossesEnd(b, l, r) == l < BeginningLen(b) /\ BeginningLen(b) <= r

HandOut_HalfFreed(b, l, r) ==   \* mutant: the second half is not given back
  IF CrossesEnd(b, l, r)
  THEN [b EXCEPT !.first = @ + (r - l + 1), !.del = Track(@, l, BeginningLen(b) - 1)]
  ELSE [b EXCEPT !.first = @ + (r - l + 1)]

HandOut(b, l, r) ==
  IF CrossesEnd(b, l, r)
  THEN [b EXCEPT !.first = @ + (r - l + 1),
                 !.del = Track(Track(@, l, BeginningLen(b) - 1), BeginningLen(b), r)]
  ELSE [b EXCEPT !.first = @ + (r - l + 1)]

(* The slice made, in a set, or none when the bytes are copied. *)
SliceMade(b, l, r) ==
  IF CrossesEnd(b, l, r) THEN {}
  ELSE {[start |-> CellOf(b, l), len |-> r - l + 1, from |-> b.del.offset + l]}

(* cleanup: the leading deleted bytes are drained.  VecDeque::drain moves  *)
(* no byte, and starts at cell 0 again when it leaves nothing.             *)
CleanUp_OneTooMany(b) ==   \* mutant: 0 ..= i taken for one more
  IF ~CanTake(b.del) \/ TakenLast(b.del) + 2 > b.first THEN b
  ELSE LET n == TakenLast(b.del) + 2
       IN  [b EXCEPT !.head = IF n = b.len THEN 0 ELSE CellOf(b, n),
                     !.len = @ - n, !.first = @ - n, !.del = Take(@)]

CleanUp(b) ==
  IF ~CanTake(b.del) THEN b
  ELSE LET n == TakenLast(b.del) + 1
       IN  [b EXCEPT !.head = IF n = b.len THEN 0 ELSE CellOf(b, n),
                     !.len = @ - n,
                     !.first = @ - n,
                     !.del = Take(@)]
=============================================================================
