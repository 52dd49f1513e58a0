------------------------------ MODULE RangeOps ------------------------------
(***************************************************************************)
(* The pure part of ping6_datacommon's RangeTracker: what its methods do   *)
(* to the ordered set of closed ranges it keeps.  A range <<l, r>> is the  *)
(* code's DTRange(l, r); a tracker is the record                           *)
(*   [ranges |-> the BTreeSet, offset |-> what take_range() has consumed]. *)
(* Stored ranges are absolute; callers name positions relative to offset.  *)
(***************************************************************************)
EXTENDS Integers

DTRange == {p \in Nat \X Nat : p[1] <= p[2]}

EmptyTracker == [ranges |-> {}, offset |-> 0]

(* The positions a set of ranges covers. *)
Cover(R) == UNION {a[1]..a[2] : a \in R}

(* DTRange::partial_cmp orders two ranges only when they are equal or      *)
(* disjoint; comparing any other pair panics ("nonoverlapping ranges").    *)
Overlaps(a, b) == a[1] <= b[2] /\ b[1] <= a[2]

(* The least range of a nonempty set (BTreeSet iteration starts there).    *)
First(R) == CHOOSE a \in R : \A b \in R : a[1] <= b[1]

(* RangeTracker::iter: the ranges as the caller numbers them. *)
Relative(t) == {<<a[1] - t.offset, a[2] - t.offset>> : a \in t.ranges}

(* IRange::contains_point, contains_range and intersects.  intersects only *)
(* looks at the end points of its argument.                                *)
ContainsPoint(a, x) == a[1] <= x /\ x <= a[2]
ContainsRange(a, b) == ContainsPoint(a, b[1]) /\ ContainsPoint(a, b[2])
Intersects(a, b)    == ContainsPoint(a, b[1]) \/ ContainsPoint(a, b[2])

-----------------------------------------------------------------------------
(* track_range: the neighbours ending just before and starting just after  *)
(* the new range are removed and the union of the three is inserted.       *)

MergeLeft(R, l)  == {a \in R : a[2] = l - 1}
MergeRight(R, r) == {a \in R : a[1] = r + 1}

Merged(R, l, r) ==
  << IF MergeLeft(R, l) = {}  THEN l ELSE First(MergeLeft(R, l))[1],
     IF MergeRight(R, r) = {} THEN r ELSE First(MergeRight(R, r))[2] >>

(* BTreeSet::insert compares the new range with stored ones and panics on  *)
(* one it cannot order; an equal one is left in place.                     *)
TrackPanics(R, l, r) ==
  \E a \in R \ (MergeLeft(R, l) \cup MergeRight(R, r)) :
     a # Merged(R, l, r) /\ Overlaps(a, Merged(R, l, r))

(* Mutants: the right neighbour left alone; the neighbours not removed.    *)
Insert_NoRightMerge(R, l, r) ==
  (R \ MergeLeft(R, l)) \cup {<<Merged(R, l, r)[1], r>>}
Insert_KeepsNeighbours(R, l, r) == R \cup {Merged(R, l, r)}

Insert(R, l, r) ==
  (R \ (MergeLeft(R, l) \cup MergeRight(R, r))) \cup {Merged(R, l, r)}

Track(t, l, r) ==
  [t EXCEPT !.ranges = Insert(@, l + t.offset, r + t.offset)]

(* take_range: the first range, if it starts at position 0, is consumed    *)
(* and the positions after it are renumbered from 0.                       *)
CanTake(t) == t.ranges # {} /\ First(t.ranges)[1] = t.offset

TakenLast(t) == First(t.ranges)[2] - t.offset

(* Mutant: the offset one short. *)
Take_OffsetShort(t) ==
  IF CanTake(t)
  THEN [ranges |-> t.ranges \ {First(t.ranges)}, offset |-> First(t.ranges)[2]]
  ELSE t

Take(t) ==
  IF CanTake(t)
  THEN [ranges |-> t.ranges \ {First(t.ranges)}, offset |-> First(t.ranges)[2] + 1]
  ELSE t

(* is_range_tracked: Some(true), Some(false) or None.  The loop stops with *)
(* Some(false) at the first stored range that ends before l, so the ranges *)
(* after it are never looked at.                                           *)
IsRangeTracked(t, l, r) ==
  LET R == Relative(t)
  IN  IF R = {} \/ First(R)[2] < l                   THEN "no"
      ELSE IF \E a \in R : ContainsRange(a, <<l, r>>) THEN "yes"
      ELSE IF \E a \in R : Intersects(a, <<l, r>>)    THEN "partial"
      ELSE "no"
=============================================================================
