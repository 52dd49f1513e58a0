---------------------------- MODULE PointTracker ----------------------------
(***************************************************************************)
(* What a RangeTracker promises, without its ranges: a set of tracked      *)
(* positions that grows by intervals, from whose front the longest run of  *)
(* consecutive positions is consumed.                                      *)
(***************************************************************************)
EXTENDS Integers

CONSTANT MaxIndex   \* callers name positions base..base + MaxIndex

VARIABLES
  points,   \* the absolute positions tracked and not yet consumed
  base      \* everything below it has been consumed

pvars == <<points, base>>

Init == points = {} /\ base = 0

(* The caller adds positions none of which is tracked already. *)
Track(l, r) ==
  /\ l <= r
  /\ (base + l)..(base + r) \cap points = {}
  /\ points' = points \cup (base + l)..(base + r)
  /\ base' = base

(* The whole run that starts at base is consumed, not a part of it. *)
Take ==
  \E last \in points :
     /\ base <= last
     /\ base..last \subseteq points
     /\ last + 1 \notin points
     /\ points' = points \ (base..last)
     /\ base' = last + 1

Next == (\E l, r \in 0..MaxIndex : Track(l, r)) \/ Take

Spec == Init /\ [][Next]_pvars
=============================================================================
