---------------------------- MODULE RangeTracker ----------------------------
(***************************************************************************)
(* The RangeTracker of ping6_datacommon/src/range_tracker.rs as a state    *)
(* machine, driven by callers that keep its contract: "at no point should  *)
(* two overlapping ranges be insert()'ed into the set".                    *)
(***************************************************************************)
EXTENDS RangeOps

CONSTANTS
  MaxIndex,   \* callers name positions 0..MaxIndex relative to the offset
  MaxOffset   \* bound on offset: usize, whose overflow take_range checks

ASSUME MaxIndexAssumption == MaxIndex \in Nat
ASSUME MaxOffsetAssumption == MaxOffset \in Nat

VARIABLES
  rangeset,   \* rangeset: BTreeSet<DTRange>
  offset      \* offset: usize

vars == <<rangeset, offset>>

tracker == [ranges |-> rangeset, offset |-> offset]

Init == rangeset = {} /\ offset = 0

TrackRange(l, r) ==
  /\ l <= r
  /\ \A a \in rangeset : ~Overlaps(a, <<l + offset, r + offset>>)
  /\ rangeset' = Track(tracker, l, r).ranges
  /\ offset' = Track(tracker, l, r).offset

TakeRange ==
  /\ CanTake(tracker)
  /\ Take(tracker).offset <= MaxOffset
  /\ rangeset' = Take(tracker).ranges
  /\ offset' = Take(tracker).offset

Next ==
  \/ \E l, r \in 0..MaxIndex : TrackRange(l, r)
  \/ TakeRange

Spec == Init /\ [][Next]_vars

-----------------------------------------------------------------------------
(* The set holds ranges of positions, never an inverted one. *)
TypeOK == rangeset \subseteq DTRange /\ offset \in Nat

(* Between two stored ranges there is an untracked position: no overlap,   *)
(* no two neighbours left unmerged.  take_range relies on it to consume    *)
(* everything that is contiguous, and DTRange::cmp not to panic.           *)
Normalised ==
  \A a, b \in rangeset : a # b => a[2] + 1 < b[1] \/ b[2] + 1 < a[1]

(* No stored range reaches below the offset: iter() and take_range()       *)
(* subtract the offset from it.                                            *)
AheadOfOffset == \A a \in rangeset : offset <= a[1]

(* Under the callers' contract no BTreeSet operation meets a pair of       *)
(* ranges it cannot order: track_range never panics.                       *)
NeverPanics ==
  \A l, r \in 0..MaxIndex :
     ( /\ l <= r
       /\ \A a \in rangeset : ~Overlaps(a, <<l + offset, r + offset>>) )
     => ~TrackPanics(rangeset, l + offset, r + offset)

Abstract == INSTANCE PointTracker
              WITH points <- Cover(rangeset), base <- offset

(* The ranges behave as the set of positions they cover. *)
ImplementsPoints == Abstract!Spec
=============================================================================
