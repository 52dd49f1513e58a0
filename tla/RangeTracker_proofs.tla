------------------------ MODULE RangeTracker_proofs -------------------------
(***************************************************************************)
(* Proofs about RangeTracker for every MaxIndex and MaxOffset: the stored  *)
(* ranges stay normalised, no set operation panics, and the tracker        *)
(* implements the set of points it covers.  And about AckWaitlist, the     *)
(* queue whose acknowledged indices a RangeTracker keeps, for every window *)
(* and every first sequence number: it implements the plain list of        *)
(* flagged packets, and forgets exactly the packets that were named.       *)
(***************************************************************************)
EXTENDS RangeTracker, AckWaitlist, OpsLemmas, FiniteSetTheorems, SequenceTheorems

-----------------------------------------------------------------------------
(* The inductive invariant: TypeOK with the two structural invariants.     *)
(* Normalised alone is not inductive: take_range moves the offset, and     *)
(* what stays in the set must not fall behind it.                          *)
IInv == TypeOK /\ Normalised /\ AheadOfOffset

LEMMA TrackRangeStep ==
  ASSUME IInv, NEW l \in 0..MaxIndex, NEW r \in 0..MaxIndex, TrackRange(l, r)
  PROVE  /\ IInv'
         /\ Cover(rangeset)' = Cover(rangeset) \cup (offset + l)..(offset + r)
         /\ offset' = offset
<1>1. /\ l + offset \in Nat /\ r + offset \in Nat /\ l + offset <= r + offset
      /\ l + offset = offset + l /\ r + offset = offset + r
      /\ offset <= l + offset
  BY MaxIndexAssumption DEF IInv, TypeOK, TrackRange
<1>2. /\ rangeset \subseteq DTRange /\ Separated(rangeset)
      /\ \A a \in rangeset : ~Overlaps(a, <<l + offset, r + offset>>)
  BY DEF IInv, TypeOK, Normalised, Separated, TrackRange
<1>3. rangeset' = Insert(rangeset, l + offset, r + offset) /\ offset' = offset
  BY DEF TrackRange, Track, tracker
<1> DEFINE lo == l + offset
           hi == r + offset
<1>4. /\ Insert(rangeset, lo, hi) \subseteq DTRange
      /\ Separated(Insert(rangeset, lo, hi))
      /\ Cover(Insert(rangeset, lo, hi)) = Cover(rangeset) \cup lo..hi
  BY <1>1, <1>2, InsertFacts
<1>5. AheadOfOffset'
  <2>1. \A a \in rangeset : offset <= a[1]
    BY DEF IInv, AheadOfOffset
  <2>2. offset <= Merged(rangeset, lo, hi)[1]
    BY <1>1, <1>2, <2>1, MergedRange DEF MergeLeft, IInv, TypeOK, DTRange
  <2>3. \A a \in rangeset' : a \in rangeset \/ a = Merged(rangeset, lo, hi)
    BY <1>3 DEF Insert
  <2> QED BY <1>3, <2>1, <2>2, <2>3 DEF AheadOfOffset
<1>6. TypeOK' /\ Normalised'
  BY <1>3, <1>4 DEF TypeOK, Normalised, Separated, IInv
<1>7. Cover(rangeset)' = Cover(rangeset) \cup (offset + l)..(offset + r)
  BY <1>1, <1>3, <1>4 DEF Cover
<1> QED BY <1>3, <1>5, <1>6, <1>7 DEF IInv

(* take_range consumes exactly the run of positions that starts at the     *)
(* offset, and all of it.                                                  *)
LEMMA TakeRangeStep ==
  ASSUME IInv, TakeRange
  PROVE  /\ IInv'
         /\ \E last \in Cover(rangeset) :
              /\ offset <= last
              /\ offset..last \subseteq Cover(rangeset)
              /\ last + 1 \notin Cover(rangeset)
              /\ Cover(rangeset)' = Cover(rangeset) \ (offset..last)
              /\ offset' = last + 1
<1> DEFINE last == First(rangeset)[2]
<1>1. TrackerOK(tracker) /\ CanTake(tracker)
  BY DEF IInv, TypeOK, Normalised, AheadOfOffset, Separated, TrackerOK, tracker, TakeRange
<1>2. tracker.ranges = rangeset /\ tracker.offset = offset
  BY DEF tracker
<1>3. rangeset' = Take(tracker).ranges /\ offset' = Take(tracker).offset
  BY DEF TakeRange
<1>4. /\ TrackerOK(Take(tracker))
      /\ last \in Cover(rangeset) /\ offset <= last
      /\ offset..last \subseteq Cover(rangeset)
      /\ last + 1 \notin Cover(rangeset)
      /\ Cover(Take(tracker).ranges) = Cover(rangeset) \ (offset..last)
      /\ Take(tracker).offset = last + 1
  <2> HIDE DEF tracker
  <2> QED BY <1>1, <1>2, TakeFacts
<1> HIDE DEF last
<1>5. IInv'
  BY <1>3, <1>4 DEF IInv, TypeOK, Normalised, AheadOfOffset, Separated, TrackerOK
<1>6. Cover(rangeset)' = Cover(rangeset) \ (offset..last)
  BY <1>3, <1>4 DEF Cover
<1> QED BY <1>3, <1>4, <1>5, <1>6

LEMMA InitIInv == Init => IInv
BY DEF Init, IInv, TypeOK, Normalised, AheadOfOffset

LEMMA NextIInv == IInv /\ [Next]_vars => IInv'
<1> SUFFICES ASSUME IInv, [Next]_vars PROVE IInv'
  OBVIOUS
<1>1. ASSUME NEW l \in 0..MaxIndex, NEW r \in 0..MaxIndex, TrackRange(l, r)
      PROVE  IInv'
  BY <1>1, TrackRangeStep
<1>2. CASE TakeRange
  BY <1>2, TakeRangeStep
<1>3. CASE UNCHANGED vars
  BY <1>3 DEF vars, IInv, TypeOK, Normalised, AheadOfOffset
<1> QED BY <1>1, <1>2, <1>3 DEF Next

(* The tracker's set holds proper ranges, pairwise separated by a gap and  *)
(* none of them below the offset, whatever its callers track and consume.  *)
THEOREM TrackerInvariant == Spec => [](TypeOK /\ Normalised /\ AheadOfOffset)
<1>1. Spec => []IInv
  BY InitIInv, NextIInv, PTL DEF Spec
<1> QED BY <1>1, PTL DEF IInv

(* Callers that track disjoint ranges never make the BTreeSet compare two  *)
(* ranges it cannot order: track_range does not panic.                     *)
THEOREM TrackerNeverPanics == Spec => []NeverPanics
<1>1. IInv => NeverPanics
  <2> SUFFICES ASSUME IInv, NEW l \in 0..MaxIndex, NEW r \in 0..MaxIndex, l <= r,
                      \A a \in rangeset : ~Overlaps(a, <<l + offset, r + offset>>)
               PROVE  ~TrackPanics(rangeset, l + offset, r + offset)
    BY DEF NeverPanics
  <2>1. l + offset \in Nat /\ r + offset \in Nat /\ l + offset <= r + offset
    BY MaxIndexAssumption DEF IInv, TypeOK
  <2>2. rangeset \subseteq DTRange /\ Separated(rangeset)
    BY DEF IInv, TypeOK, Normalised, Separated
  <2> QED BY <2>1, <2>2, InsertFacts
<1>2. Spec => []IInv
  BY InitIInv, NextIInv, PTL DEF Spec
<1> QED BY <1>1, <1>2, PTL

(* The ranges implement the set of points they cover: tracking adds        *)
(* exactly the named positions, and taking consumes exactly the longest    *)
(* run at the front.                                                       *)
THEOREM TrackerImplementsPoints == Spec => ImplementsPoints
<1>1. Init => Abstract!Init
  BY DEF Init, Abstract!Init, Cover
<1>2. IInv /\ [Next]_vars => [Abstract!Next]_(Abstract!pvars)
  <2> SUFFICES ASSUME IInv, [Next]_vars PROVE [Abstract!Next]_(Abstract!pvars)
    OBVIOUS
  <2>1. ASSUME NEW l \in 0..MaxIndex, NEW r \in 0..MaxIndex, TrackRange(l, r)
        PROVE  Abstract!Track(l, r)
    <3>1. /\ Cover(rangeset)' = Cover(rangeset) \cup (offset + l)..(offset + r)
          /\ offset' = offset
      BY <2>1, TrackRangeStep
    <3>2. (offset + l)..(offset + r) \cap Cover(rangeset) = {}
      BY <2>1, MaxIndexAssumption
         DEF TrackRange, Cover, Overlaps, IInv, TypeOK, DTRange
    <3> QED BY <2>1, <3>1, <3>2 DEF Abstract!Track, TrackRange
  <2>2. CASE TakeRange
    BY <2>2, TakeRangeStep DEF Abstract!Next, Abstract!Take
  <2>3. CASE UNCHANGED vars
    BY <2>3 DEF vars, Abstract!pvars, Cover
  <2> QED BY <2>1, <2>2, <2>3 DEF Next, Abstract!Next
<1>3. Spec => []IInv
  BY InitIInv, NextIInv, PTL DEF Spec
<1> QED BY <1>1, <1>2, <1>3, PTL DEF Spec, ImplementsPoints, Abstract!Spec

-----------------------------------------------------------------------------
(* AckWaitlist.                                                            *)
(*                                                                         *)
(* What FoldSet does with the runs.  The function it iterates is a CHOOSE; *)
(* that it exists is shown for ever larger subsets of the runs.            *)
Last(s) == CHOOSE x \in s : TRUE
TrackOnto(g, t, s) ==
  IF s = {} THEN t ELSE Track(g[s \ {Last(s)}], Last(s)[1], Last(s)[2])

UpTo(S, n) == {s \in SUBSET S : Cardinality(s) <= n}

LEMMA Smaller ==
  ASSUME NEW S, IsFiniteSet(S), NEW s \in SUBSET S, s # {}
  PROVE  /\ IsFiniteSet(s) /\ Last(s) \in s
         /\ Cardinality(s) \in Nat \ {0} /\ Cardinality(s \ {Last(s)}) = Cardinality(s) - 1
         /\ s \ {Last(s)} \in SUBSET S
<1>1. IsFiniteSet(s) /\ Cardinality(s) \in Nat
  BY FS_Subset, FS_CardinalityType
<1>2. Last(s) \in s
  BY DEF Last
<1>3. Cardinality(s) # 0
  BY <1>1, FS_EmptySet
<1>4. Cardinality(s \ {Last(s)}) = Cardinality(s) - 1
  BY <1>1, <1>2, FS_RemoveElement
<1> QED BY <1>1, <1>2, <1>3, <1>4

LEMMA IterationExists ==
  ASSUME NEW t, NEW S, IsFiniteSet(S)
  PROVE  \E g : g = [s \in SUBSET S |-> TrackOnto(g, t, s)]
<1> DEFINE Good(n) == \E g : g = [s \in UpTo(S, n) |-> TrackOnto(g, t, s)]
<1>1. ASSUME NEW n \in Nat, ~Good(n), \A k \in Nat : k < n => Good(k)
      PROVE  FALSE
  <2>1. CASE n = 0
    <3>1. \A s \in UpTo(S, 0) : s = {}
      <4> SUFFICES ASSUME NEW s \in UpTo(S, 0), s # {} PROVE FALSE
        OBVIOUS
      <4>1. s \in SUBSET S /\ Cardinality(s) <= 0
        BY DEF UpTo
      <4>2. Cardinality(s) \in Nat \ {0}
        BY <4>1, Smaller
      <4> QED BY <4>1, <4>2
    <3>2. PICK g : g = [s \in UpTo(S, 0) |-> t]
      OBVIOUS
    <3>3. g = [s \in UpTo(S, 0) |-> TrackOnto(g, t, s)]
      BY <3>1, <3>2, Zenon DEF TrackOnto
    <3> QED BY <3>3, <2>1, <1>1
  <2>2. CASE n # 0
    <3>1. n - 1 \in Nat /\ n - 1 < n
      BY <2>2
    <3>2. PICK g : g = [s \in UpTo(S, n - 1) |-> TrackOnto(g, t, s)]
      BY <3>1, <1>1
    <3>3. PICK h : h = [s \in UpTo(S, n) |->
                          IF s \in UpTo(S, n - 1) THEN g[s] ELSE TrackOnto(g, t, s)]
      OBVIOUS
    <3>4. ASSUME NEW s \in UpTo(S, n)
          PROVE  h[s] = TrackOnto(h, t, s)
      <4>1. CASE s = {}
        <5>1. s \in UpTo(S, n - 1)
          BY <4>1, <3>1, FS_EmptySet DEF UpTo
        <5> QED BY <4>1, <5>1, <3>2, <3>3, Zenon DEF TrackOnto
      <4>2. CASE s # {}
        <5>1. s \ {Last(s)} \in UpTo(S, n - 1) /\ s \ {Last(s)} \in UpTo(S, n)
          BY <4>2, <3>1, Smaller DEF UpTo
        <5>2. h[s \ {Last(s)}] = g[s \ {Last(s)}]
          BY <5>1, <3>3, Zenon
        <5>3. TrackOnto(h, t, s) = TrackOnto(g, t, s)
          BY <5>2, Zenon DEF TrackOnto
        <5>4. h[s] = TrackOnto(g, t, s)
          BY <3>2, <3>3, Zenon
        <5> QED BY <5>3, <5>4
      <4> QED BY <4>1, <4>2
    <3>5. h = [s \in UpTo(S, n) |-> h[s]]
      BY <3>3, Zenon
    <3>6. h = [s \in UpTo(S, n) |-> TrackOnto(h, t, s)]
      BY <3>4, <3>5, Zenon
    <3> QED BY <3>6, <1>1
  <2> QED BY <2>1, <2>2
<1>2. \A n \in Nat : Good(n)
  <2> SUFFICES ASSUME NEW m \in Nat, ~Good(m) PROVE FALSE
    OBVIOUS
  <2> HIDE DEF Good
  <2> DEFINE T == {n \in Nat : ~Good(n)}
  <2>1. PICK n \in T : \A k \in T : n <= k
    <3>1. T \subseteq Nat /\ T # {}
      OBVIOUS
    <3> HIDE DEF T
    <3> QED BY <3>1, NatMin
  <2>2. \A k \in Nat : k < n => Good(k)
    BY <2>1
  <2> QED BY <1>1, <2>1, <2>2
<1>3. Cardinality(S) \in Nat
  BY FS_CardinalityType
<1>4. UpTo(S, Cardinality(S)) = SUBSET S
  BY FS_Subset DEF UpTo
<1> QED BY <1>2, <1>3, <1>4, Zenon

TrackRuns(t, S) == FoldSet(LAMBDA run, acc : Track(acc, run[1], run[2]), t, S)

Iterates(g, t, S) ==
  TrackRuns(t, S) = g[S] /\ \A s \in SUBSET S : g[s] = TrackOnto(g, t, s)

LEMMA TrackRunsIterates ==
  ASSUME NEW t, NEW S, IsFiniteSet(S)
  PROVE  \E g : Iterates(g, t, S)
<1>1. PICK g : g = CHOOSE h : h = [s \in SUBSET S |-> TrackOnto(h, t, s)]
  OBVIOUS
<1>2. TrackRuns(t, S) = g[S]
  BY <1>1 DEF TrackRuns, FoldSet, MapThenFoldSet, TrackOnto, Last
<1>3. g = [s \in SUBSET S |-> TrackOnto(g, t, s)]
  <2>1. \E h : h = [s \in SUBSET S |-> TrackOnto(h, t, s)]
    BY IterationExists
  <2>2. g = CHOOSE h : h = [s \in SUBSET S |-> TrackOnto(h, t, s)]
    BY <1>1
  <2> QED BY <2>1, <2>2, Zenon
<1> QED BY <1>2, <1>3, Zenon DEF Iterates

(* Runs that nothing covers, and that do not meet, are all tracked, in     *)
(* whatever order.                                                         *)
Positions(s, off) == UNION {r[1] + off..r[2] + off : r \in s}

Untracked(t, S) ==
  /\ S \subseteq DTRange
  /\ \A a, b \in S : a # b => a[2] < b[1] \/ b[2] < a[1]
  /\ Positions(S, t.offset) \cap Cover(t.ranges) = {}

Tracked(u, t, s) ==
  /\ TrackerOK(u) /\ u.offset = t.offset
  /\ Cover(u.ranges) = Cover(t.ranges) \cup Positions(s, t.offset)

LEMMA TrackOneMore ==
  ASSUME NEW t, TrackerOK(t), NEW S, Untracked(t, S), NEW s \in SUBSET S, NEW r \in S, r \notin s,
         NEW u, Tracked(u, t, s)
  PROVE  Tracked(Track(u, r[1], r[2]), t, s \cup {r})
<1>1. PICK lo, hi : lo = r[1] /\ hi = r[2]
  OBVIOUS
<1>2. lo \in Nat /\ hi \in Nat /\ lo <= hi /\ t.offset \in Nat
  BY <1>1 DEF Untracked, DTRange, TrackerOK
<1>3. ASSUME NEW x \in lo + u.offset..hi + u.offset
      PROVE  x \notin Cover(u.ranges)
  <2>1. x \in lo + t.offset..hi + t.offset
    BY DEF Tracked
  <2>2. x \notin Cover(t.ranges)
    BY <1>1, <2>1 DEF Untracked, Positions
  <2>3. ASSUME NEW a \in s, x \in a[1] + t.offset..a[2] + t.offset PROVE FALSE
    <3>1. a[1] \in Nat /\ a[2] \in Nat /\ (a[2] < lo \/ hi < a[1])
      BY <1>1 DEF Untracked, DTRange
    <3> QED BY <1>2, <2>1, <2>3, <3>1
  <2> QED BY <2>2, <2>3 DEF Tracked, Positions
<1>4. /\ TrackerOK(Track(u, lo, hi)) /\ Track(u, lo, hi).offset = u.offset
      /\ Cover(Track(u, lo, hi).ranges) = Cover(u.ranges) \cup lo + u.offset..hi + u.offset
  BY <1>2, <1>3, TrackFacts DEF Tracked
<1>5. Positions(s \cup {r}, t.offset) = Positions(s, t.offset) \cup lo + t.offset..hi + t.offset
  BY <1>1, Zenon DEF Positions
<1>6. u.offset = t.offset
  BY DEF Tracked
<1> QED BY <1>1, <1>4, <1>5, <1>6, Zenon DEF Tracked

LEMMA TrackRunsFacts ==
  ASSUME NEW t, TrackerOK(t), NEW S, IsFiniteSet(S), Untracked(t, S)
  PROVE  Tracked(TrackRuns(t, S), t, S)
<1>1. PICK g : Iterates(g, t, S)
  BY TrackRunsIterates
<1> DEFINE T == {n \in Nat : \E s \in SUBSET S : Cardinality(s) = n /\ ~Tracked(g[s], t, s)}
<1>2. T = {}
  <2> SUFFICES ASSUME T # {} PROVE FALSE
    OBVIOUS
  <2>1. PICK n \in T : \A k \in T : n <= k
    <3>1. T \subseteq Nat
      OBVIOUS
    <3> HIDE DEF T
    <3> QED BY <3>1, NatMin
  <2>2. PICK s \in SUBSET S : Cardinality(s) = n /\ ~Tracked(g[s], t, s)
    OBVIOUS
  <2>3. g[s] = TrackOnto(g, t, s)
    BY <1>1 DEF Iterates
  <2>4. s # {}
    <3> SUFFICES ASSUME s = {} PROVE FALSE
      OBVIOUS
    <3>1. g[s] = t
      BY <2>3 DEF TrackOnto
    <3>2. Positions(s, t.offset) = {}
      BY DEF Positions
    <3>3. Tracked(t, t, s)
      BY <3>2 DEF Tracked
    <3> QED BY <2>2, <3>1, <3>3
  <2>5. PICK r, v : r = Last(s) /\ v = s \ {r}
    OBVIOUS
  <2>6. r \in s /\ v \in SUBSET S /\ Cardinality(v) = n - 1 /\ n \in Nat \ {0}
    BY <2>2, <2>4, <2>5, Smaller
  <2>7. n - 1 \in Nat /\ n - 1 \notin T
    BY <2>1, <2>6
  <2>8. Tracked(g[v], t, v)
    BY <2>6, <2>7
  <2>9. g[s] = Track(g[v], r[1], r[2])
    BY <2>3, <2>4, <2>5 DEF TrackOnto
  <2>10. r \in S /\ r \notin v /\ s = v \cup {r}
    BY <2>5, <2>6
  <2>11. Tracked(Track(g[v], r[1], r[2]), t, v \cup {r})
    BY <2>6, <2>8, <2>10, TrackOneMore
  <2> QED BY <2>2, <2>9, <2>10, <2>11
<1>3. Cardinality(S) \in Nat /\ S \in SUBSET S
  BY FS_CardinalityType
<1> QED BY <1>1, <1>2, <1>3 DEF Iterates

(* The runs of the selected indices are the longest stretches of them, if  *)
(* the sequence numbers tell neighbours: they cover the indices (counted   *)
(* from 0 there) and do not meet.                                          *)
TellNeighbours(w, I) ==
  \A i, j \in I : j < i => (Plus(w[j].seqno, 1) = w[i].seqno <=> i = j + 1)

Starts(I)  == {i \in I : i - 1 \notin I}
Run(I, i)  == {j \in I : i <= j /\ ~\E k \in Starts(I) : i < k /\ k <= j}

LEMMA RunsAreStretches ==
  ASSUME NEW w, NEW I, I \subseteq Nat, TellNeighbours(w, I)
  PROVE  Runs(w, I) = {<<i - 1, Max(Run(I, i)) - 1>> : i \in Starts(I)}
<1>1. {i \in I : ~\E j \in I : j < i /\ Plus(w[j].seqno, 1) = w[i].seqno} = Starts(I)
  <2>1. ASSUME NEW i \in I
        PROVE  (\E j \in I : j < i /\ Plus(w[j].seqno, 1) = w[i].seqno) <=> i - 1 \in I
    BY DEF TellNeighbours
  <2> QED BY <2>1 DEF Starts
<1> QED BY <1>1, Zenon DEF Runs, Run

LEMMA RunFacts ==
  ASSUME NEW n \in Nat, NEW I, I \subseteq 1..n, NEW i \in Starts(I)
  PROVE  /\ Max(Run(I, i)) \in Run(I, i) /\ i <= Max(Run(I, i))
         /\ i..Max(Run(I, i)) \subseteq I
         /\ \A j \in Run(I, i) : j <= Max(Run(I, i))
<1>1. i \in Run(I, i) /\ Run(I, i) \subseteq 1..n /\ Run(I, i) \subseteq I
  <2>1. i \in I /\ i \in 1..n /\ Starts(I) \subseteq 1..n
    BY DEF Starts
  <2>2. ~\E k \in Starts(I) : i < k /\ k <= i
    BY <2>1
  <2>3. Run(I, i) \subseteq I
    BY DEF Run
  <2>4. i \in Run(I, i)
    <3>1. i <= i
      BY <2>1
    <3> QED BY <2>1, <2>2, <3>1, Zenon DEF Run
  <2> QED BY <2>3, <2>4
<1>2. PICK m \in Run(I, i) : \A j \in Run(I, i) : j <= m
  <2> DEFINE T == {n - j : j \in Run(I, i)}
  <2>1. T \subseteq Nat /\ T # {}
    BY <1>1
  <2> HIDE DEF T
  <2>2. PICK x \in T : \A y \in T : x <= y
    BY <2>1, NatMin
  <2>3. PICK m \in Run(I, i) : x = n - m
    BY DEF T
  <2>4. ASSUME NEW j \in Run(I, i) PROVE j <= m
    <3>1. n - j \in T
      BY DEF T
    <3> QED BY <1>1, <2>2, <2>3, <3>1
  <2> QED BY <2>4
<1>3. Max(Run(I, i)) \in Run(I, i) /\ \A j \in Run(I, i) : Max(Run(I, i)) >= j
  <2>1. \E x \in Run(I, i) : \A y \in Run(I, i) : x >= y
    BY <1>1, <1>2
  <2> QED BY <2>1 DEF Max
<1>4. PICK top : top = Max(Run(I, i))
  OBVIOUS
<1>5. ASSUME NEW k \in i..top, k \notin I PROVE FALSE
  <2> DEFINE T == {x \in I : k < x}
  <2>1. top \in T /\ T \subseteq Nat
    <3>1. top \in I /\ top \in Nat /\ i \in Nat /\ I \subseteq Nat
      BY <1>1, <1>3, <1>4
    <3>2. k \in Nat /\ k <= top /\ k # top
      BY <3>1, <1>5
    <3>3. k < top
      BY <3>1, <3>2
    <3>4. \A x \in T : x \in I
      OBVIOUS
    <3>5. top \in T
      BY <3>1, <3>3
    <3> HIDE DEF T
    <3> QED BY <3>1, <3>4, <3>5
  <2>2. PICK x \in T : \A y \in T : x <= y
    <3> HIDE DEF T
    <3> QED BY <2>1, NatMin
  <2>3. x \in Nat /\ k \in Nat /\ k < x /\ x \in I
    BY <1>1
  <2>4. x - 1 \notin I
    <3>1. CASE x - 1 = k
      BY <3>1, <1>5
    <3>2. CASE x - 1 # k
      BY <3>2, <2>2, <2>3
    <3> QED BY <3>1, <3>2
  <2>5. x \in Starts(I) /\ i < x /\ x <= top
    BY <1>1, <2>1, <2>2, <2>3, <2>4 DEF Starts
  <2> QED BY <1>3, <1>4, <2>5 DEF Run
<1> QED BY <1>1, <1>3, <1>4, <1>5

(* Every index is in the run of the last start before it. *)
LEMMA InSomeRun ==
  ASSUME NEW n \in Nat, NEW I, I \subseteq 1..n, NEW j \in I
  PROVE  \E i \in Starts(I) : i <= j /\ j <= Max(Run(I, i))
<1> DEFINE T == {x \in 1..j : x..j \subseteq I}
<1>1. j \in Nat /\ j \in T /\ T \subseteq Nat
  OBVIOUS
<1>2. PICK i \in T : \A y \in T : i <= y
  <2> HIDE DEF T
  <2> QED BY <1>1, NatMin
<1>3. i \in Nat /\ i \in I /\ i <= j
  BY <1>1, <1>2
<1>4. i - 1 \notin I
  <2> SUFFICES ASSUME i - 1 \in I PROVE FALSE
    OBVIOUS
  <2>1. i - 1 \in 1..j /\ i - 1..j \subseteq I
    BY <1>2, <1>3
  <2> QED BY <1>2, <1>3, <2>1
<1>5. i \in Starts(I)
  BY <1>3, <1>4 DEF Starts
<1>6. j \in Run(I, i)
  <2>1. ASSUME NEW k \in Starts(I), i < k, k <= j PROVE FALSE
    <3>1. k - 1 \in i..j
      BY <1>1, <1>3, <2>1 DEF Starts
    <3> QED BY <1>2, <3>1, <2>1 DEF Starts
  <2> QED BY <1>3, <2>1 DEF Run
<1> QED BY <1>3, <1>5, <1>6, RunFacts

Shifted(I, off) == {off + i - 1 : i \in I}

LEMMA RunsFacts ==
  ASSUME NEW w, NEW n \in Nat, NEW I, I \subseteq 1..n, TellNeighbours(w, I)
  PROVE  /\ IsFiniteSet(Runs(w, I)) /\ Runs(w, I) \subseteq DTRange
         /\ \A a, b \in Runs(w, I) : a # b => a[2] < b[1] \/ b[2] < a[1]
         /\ \A off \in Nat : Positions(Runs(w, I), off) = Shifted(I, off)
<1>1. Runs(w, I) = {<<i - 1, Max(Run(I, i)) - 1>> : i \in Starts(I)}
  <2>1. I \subseteq Nat
    OBVIOUS
  <2> QED BY <2>1, RunsAreStretches
<1>2. Starts(I) \subseteq I
  BY DEF Starts
<1>3. \A i \in Starts(I) : /\ i \in 1..n /\ Max(Run(I, i)) \in 1..n /\ i <= Max(Run(I, i))
                           /\ Max(Run(I, i)) \in Run(I, i) /\ i..Max(Run(I, i)) \subseteq I
  <2> SUFFICES ASSUME NEW i \in Starts(I)
               PROVE  /\ i \in 1..n /\ Max(Run(I, i)) \in 1..n /\ i <= Max(Run(I, i))
                      /\ Max(Run(I, i)) \in Run(I, i) /\ i..Max(Run(I, i)) \subseteq I
    OBVIOUS
  <2>1. Run(I, i) \subseteq I
    BY DEF Run
  <2> QED BY <1>2, <2>1, RunFacts
<1>4. IsFiniteSet(Runs(w, I))
  <2>1. IsFiniteSet((0..n) \X (0..n))
    <3>1. IsFiniteSet(0..n)
      BY FS_Interval
    <3> QED BY <3>1, FS_Product
  <2>2. Runs(w, I) \subseteq (0..n) \X (0..n)
    BY <1>1, <1>3
  <2> QED BY <2>1, <2>2, FS_Subset
<1>5. Runs(w, I) \subseteq DTRange
  BY <1>1, <1>3 DEF DTRange
<1>6. ASSUME NEW i \in Starts(I), NEW k \in Starts(I), i < k
      PROVE  Max(Run(I, i)) < k
  <2>1. ~(k <= Max(Run(I, i)))
    BY <1>3, <1>6 DEF Run
  <2> QED BY <1>3, <2>1
<1>7. ASSUME NEW a \in Runs(w, I), NEW b \in Runs(w, I), a # b
      PROVE  a[2] < b[1] \/ b[2] < a[1]
  <2>1. PICK i \in Starts(I) : a = <<i - 1, Max(Run(I, i)) - 1>>
    BY <1>1
  <2>2. PICK k \in Starts(I) : b = <<k - 1, Max(Run(I, k)) - 1>>
    BY <1>1
  <2>3. i # k
    BY <1>7, <2>1, <2>2
  <2> QED BY <1>3, <1>6, <2>1, <2>2, <2>3
<1>8. ASSUME NEW off \in Nat
      PROVE  Positions(Runs(w, I), off) = Shifted(I, off)
  <2>1. ASSUME NEW x \in Positions(Runs(w, I), off)
        PROVE  x \in Shifted(I, off)
    <3>1. PICK r \in Runs(w, I) : x \in r[1] + off..r[2] + off
      BY <2>1 DEF Positions
    <3>2. PICK i \in Starts(I) : r = <<i - 1, Max(Run(I, i)) - 1>>
      BY <1>1
    <3>3. PICK m \in 1..n : m = Max(Run(I, i)) /\ i \in 1..n /\ i..m \subseteq I
      BY <1>3
    <3>4. x \in i - 1 + off..m - 1 + off
      BY <3>1, <3>2, <3>3
    <3>5. x - off + 1 \in i..m /\ x = off + (x - off + 1) - 1
      BY <3>3, <3>4
    <3> QED BY <3>3, <3>5 DEF Shifted
  <2>2. ASSUME NEW j \in I
        PROVE  off + j - 1 \in Positions(Runs(w, I), off)
    <3>1. PICK i \in Starts(I) : i <= j /\ j <= Max(Run(I, i))
      BY InSomeRun
    <3>2. PICK m \in 1..n : m = Max(Run(I, i)) /\ i \in 1..n /\ j \in 1..n
      BY <1>3
    <3>3. off + j - 1 \in i - 1 + off..m - 1 + off
      BY <3>1, <3>2
    <3>4. <<i - 1, m - 1>> \in Runs(w, I)
      BY <1>1, <3>2
    <3> QED BY <3>3, <3>4 DEF Positions
  <2> QED BY <2>1, <2>2 DEF Shifted
<1> QED BY <1>4, <1>5, <1>7, <1>8

(* remove_non_wrapping tracks exactly the selected positions. *)
Flags(u, t, I) ==
  /\ TrackerOK(u) /\ u.offset = t.offset
  /\ Cover(u.ranges) = Cover(t.ranges) \cup Shifted(I, t.offset)

LEMMA SelectedFacts ==
  ASSUME NEW t, TrackerOK(t), NEW w, NEW n \in Nat, NEW I, I \subseteq 1..n,
         TellNeighbours(w, I), \A i \in I : t.offset + i - 1 \notin Cover(t.ranges)
  PROVE  Flags(TrackSelected(t, w, I), t, I)
<1>1. TrackSelected(t, w, I) = TrackRuns(t, Runs(w, I))
  BY DEF TrackSelected, TrackRuns, FoldSet, MapThenFoldSet
<1>2. t.offset \in Nat
  BY DEF TrackerOK
<1>3. Positions(Runs(w, I), t.offset) = Shifted(I, t.offset)
  <2>1. \A off \in Nat : Positions(Runs(w, I), off) = Shifted(I, off)
    BY RunsFacts
  <2> QED BY <1>2, <2>1, Zenon
<1>4. IsFiniteSet(Runs(w, I)) /\ Untracked(t, Runs(w, I))
  <2>1. Shifted(I, t.offset) \cap Cover(t.ranges) = {}
    BY DEF Shifted
  <2> QED BY <1>3, <2>1, RunsFacts DEF Untracked
<1>5. Tracked(TrackRuns(t, Runs(w, I)), t, Runs(w, I))
  BY <1>4, TrackRunsFacts
<1> QED BY <1>1, <1>3, <1>5, Zenon DEF Tracked, Flags

-----------------------------------------------------------------------------
(* The list: the queue q and the tracker t after k packets.  The tracker's *)
(* offset is the stream position of the front of the queue, so position    *)
(* t.offset + i - 1 is that of entry i.                                    *)
EntriesOf(q, t) ==
  [i \in DOMAIN q |->
     [seqno |-> q[i], acked |-> \E a \in Relative(t) : ContainsPoint(a, i - 1)]]

At(t, i)      == t.offset + i - 1
Flag(t, i)    == At(t, i) \in Cover(t.ranges)
Waiting(q, t) == {i \in 1..Len(q) : ~Flag(t, i)}

ListOK(q, t, k) ==
  /\ q \in Seq(Seqno) /\ k \in Nat /\ t.offset + Len(q) = k
  /\ TrackerOK(t)
  /\ \A i \in 1..Len(q) : q[i] = Plus(FirstSeqno, At(t, i))
  /\ \A x \in Cover(t.ranges) : x < k
  /\ \A i \in Waiting(q, t) : Len(q) - i < WindowSize

LEMMA EntriesFacts ==
  ASSUME NEW q, NEW t, NEW k, ListOK(q, t, k)
  PROVE  /\ DOMAIN EntriesOf(q, t) = 1..Len(q) /\ Len(q) \in Nat /\ t.offset \in Nat
         /\ DOMAIN q = 1..Len(q)
         /\ \A i \in 1..Len(q) : /\ EntriesOf(q, t)[i] \in [seqno : Seqno, acked : BOOLEAN]
                                 /\ EntriesOf(q, t)[i].seqno = q[i]
                                 /\ EntriesOf(q, t)[i].acked <=> Flag(t, i)
         /\ Unacked(EntriesOf(q, t)) = Waiting(q, t)
         /\ EntriesOf(q, t) \in Seq([seqno : Seqno, acked : BOOLEAN])
         /\ Len(EntriesOf(q, t)) = Len(q)
<1>1. DOMAIN q = 1..Len(q) /\ Len(q) \in Nat /\ t.offset \in Nat
      /\ \A i \in 1..Len(q) : q[i] \in Seqno
  BY DEF ListOK, TrackerOK
<1>2. ASSUME NEW i \in 1..Len(q)
      PROVE  (\E a \in Relative(t) : ContainsPoint(a, i - 1)) <=> Flag(t, i)
  <2>1. \A a \in t.ranges : a[1] \in Nat /\ a[2] \in Nat
    BY DEF ListOK, TrackerOK, DTRange
  <2>2. ASSUME NEW a \in t.ranges
        PROVE  ContainsPoint(<<a[1] - t.offset, a[2] - t.offset>>, i - 1) <=> At(t, i) \in a[1]..a[2]
    BY <1>1, <2>1 DEF ContainsPoint, At
  <2> QED BY <2>2 DEF Relative, Flag, Cover
<1>3. ASSUME NEW i \in 1..Len(q)
      PROVE  /\ EntriesOf(q, t)[i].seqno = q[i]
             /\ EntriesOf(q, t)[i].acked \in BOOLEAN
             /\ EntriesOf(q, t)[i].acked <=> Flag(t, i)
  <2>1. PICK r : r = \E a \in Relative(t) : ContainsPoint(a, i - 1)
    OBVIOUS
  <2>2. r \in BOOLEAN /\ (r <=> \E a \in Relative(t) : ContainsPoint(a, i - 1))
    BY <2>1
  <2>3. EntriesOf(q, t)[i] = [seqno |-> q[i], acked |-> r]
    BY <1>1, <2>1, Zenon DEF EntriesOf
  <2>4. r <=> At(t, i) \in Cover(t.ranges)
    BY <1>2, <2>2, Zenon DEF Flag
  <2>5. EntriesOf(q, t)[i].seqno = q[i] /\ EntriesOf(q, t)[i].acked = r
    BY <2>3
  <2> QED BY <2>2, <2>4, <2>5, Zenon DEF Flag
<1>4. DOMAIN EntriesOf(q, t) = 1..Len(q)
  BY <1>1 DEF EntriesOf
<1>5. Unacked(EntriesOf(q, t)) = Waiting(q, t)
  <2> QED BY <1>3, <1>4, Zenon DEF Unacked, Waiting
<1>6. \A i \in 1..Len(q) : EntriesOf(q, t)[i] \in [seqno : Seqno, acked : BOOLEAN]
  <2> SUFFICES ASSUME NEW i \in 1..Len(q)
               PROVE  EntriesOf(q, t)[i] \in [seqno : Seqno, acked : BOOLEAN]
    OBVIOUS
  <2>1. EntriesOf(q, t)[i] = [seqno |-> q[i], acked |-> EntriesOf(q, t)[i].acked]
    BY <1>1, Zenon DEF EntriesOf
  <2>2. q[i] \in Seqno /\ EntriesOf(q, t)[i].acked \in BOOLEAN
    BY <1>1, <1>3, Zenon
  <2> QED BY <2>1, <2>2
<1>7. EntriesOf(q, t) = [i \in 1..Len(q) |-> EntriesOf(q, t)[i]]
  BY <1>1, Zenon DEF EntriesOf
<1>8. /\ EntriesOf(q, t) \in Seq([seqno : Seqno, acked : BOOLEAN])
      /\ Len(EntriesOf(q, t)) = Len(q)
  <2> DEFINE e == EntriesOf(q, t)
             R == [seqno : Seqno, acked : BOOLEAN]
  <2>1. e \in [1..Len(q) -> R]
    BY <1>6, <1>7, Zenon
  <2> HIDE DEF e, R
  <2>2. e \in Seq(R) /\ Len(e) = Len(q)
    BY <1>1, <2>1
  <2> QED BY <2>2 DEF e, R
<1> QED BY <1>1, <1>3, <1>4, <1>5, <1>6, <1>8, Zenon

(* The waiting entries lie within a window that is smaller than the number *)
(* of sequence numbers, which therefore tell neighbours.                   *)
LEMMA WaitingTellNeighbours ==
  ASSUME NEW q, NEW t, NEW k, ListOK(q, t, k), NEW I, I \subseteq Waiting(q, t),
         NEW w, \A i \in I : w[i].seqno = q[i]
  PROVE  TellNeighbours(w, I)
<1> SUFFICES ASSUME NEW i \in I, NEW j \in I, j < i
             PROVE  Plus(w[j].seqno, 1) = w[i].seqno <=> i = j + 1
  BY DEF TellNeighbours
<1>1. /\ i \in 1..Len(q) /\ j \in 1..Len(q) /\ Len(q) - j < WindowSize
      /\ Len(q) \in Nat /\ t.offset \in Nat
  BY DEF Waiting, ListOK, TrackerOK
<1>2. w[j].seqno = Plus(FirstSeqno, At(t, j)) /\ w[i].seqno = Plus(FirstSeqno, At(t, i))
  BY <1>1 DEF ListOK
<1>3. At(t, i) \in Int /\ At(t, j) \in Int /\ FirstSeqno \in Int /\ SeqMod \in Nat
  BY <1>1, FirstAssumption, SeqModAssumption DEF At, Seqno
<1>4. Plus(w[j].seqno, 1) = Plus(FirstSeqno, At(t, j) + 1)
  <2>1. \A one \in Int : Plus(Plus(FirstSeqno, At(t, j)), one) = Plus(FirstSeqno, At(t, j) + one)
    BY <1>3, SeqnoFacts
  <2>2. 1 \in Int
    OBVIOUS
  <2> QED BY <1>2, <2>1, <2>2, Zenon
<1>5. At(t, i) - (At(t, j) + 1) = i - j - 1 /\ i - j - 1 \in 0..SeqMod - 1
  BY <1>1, <1>3, WindowAssumption, SMTT(60) DEF At
<1>6. PICK x, y : x = At(t, i) /\ y = At(t, j) + 1
  OBVIOUS
<1>7. /\ x \in Int /\ y \in Int /\ x - y = i - j - 1 /\ y - y = 0 /\ 0 \in 0..SeqMod - 1
      /\ x - y \in 0..SeqMod - 1 /\ y - y \in 0..SeqMod - 1
  BY <1>3, <1>5, <1>6, SeqModAssumption
<1>8. Minus(Plus(FirstSeqno, x), Plus(FirstSeqno, y)) = i - j - 1
  BY <1>3, <1>5, <1>7, SeqnoFacts
<1>9. Minus(Plus(FirstSeqno, y), Plus(FirstSeqno, y)) = 0
  BY <1>3, <1>7, SeqnoFacts
<1>10. CASE i = j + 1
  <2>1. At(t, i) = At(t, j) + 1
    BY <1>1, <1>10 DEF At
  <2> QED BY <1>2, <1>4, <1>10, <2>1, Zenon
<1>11. CASE i # j + 1
  BY <1>1, <1>2, <1>4, <1>6, <1>8, <1>9, <1>11
<1> QED BY <1>10, <1>11


(* Setting the flag of an entry. *)
LEMMA SetFlag ==
  ASSUME NEW x \in [seqno : Seqno, acked : BOOLEAN],
         NEW z \in [seqno : Seqno, acked : BOOLEAN], NEW i, NEW I,
         z.seqno = x.seqno, z.acked <=> x.acked \/ i \in I
  PROVE  [x EXCEPT !.acked = @ \/ i \in I] = z
OBVIOUS

(* A list with more flags. *)
MoreFlags(q, t, k, u, I) ==
  /\ ListOK(q, u, k)
  /\ Waiting(q, u) = Waiting(q, t) \ I
  /\ EntriesOf(q, u) = Mark(EntriesOf(q, t), I)

LEMMA FlaggedFacts ==
  ASSUME NEW q, NEW t, NEW k, ListOK(q, t, k), NEW I, I \subseteq 1..Len(q),
         NEW u, Flags(u, t, I)
  PROVE  MoreFlags(q, t, k, u, I)
<1>1. /\ Len(q) \in Nat /\ t.offset \in Nat
  BY EntriesFacts
<1>2. \A i \in Int : At(u, i) = At(t, i)
  BY DEF At, Flags
<1>3. \A i \in 1..Len(q) : At(t, i) \in Shifted(I, t.offset) <=> i \in I
  BY <1>1 DEF At, Shifted
<1>4. \A i \in 1..Len(q) : Flag(u, i) <=> Flag(t, i) \/ i \in I
  BY <1>2, <1>3 DEF Flag, Flags
<1>5. Waiting(q, u) = Waiting(q, t) \ I
  BY <1>4 DEF Waiting
<1>6. \A x \in Shifted(I, t.offset) : x < t.offset + Len(q)
  BY <1>1 DEF Shifted
<1>7. ListOK(q, u, k)
  BY <1>2, <1>5, <1>6 DEF ListOK, Flags
<1>8. ASSUME NEW i \in 1..Len(q)
      PROVE  EntriesOf(q, u)[i] = Mark(EntriesOf(q, t), I)[i]
  <2>1. PICK x, z : x = EntriesOf(q, t)[i] /\ z = EntriesOf(q, u)[i]
    OBVIOUS
  <2>2. /\ x.seqno = q[i] /\ z.seqno = q[i]
        /\ x.acked <=> Flag(t, i)
        /\ z.acked <=> Flag(u, i)
        /\ x \in [seqno : Seqno, acked : BOOLEAN] /\ z \in [seqno : Seqno, acked : BOOLEAN]
        /\ i \in DOMAIN EntriesOf(q, t)
    BY <1>7, <2>1, EntriesFacts
  <2>3. Mark(EntriesOf(q, t), I)[i] = [x EXCEPT !.acked = @ \/ i \in I]
    BY <2>1, <2>2, Zenon DEF Mark
  <2>4. z.acked <=> x.acked \/ i \in I
    BY <1>4, <2>2, Zenon
  <2> QED BY <2>1, <2>2, <2>3, <2>4, SetFlag
<1>9. EntriesOf(q, u) = Mark(EntriesOf(q, t), I)
  <2>1. /\ DOMAIN EntriesOf(q, u) = 1..Len(q) /\ DOMAIN EntriesOf(q, t) = 1..Len(q)
        /\ EntriesOf(q, u) = [i \in 1..Len(q) |-> EntriesOf(q, u)[i]]
    <3>1. DOMAIN q = 1..Len(q)
      BY <1>7, EntriesFacts
    <3> QED BY <1>7, <3>1, EntriesFacts, Zenon DEF EntriesOf
  <2>2. /\ Mark(EntriesOf(q, t), I) = [i \in 1..Len(q) |-> Mark(EntriesOf(q, t), I)[i]]
    BY <2>1, Zenon DEF Mark
  <2> QED BY <1>8, <2>1, <2>2, Zenon
<1> QED BY <1>5, <1>7, <1>9, Zenon DEF MoreFlags

LEMMA SelectedAreUnacked ==
  ASSUME NEW w, NEW lo, NEW hi
  PROVE  Selected(w, lo, hi) \subseteq Unacked(w)
BY DEF Selected

(* remove() marks in the list what it tracks. *)
RemovedAs(q, t, k, lo, hi, u) ==
  /\ ListOK(q, u, k) /\ EntriesOf(q, u) = Removed(EntriesOf(q, t), lo, hi)
  /\ Flags(u, t, FirstPart(EntriesOf(q, t), lo, hi) \cup SecondPart(EntriesOf(q, t), lo, hi))

LEMMA RemovedFacts ==
  ASSUME NEW q, NEW t, NEW k, ListOK(q, t, k), NEW lo, NEW hi, NEW u,
         u = TrackSelected(TrackSelected(t, EntriesOf(q, t), FirstPart(EntriesOf(q, t), lo, hi)),
                           Mark(EntriesOf(q, t), FirstPart(EntriesOf(q, t), lo, hi)),
                           SecondPart(EntriesOf(q, t), lo, hi))
  PROVE  RemovedAs(q, t, k, lo, hi, u)
<1> DEFINE w == EntriesOf(q, t)
           F == FirstPart(w, lo, hi)
           S == SecondPart(w, lo, hi)
           v == TrackSelected(t, w, F)
<1>1. Unacked(w) = Waiting(q, t) /\ Len(q) \in Nat /\ \A i \in 1..Len(q) : w[i].seqno = q[i]
  BY EntriesFacts
<1>2. F \subseteq Waiting(q, t)
  BY <1>1, SelectedAreUnacked, Zenon DEF FirstPart
<1>3. Waiting(q, t) \subseteq 1..Len(q)
  BY DEF Waiting
<1>4. S \subseteq Unacked(Mark(w, F))
  BY SelectedAreUnacked, Zenon DEF SecondPart
<1>u. u = TrackSelected(v, Mark(w, F), S)
  OBVIOUS
<1> HIDE DEF w, F, S, v
<1>5. Flags(v, t, F)
  <2>1. F \subseteq 1..Len(q) /\ TrackerOK(t)
    BY <1>2, <1>3 DEF ListOK
  <2>2. \A i \in F : t.offset + i - 1 \notin Cover(t.ranges)
    BY <1>2 DEF Waiting, Flag, At
  <2>3. TellNeighbours(w, F)
    <3>1. \A i \in F : w[i].seqno = q[i]
      BY <1>1, <2>1
    <3> QED BY <1>2, <3>1, WaitingTellNeighbours
  <2> QED BY <1>1, <2>1, <2>2, <2>3, SelectedFacts DEF v
<1>6. /\ ListOK(q, v, k) /\ Waiting(q, v) = Waiting(q, t) \ F
      /\ EntriesOf(q, v) = Mark(w, F)
  <2>1. F \subseteq 1..Len(q)
    BY <1>2, <1>3
  <2>2. w = EntriesOf(q, t)
    BY DEF w
  <2>3. /\ ListOK(q, v, k) /\ Waiting(q, v) = Waiting(q, t) \ F
        /\ EntriesOf(q, v) = Mark(EntriesOf(q, t), F)
    <3>1. MoreFlags(q, t, k, v, F)
      BY <1>5, <2>1, FlaggedFacts
    <3> QED BY <3>1, Zenon DEF MoreFlags
  <2> QED BY <2>2, <2>3, Zenon
<1>7. S \subseteq Waiting(q, v) /\ \A i \in 1..Len(q) : Mark(w, F)[i].seqno = q[i]
  BY <1>4, <1>6, EntriesFacts
<1>8. Flags(u, v, S)
  <2>1. S \subseteq 1..Len(q) /\ TrackerOK(v)
    BY <1>5, <1>6, <1>7, <1>3 DEF Flags
  <2>2. \A i \in S : v.offset + i - 1 \notin Cover(v.ranges)
    BY <1>7 DEF Waiting, Flag, At
  <2>3. TellNeighbours(Mark(w, F), S)
    <3>1. \A i \in S : Mark(w, F)[i].seqno = q[i]
      BY <1>7, <2>1
    <3> QED BY <1>6, <1>7, <3>1, WaitingTellNeighbours
  <2> QED BY <1>1, <1>u, <2>1, <2>2, <2>3, SelectedFacts
<1>9. Flags(u, t, F \cup S)
  <2>1. Shifted(F \cup S, t.offset) = Shifted(F, t.offset) \cup Shifted(S, t.offset)
    BY DEF Shifted
  <2> QED BY <1>5, <1>8, <2>1 DEF Flags
<1>10. ListOK(q, u, k) /\ EntriesOf(q, u) = Mark(w, F \cup S)
  <2>1. F \cup S \subseteq 1..Len(q)
    BY <1>2, <1>3, <1>6, <1>7
  <2>2. w = EntriesOf(q, t)
    BY DEF w
  <2>3. /\ ListOK(q, u, k)
        /\ EntriesOf(q, u) = Mark(EntriesOf(q, t), F \cup S)
    <3>1. MoreFlags(q, t, k, u, F \cup S)
      BY <1>9, <2>1, FlaggedFacts
    <3> QED BY <3>1, Zenon DEF MoreFlags
  <2> QED BY <2>2, <2>3, Zenon
<1>11. EntriesOf(q, u) = Removed(w, lo, hi)
  BY <1>10, Zenon DEF Removed, F, S
<1> QED BY <1>9, <1>10, <1>11, Zenon DEF RemovedAs, F, S, w


LEMMA FirstUnackedIsLeast ==
  ASSUME NEW w, NEW n \in Nat, Unacked(w) \subseteq 1..n, Unacked(w) # {}
  PROVE  FirstUnacked(w) \in Unacked(w) /\ \A j \in Unacked(w) : FirstUnacked(w) <= j
<1>1. \E x \in Unacked(w) : \A y \in Unacked(w) : x <= y
  <2>1. Unacked(w) \subseteq Nat
    OBVIOUS
  <2> QED BY <2>1, NatMin
<1> QED BY <1>1 DEF FirstUnacked

(* A packet is added at the end of the list, with the next number. *)
HasRoom(q, t) ==
  Unacked(EntriesOf(q, t)) # {} =>
    Len(q) - FirstUnacked(EntriesOf(q, t)) + 1 < WindowSize

NewEntry(s) == [seqno |-> s, acked |-> FALSE]

Appended(q, t, k, r) ==
  /\ ListOK(r, t, k + 1)
  /\ EntriesOf(r, t) = Append(EntriesOf(q, t), NewEntry(Plus(FirstSeqno, k)))
  /\ Plus(FirstSeqno, k) \in Seqno
  /\ EntriesOf(q, t) # <<>> =>
       Plus(FirstSeqno, k) = Plus(EntriesOf(q, t)[Len(EntriesOf(q, t))].seqno, 1)

LEMMA AppendFacts ==
  ASSUME NEW q, NEW t, NEW k, ListOK(q, t, k), HasRoom(q, t),
         NEW r, r = Append(q, Plus(FirstSeqno, k))
  PROVE  Appended(q, t, k, r)
<1> DEFINE s == Plus(FirstSeqno, k)
           w == EntriesOf(q, t)
           n == Len(q)
<1>1. /\ q \in Seq(Seqno) /\ n \in Nat /\ k \in Nat /\ t.offset \in Nat /\ t.offset + n = k
      /\ DOMAIN q = 1..n /\ FirstSeqno \in Int
  BY FirstAssumption, EntriesFacts DEF ListOK, Seqno
<1>2. /\ DOMAIN w = 1..n /\ Len(w) = n /\ Unacked(w) = Waiting(q, t)
      /\ w \in Seq([seqno : Seqno, acked : BOOLEAN])
  BY EntriesFacts
<1>3. s \in Seqno
  BY <1>1, SeqnoFacts
<1> HIDE DEF s, w
<1>4. r = Append(q, s)
  BY DEF s
<1>5. /\ r \in Seq(Seqno) /\ Len(r) = n + 1 /\ r[n + 1] = s
      /\ \A i \in 1..n : r[i] = q[i]
  BY <1>1, <1>3, <1>4
<1>6. At(t, n + 1) = k /\ k \notin Cover(t.ranges)
  BY <1>1 DEF At, ListOK
<1>7. n + 1 \in Waiting(r, t) /\ Waiting(r, t) = Waiting(q, t) \cup {n + 1}
  BY <1>1, <1>5, <1>6 DEF Waiting, Flag
<1>8. ListOK(r, t, k + 1)
  <2>1. \A i \in 1..Len(r) : r[i] = Plus(FirstSeqno, At(t, i))
    <3> SUFFICES ASSUME NEW i \in 1..Len(r) PROVE r[i] = Plus(FirstSeqno, At(t, i))
      OBVIOUS
    <3>1. CASE i \in 1..n
      BY <1>5, <3>1 DEF ListOK
    <3>2. CASE i = n + 1
      BY <1>5, <1>6, <3>2 DEF s
    <3> QED BY <1>1, <1>5, <3>1, <3>2
  <2>2. \A x \in Cover(t.ranges) : x < k + 1
    <3>1. \A x \in Cover(t.ranges) : x < k /\ x \in Int
      BY DEF ListOK, Cover, TrackerOK, DTRange
    <3> QED BY <1>1, <3>1
  <2>3. ASSUME NEW i \in Waiting(r, t) PROVE Len(r) - i < WindowSize
    <3>1. CASE i = n + 1
      BY <1>1, <1>5, <3>1, WindowAssumption
    <3>2. CASE i \in Waiting(q, t)
      <4>1. FirstUnacked(w) \in Unacked(w) /\ FirstUnacked(w) <= i
        <5>1. Unacked(w) \subseteq 1..n
          BY <1>2 DEF Waiting
        <5> QED BY <1>1, <1>2, <3>2, <5>1, FirstUnackedIsLeast
      <4>2. n - FirstUnacked(w) + 1 < WindowSize
        BY <4>1, Zenon DEF HasRoom, w
      <4>3. FirstUnacked(w) \in 1..n /\ i \in 1..n
        BY <1>2, <3>2, <4>1 DEF Waiting
      <4> QED BY <1>1, <1>5, <4>1, <4>2, <4>3, WindowAssumption, SeqModAssumption
    <3> QED BY <1>7, <2>3, <3>1, <3>2
  <2>4. t.offset + Len(r) = k + 1 /\ k + 1 \in Nat
    BY <1>1, <1>5
  <2> QED BY <1>5, <2>1, <2>2, <2>3, <2>4 DEF ListOK
<1>9. EntriesOf(r, t) = Append(w, NewEntry(s))
  <2> DEFINE R == [seqno : Seqno, acked : BOOLEAN]
             v == EntriesOf(r, t)
             a == Append(w, NewEntry(s))
  <2>1. /\ v \in Seq(R) /\ Len(v) = n + 1
        /\ \A i \in 1..n + 1 : /\ v[i] \in R /\ v[i].seqno = r[i]
                               /\ v[i].acked <=> Flag(t, i)
    <3>1. PICK m : m = k + 1
      OBVIOUS
    <3>2. ListOK(r, t, m)
      BY <1>8, <3>1
    <3>3. /\ v \in Seq(R) /\ Len(v) = Len(r)
          /\ \A i \in 1..Len(r) : /\ v[i] \in R /\ v[i].seqno = r[i]
                                  /\ v[i].acked <=> Flag(t, i)
      BY <3>2, EntriesFacts
    <3> QED BY <1>5, <3>3
  <2>2. \A i \in 1..n : /\ w[i] \in R /\ w[i].seqno = q[i]
                        /\ w[i].acked <=> Flag(t, i)
    BY EntriesFacts DEF w
  <2>3. NewEntry(s) \in R /\ NewEntry(s).seqno = s /\ ~NewEntry(s).acked
    BY <1>3 DEF NewEntry
  <2>4. w \in Seq(R)
    BY <1>2
  <2>5. ~Flag(t, n + 1)
    BY <1>6 DEF Flag
  <2>6. ASSUME NEW i \in 1..n PROVE v[i] = w[i]
    <3>1. v[i] \in R /\ w[i] \in R /\ v[i].seqno = w[i].seqno /\ (v[i].acked <=> w[i].acked)
      BY <1>1, <1>5, <2>1, <2>2
    <3> HIDE DEF v
    <3> QED BY <3>1
  <2>7. v[n + 1] = NewEntry(s)
    <3>1. n + 1 \in 1..n + 1
      BY <1>1
    <3>2. v[n + 1] \in R /\ v[n + 1].seqno = s /\ ~v[n + 1].acked
      BY <3>1, <1>5, <2>1, <2>5, Zenon
    <3> HIDE DEF v
    <3> QED BY <3>2, <2>3
  <2> HIDE DEF v, R
  <2>8. /\ a \in Seq(R) /\ Len(a) = n + 1 /\ a[n + 1] = NewEntry(s)
        /\ \A i \in 1..n : a[i] = w[i]
    BY <1>1, <1>2, <2>3, <2>4
  <2> HIDE DEF a
  <2>9. \A i \in 1..Len(v) : v[i] = a[i]
    BY <1>1, <2>1, <2>6, <2>7, <2>8
  <2>10. v = a
    BY <2>1, <2>8, <2>9, SeqEqual
  <2> QED BY <2>10 DEF v, a
<1>10. w # <<>> => s = Plus(w[Len(w)].seqno, 1)
  <2> SUFFICES ASSUME w # <<>> PROVE s = Plus(w[n].seqno, 1)
    BY <1>2
  <2>1. n \in 1..n
    BY <1>1, <1>2
  <2>2. w[n].seqno = q[n]
    BY <2>1, EntriesFacts DEF w
  <2>3. q[n] = Plus(FirstSeqno, At(t, n)) /\ At(t, n) \in Int /\ At(t, n) + 1 = k
    BY <1>1, <2>1 DEF ListOK, At
  <2>4. \A one \in Int : Plus(Plus(FirstSeqno, At(t, n)), one) = Plus(FirstSeqno, At(t, n) + one)
    BY <1>1, <2>3, SeqnoFacts
  <2>5. 1 \in Int
    OBVIOUS
  <2>6. Plus(q[n], 1) = Plus(FirstSeqno, k)
    BY <2>3, <2>4, <2>5, Zenon
  <2> QED BY <2>2, <2>6 DEF s
<1> QED BY <1>3, <1>8, <1>9, <1>10, Zenon DEF s, w, Appended

(* The rest of a sequence. *)
LEMMA SubSeqFrom ==
  ASSUME NEW S, NEW s, NEW n \in Nat, NEW m \in 0..n, \A i \in m + 1..n : s[i] \in S
  PROVE  /\ SubSeq(s, m + 1, n) \in Seq(S) /\ Len(SubSeq(s, m + 1, n)) = n - m
         /\ \A i \in 1..n - m : SubSeq(s, m + 1, n)[i] = s[i + m]
<1>1. PICK e : e = m + 1
  OBVIOUS
<1>2. e \in Int /\ n \in Int /\ \A i \in e..n : s[i] \in S
  BY <1>1
<1>3. /\ SubSeq(s, e, n) \in Seq(S)
      /\ Len(SubSeq(s, e, n)) = IF e <= n THEN n - e + 1 ELSE 0
      /\ \A i \in 1..n - e + 1 : SubSeq(s, e, n)[i] = s[e + i - 1]
  BY <1>2, SubSeqProperties
<1>4. PICK a : a = SubSeq(s, e, n)
  OBVIOUS
<1>5. a \in Seq(S) /\ Len(a) = n - m /\ \A i \in 1..n - m : a[i] = s[i + m]
  BY <1>1, <1>3, <1>4
<1> QED BY <1>1, <1>4, <1>5, Zenon

(* The run of flags at the front of the list is dropped. *)
Drained(q, t, k, r, u) ==
  /\ ListOK(r, u, k)
  /\ EntriesOf(r, u) = Cleaned(EntriesOf(q, t))
  /\ (0..u.offset - 1) \cup Cover(u.ranges) = (0..t.offset - 1) \cup Cover(t.ranges)

LEMMA DrainFacts ==
  ASSUME NEW q, NEW t, NEW k, ListOK(q, t, k), CanTake(t),
         NEW r, r = SubSeq(q, TakenLast(t) + 2, Len(q)), NEW u, u = Take(t)
  PROVE  Drained(q, t, k, r, u)
<1> DEFINE w == EntriesOf(q, t)
           n == Len(q)
<1>1. PICK last : last = First(t.ranges)[2]
  OBVIOUS
<1>2. /\ TrackerOK(u) /\ u.offset = last + 1
      /\ last \in Cover(t.ranges) /\ t.offset <= last
      /\ t.offset..last \subseteq Cover(t.ranges)
      /\ last + 1 \notin Cover(t.ranges)
      /\ Cover(u.ranges) = Cover(t.ranges) \ (t.offset..last)
  <2>1. TrackerOK(t)
    BY DEF ListOK
  <2> QED BY <1>1, <2>1, TakeFacts
<1>3. /\ q \in Seq(Seqno) /\ n \in Nat /\ k \in Nat /\ t.offset \in Nat /\ t.offset + n = k
      /\ DOMAIN q = 1..n
  BY EntriesFacts DEF ListOK
<1>4. last \in Nat /\ last < k
  BY <1>2 DEF ListOK, TrackerOK, Cover, DTRange
<1>5. PICK m : m = last - t.offset + 1
  OBVIOUS
<1>6. m \in 1..n /\ r = SubSeq(q, m + 1, n) /\ u.offset = t.offset + m
  <2>1. m \in 1..n /\ u.offset = t.offset + m
    BY <1>2, <1>3, <1>4, <1>5, SMTT(60)
  <2>2. TakenLast(t) + 2 = m + 1
    BY <1>1, <1>3, <1>4, <1>5 DEF TakenLast
  <2>3. r = SubSeq(q, m + 1, n)
    BY <2>2, Zenon
  <2> QED BY <2>1, <2>3
<1>nums. m \in Int /\ n \in Int /\ t.offset \in Int /\ 1 <= m /\ m <= n /\ last = t.offset + m - 1
  <2>1. last = t.offset + m - 1 /\ t.offset \in Int
    BY <1>3, <1>4, <1>5
  <2> HIDE DEF n
  <2>2. m \in Int /\ n \in Int /\ 1 <= m /\ m <= n
    BY <1>3, <1>6
  <2> QED BY <2>1, <2>2
<1>7. r \in Seq(Seqno) /\ Len(r) = n - m /\ \A i \in 1..n - m : r[i] = q[i + m]
  <2>1. \A i \in m + 1..n : q[i] \in Seqno
    BY <1>3, <1>6
  <2>2. n \in Nat /\ m \in 0..n
    BY <1>3, <1>6
  <2> HIDE DEF n
  <2>3. /\ SubSeq(q, m + 1, n) \in Seq(Seqno) /\ Len(SubSeq(q, m + 1, n)) = n - m
        /\ \A i \in 1..n - m : SubSeq(q, m + 1, n)[i] = q[i + m]
    BY <2>1, <2>2, SubSeqFrom, SMTT(60)
  <2> QED BY <1>6, <2>3, Zenon
<1>8. \A i \in 1..n - m : At(u, i) = At(t, i + m) /\ i + m \in 1..n
  BY <1>3, <1>6 DEF At
<1>9. \A i \in 1..n - m : Flag(u, i) <=> Flag(t, i + m)
  <2>1. \A i \in 1..n - m : At(t, i + m) \notin t.offset..last
    BY <1>nums DEF At
  <2> QED BY <1>2, <1>8, <2>1 DEF Flag
<1>10. ListOK(r, u, k)
  <2>1. u.offset + Len(r) = k
    <3>1. Len(r) = n - m /\ u.offset = t.offset + m /\ t.offset + n = k
      BY <1>3, <1>6, <1>7
    <3>2. (t.offset + m) + (n - m) = t.offset + n
      <4> HIDE DEF n
      <4> QED BY <1>nums
    <3> QED BY <3>1, <3>2, Zenon
  <2>2. \A i \in 1..Len(r) : r[i] = Plus(FirstSeqno, At(u, i))
    BY <1>7, <1>8 DEF ListOK
  <2>3. \A x \in Cover(u.ranges) : x < k
    BY <1>2 DEF ListOK
  <2>4. ASSUME NEW i \in Waiting(r, u) PROVE Len(r) - i < WindowSize
    <3>1. i \in 1..n - m /\ i + m \in Waiting(q, t)
      BY <1>7, <1>8, <1>9 DEF Waiting
    <3>2. n - (i + m) < WindowSize
      BY <3>1 DEF ListOK
    <3>3. Len(r) = n - m /\ i \in Int /\ WindowSize \in Int
      BY <1>7, <3>1, WindowAssumption, SeqModAssumption
    <3>4. n - (i + m) = n - m - i
      BY <1>nums, <3>3
    <3> HIDE DEF n
    <3> QED BY <1>nums, <3>2, <3>3, <3>4
  <2> QED BY <1>2, <1>3, <1>7, <2>1, <2>2, <2>3, <2>4 DEF ListOK
<1>11. (0..u.offset - 1) \cup Cover(u.ranges) = (0..t.offset - 1) \cup Cover(t.ranges)
  BY <1>2, <1>3, <1>4
<1>12. /\ Unacked(w) = Waiting(q, t) /\ Len(w) = n
       /\ w \in Seq([seqno : Seqno, acked : BOOLEAN])
  BY EntriesFacts
<1>13. \A i \in 1..m : i \notin Waiting(q, t)
  <2>1. \A i \in 1..m : At(t, i) \in t.offset..last
    BY <1>nums DEF At
  <2> QED BY <1>2, <2>1 DEF Waiting, Flag
<1>14. m < n => m + 1 \in Waiting(q, t)
  <2>1. At(t, m + 1) = last + 1
    BY <1>3, <1>4, <1>5, SMTT(60) DEF At
  <2> QED BY <1>2, <1>3, <1>6, <2>1 DEF Waiting, Flag
<1> HIDE DEF w
<1>15. Cleaned(w) = SubSeq(w, m + 1, n)
  <2>1. CASE Unacked(w) = {}
    <3>1. m + 1 \in Int /\ n \in Int /\ n < m + 1
      BY <1>3, <1>6, <1>12, <1>14, <2>1
    <3>2. SubSeq(w, m + 1, n) = <<>>
      BY <3>1, SubSeqEmpty
    <3> QED BY <2>1, <3>2 DEF Cleaned
  <2>2. CASE Unacked(w) # {}
    <3>1. Unacked(w) \subseteq 1..n
      BY <1>12 DEF Waiting
    <3>2. FirstUnacked(w) \in Unacked(w) /\ \A j \in Unacked(w) : FirstUnacked(w) <= j
      BY <1>3, <2>2, <3>1, FirstUnackedIsLeast
    <3>3. FirstUnacked(w) \in 1..n /\ m < FirstUnacked(w)
      BY <1>6, <1>12, <1>13, <3>1, <3>2
    <3>4. FirstUnacked(w) = m + 1
      BY <1>3, <1>6, <1>12, <1>14, <3>2, <3>3
    <3> QED BY <1>12, <2>2, <3>4, Zenon DEF Cleaned
  <2> QED BY <2>1, <2>2
<1>16. EntriesOf(r, u) = SubSeq(w, m + 1, n)
  <2> DEFINE R == [seqno : Seqno, acked : BOOLEAN]
             v == EntriesOf(r, u)
             a == SubSeq(w, m + 1, n)
  <2>1. /\ v \in Seq(R) /\ Len(v) = Len(r)
        /\ \A i \in 1..Len(r) : /\ v[i] \in R /\ v[i].seqno = r[i]
                                /\ v[i].acked <=> Flag(u, i)
    BY <1>10, EntriesFacts
  <2>2. /\ w \in Seq(R) /\ Len(w) = n
        /\ \A i \in 1..n : /\ w[i] \in R /\ w[i].seqno = q[i]
                           /\ w[i].acked <=> Flag(t, i)
    <3>1. w = EntriesOf(q, t)
      BY DEF w
    <3> QED BY <1>3, <1>12, <3>1, EntriesFacts
  <2>3. ASSUME NEW i \in 1..n - m PROVE v[i] = w[i + m]
    <3>1. i + m \in 1..n /\ i \in 1..Len(r) /\ r[i] = q[i + m]
      BY <1>7, <1>8
    <3>2. PICK j : j = i + m
      OBVIOUS
    <3>3. /\ v[i] \in R /\ w[j] \in R /\ v[i].seqno = w[j].seqno
          /\ v[i].acked <=> w[j].acked
      BY <1>9, <2>1, <2>2, <3>1, <3>2
    <3> HIDE DEF v
    <3>4. v[i] = w[j]
      BY <3>3
    <3> QED BY <3>2, <3>4
  <2> HIDE DEF v, R
  <2>4. /\ a \in Seq(R) /\ Len(a) = n - m
        /\ \A i \in 1..n - m : a[i] = w[i + m]
    <3>1. \A i \in m + 1..n : w[i] \in R
      BY <1>3, <1>6, <2>2
    <3>2. n \in Nat /\ m \in 0..n
      BY <1>3, <1>6
    <3> HIDE DEF n
    <3> QED BY <3>1, <3>2, SubSeqFrom DEF a
  <2> HIDE DEF a
  <2>5. Len(v) = Len(a) /\ \A i \in 1..Len(v) : v[i] = a[i]
    BY <1>7, <2>1, <2>3, <2>4
  <2>6. v = a
    BY <2>1, <2>4, <2>5, SeqEqual
  <2> QED BY <2>6 DEF v, a
<1> QED BY <1>10, <1>11, <1>15, <1>16, Zenon DEF w, Drained


-----------------------------------------------------------------------------
(* The inductive invariant: the list is in order, and until the sequence   *)
(* numbers go round the named packets are those drained or tracked.        *)
NamedInv ==
  FirstSeqno + added <= SeqMod =>
    named = (0..delTracker.offset - 1) \cup Cover(delTracker.ranges)

WaitInv == ListOK(inner, delTracker, added) /\ NamedInv

LEMMA InitWaitInv == WaitlistInit => WaitInv
<1> SUFFICES ASSUME WaitlistInit PROVE WaitInv
  OBVIOUS
<1>1. /\ inner = <<>> /\ delTracker = [ranges |-> {}, offset |-> 0] /\ added = 0 /\ named = {}
  BY DEF WaitlistInit, EmptyTracker
<1>2. TrackerOK(delTracker) /\ Cover(delTracker.ranges) = {}
  BY <1>1 DEF TrackerOK, Separated, Cover
<1>3. inner \in Seq(Seqno) /\ Len(inner) = 0 /\ delTracker.offset = 0
  BY <1>1
<1>4. ListOK(inner, delTracker, added)
  <2>1. Waiting(inner, delTracker) = {}
    BY <1>3 DEF Waiting
  <2> QED BY <1>1, <1>2, <1>3, <2>1 DEF ListOK
<1>5. NamedInv
  BY <1>1, <1>2, <1>3 DEF NamedInv
<1> QED BY <1>4, <1>5 DEF WaitInv

LEMMA AddStep ==
  ASSUME WaitInv, Add
  PROVE  WaitInv' /\ Flagged!Add
<1>1. /\ added' = added + 1 /\ inner' = Append(inner, Plus(FirstSeqno, added))
      /\ delTracker' = delTracker /\ named' = named
  BY DEF Add
<1>2. Entries = EntriesOf(inner, delTracker) /\ Entries' = EntriesOf(inner', delTracker')
  BY Zenon DEF Entries, EntriesOf
<1>3. HasRoom(inner, delTracker)
  BY <1>2, Zenon DEF Add, HasRoom
<1>4. ListOK(inner, delTracker, added)
  BY DEF WaitInv
<1>5. /\ ListOK(inner', delTracker, added + 1)
      /\ EntriesOf(inner', delTracker) = Append(Entries, NewEntry(Plus(FirstSeqno, added)))
      /\ Plus(FirstSeqno, added) \in Seqno
      /\ Entries # <<>> => Plus(FirstSeqno, added) = Plus(Entries[Len(Entries)].seqno, 1)
  <2>1. Appended(inner, delTracker, added, inner')
    BY <1>1, <1>3, <1>4, AppendFacts
  <2> QED BY <1>2, <2>1, Zenon DEF Appended
<1>6. NamedInv'
  <2>1. added \in Nat /\ FirstSeqno \in Nat /\ SeqMod \in Nat
    BY <1>4, FirstAssumption, SeqModAssumption DEF ListOK, Seqno
  <2> QED BY <1>1, <2>1 DEF WaitInv, NamedInv
<1>7. WaitInv'
  BY <1>1, <1>5, <1>6 DEF WaitInv
<1>8. Flagged!Add
  <2>1. Entries' = Append(Entries, NewEntry(Plus(FirstSeqno, added)))
    BY <1>1, <1>2, <1>5, Zenon
  <2>2. Flagged!Seqno = Seqno /\ \A x, y : Flagged!Plus(x, y) = Plus(x, y)
    BY DEF Flagged!Seqno, Seqno, Flagged!Plus, Plus
  <2> QED BY <1>5, <2>1, <2>2, Zenon DEF Flagged!Add, NewEntry
<1> QED BY <1>7, <1>8

(* Before the sequence numbers go round, what a range selects is what it   *)
(* names.                                                                  *)
LEMMA UnwrappedSelection ==
  ASSUME NEW q, NEW t, NEW k, ListOK(q, t, k), FirstSeqno + k <= SeqMod,
         NEW x \in 0..k - 1, NEW y \in 0..k - 1, x <= y
  PROVE  LET w  == EntriesOf(q, t)
             lo == Plus(FirstSeqno, x)
             hi == Plus(FirstSeqno, y)
         IN  /\ FirstPart(w, lo, hi) = {i \in Waiting(q, t) : At(t, i) \in x..y}
             /\ SecondPart(w, lo, hi) = {}
             /\ \A z \in t.offset..k - 1 : Plus(FirstSeqno, z) \in Circular(lo, hi) <=> z \in x..y
<1> DEFINE w == EntriesOf(q, t)
           W == Waiting(q, t)
<1>1. /\ Len(q) \in Nat /\ t.offset \in Nat /\ k \in Nat /\ t.offset + Len(q) = k
      /\ Unacked(w) = W
  BY EntriesFacts DEF ListOK
<1>2. FirstSeqno \in Nat /\ SeqMod \in Nat \ {0}
  BY FirstAssumption, SeqModAssumption DEF Seqno
<1>3. \A z \in 0..k - 1 : Plus(FirstSeqno, z) = FirstSeqno + z
  <2> SUFFICES ASSUME NEW z \in 0..k - 1 PROVE (FirstSeqno + z) % SeqMod = FirstSeqno + z
    BY DEF Plus
  <2>1. PICK v : v = FirstSeqno + z
    OBVIOUS
  <2>2. v \in Int /\ v \in 0..SeqMod - 1
    BY <1>1, <1>2, <2>1
  <2> QED BY <1>2, <2>1, <2>2, ModSmall
<1>4. PICK lo, hi : lo = Plus(FirstSeqno, x) /\ hi = Plus(FirstSeqno, y)
  OBVIOUS
<1>5. lo = FirstSeqno + x /\ hi = FirstSeqno + y /\ ~(lo > hi)
  BY <1>1, <1>2, <1>3, <1>4
<1>6. \A i \in W : /\ i \in 1..Len(q) /\ At(t, i) \in t.offset..k - 1
                   /\ w[i].seqno = FirstSeqno + At(t, i)
  <2> SUFFICES ASSUME NEW i \in W
               PROVE  /\ i \in 1..Len(q) /\ At(t, i) \in t.offset..k - 1
                      /\ w[i].seqno = FirstSeqno + At(t, i)
    OBVIOUS
  <2>1. i \in 1..Len(q)
    BY DEF Waiting
  <2>2. At(t, i) \in t.offset..k - 1 /\ At(t, i) \in 0..k - 1
    BY <1>1, <2>1 DEF At
  <2>3. w[i].seqno = q[i] /\ q[i] = Plus(FirstSeqno, At(t, i))
    BY <2>1, EntriesFacts DEF ListOK
  <2> QED BY <1>3, <2>1, <2>2, <2>3
<1> HIDE DEF w, W
<1> DEFINE past == {i \in W : \E j \in W : j <= i /\ w[j].seqno >= lo}
<1>7. past = {i \in W : x <= At(t, i)}
  <2> SUFFICES ASSUME NEW i \in W
               PROVE  (\E j \in W : j <= i /\ w[j].seqno >= lo) <=> x <= At(t, i)
    OBVIOUS
  <2>1. \A j \in W : w[j].seqno >= lo <=> x <= At(t, j)
    BY <1>1, <1>2, <1>5, <1>6, SMTT(60)
  <2>2. \A j \in W : j <= i => At(t, j) <= At(t, i)
    BY <1>1, <1>6 DEF At
  <2>3. \A j \in W : At(t, j) \in Int
    BY <1>1, <1>6
  <2>4. ASSUME NEW j \in W, j <= i, w[j].seqno >= lo PROVE x <= At(t, i)
    BY <2>1, <2>2, <2>3, <2>4
  <2>5. i <= i
    BY <1>1, <1>6
  <2> QED BY <2>1, <2>4, <2>5, Zenon
<1>8. {i \in past : \A j \in past : j <= i => w[j].seqno <= hi} = {i \in W : At(t, i) \in x..y}
  <2>1. \A j \in W : w[j].seqno <= hi <=> At(t, j) <= y
    BY <1>1, <1>2, <1>5, <1>6
  <2>2. \A i, j \in W : j <= i => At(t, j) <= At(t, i)
    BY <1>1, <1>6 DEF At
  <2>3. \A j \in W : At(t, j) \in Int /\ j <= j
    BY <1>1, <1>6
  <2>4. ASSUME NEW i \in W, x <= At(t, i)
        PROVE  (\A j \in past : j <= i => w[j].seqno <= hi) <=> At(t, i) <= y
    <3>1. ASSUME At(t, i) <= y, NEW j \in past, j <= i PROVE w[j].seqno <= hi
      <4>1. j \in W /\ At(t, j) <= At(t, i)
        BY <2>2, <3>1
      <4>2. At(t, j) <= y
        BY <2>3, <3>1, <4>1
      <4> QED BY <2>1, <4>1, <4>2
    <3>2. ASSUME \A j \in past : j <= i => w[j].seqno <= hi PROVE At(t, i) <= y
      <4>1. i \in past /\ i <= i
        BY <1>7, <2>3, <2>4
      <4> QED BY <2>1, <3>2, <4>1
    <3> QED BY <3>1, <3>2
  <2> HIDE DEF past
  <2> QED BY <1>7, <2>3, <2>4
<1>9. FirstPart(w, lo, hi) = {i \in W : At(t, i) \in x..y}
  <2>1. Selected(w, lo, hi) = {i \in past : \A j \in past : j <= i => w[j].seqno <= hi}
    BY <1>1, Zenon DEF Selected, w
  <2>2. FirstPart(w, lo, hi) = Selected(w, lo, hi)
    BY <1>5, Zenon DEF FirstPart
  <2> QED BY <1>8, <2>1, <2>2, Zenon
<1>10. SecondPart(w, lo, hi) = {}
  BY <1>5, Zenon DEF SecondPart
<1>11. ASSUME NEW z \in t.offset..k - 1
       PROVE  Plus(FirstSeqno, z) \in Circular(lo, hi) <=> z \in x..y
  <2>1. y - x \in 0..SeqMod - 1 /\ x \in Int /\ y \in Int /\ FirstSeqno \in Int
    BY <1>1, <1>2
  <2>2. Circular(lo, hi) = {Plus(FirstSeqno, v) : v \in x..y}
    BY <1>4, <2>1, CircularFacts
  <2>3. \A v \in x..y : Plus(FirstSeqno, v) = FirstSeqno + v
    BY <1>1, <1>3
  <2>4. Plus(FirstSeqno, z) = FirstSeqno + z /\ z \in Int
    BY <1>1, <1>3
  <2> QED BY <1>2, <2>1, <2>2, <2>3, <2>4
<1> QED BY <1>4, <1>9, <1>10, <1>11, Zenon DEF w, W


LEMMA RemoveStep ==
  ASSUME WaitInv, NEW x \in 0..added - 1, NEW y \in 0..added - 1, y - x \in 0..SeqMod - 1,
         NEW lo, lo = Plus(FirstSeqno, x), NEW hi, hi = Plus(FirstSeqno, y), Remove(lo, hi)
  PROVE  WaitInv' /\ Entries' = Removed(Entries, lo, hi)
<1>1. /\ inner' = inner /\ added' = added
      /\ named' = named \cup {z \in (added - Len(inner))..(added - 1) :
                               Plus(FirstSeqno, z) \in Circular(lo, hi)}
      /\ delTracker' = TrackSelected(TrackSelected(delTracker, Entries, FirstPart(Entries, lo, hi)),
                                     Mark(Entries, FirstPart(Entries, lo, hi)),
                                     SecondPart(Entries, lo, hi))
  BY Zenon DEF Remove
<1>2. Entries = EntriesOf(inner, delTracker) /\ Entries' = EntriesOf(inner', delTracker')
  BY Zenon DEF Entries, EntriesOf
<1>3. ListOK(inner, delTracker, added)
  BY DEF WaitInv
<1>4. RemovedAs(inner, delTracker, added, lo, hi, delTracker')
  <2>1. delTracker' =
          TrackSelected(TrackSelected(delTracker, EntriesOf(inner, delTracker),
                                      FirstPart(EntriesOf(inner, delTracker), lo, hi)),
                        Mark(EntriesOf(inner, delTracker),
                             FirstPart(EntriesOf(inner, delTracker), lo, hi)),
                        SecondPart(EntriesOf(inner, delTracker), lo, hi))
    BY <1>1, <1>2, Zenon
  <2> QED BY <1>3, <2>1, RemovedFacts, Zenon
<1>5. Entries' = Removed(Entries, lo, hi)
  BY <1>1, <1>2, <1>4, Zenon DEF RemovedAs
<1>6. ListOK(inner', delTracker', added')
  BY <1>1, <1>4, Zenon DEF RemovedAs
<1>7. NamedInv'
  <2> SUFFICES ASSUME FirstSeqno + added <= SeqMod
               PROVE  named' = (0..delTracker'.offset - 1) \cup Cover(delTracker'.ranges)
    BY <1>1 DEF NamedInv
  <2> DEFINE t == delTracker
             W == Waiting(inner, t)
             D == {z \in (added - Len(inner))..(added - 1) : Plus(FirstSeqno, z) \in Circular(lo, hi)}
             I == {i \in W : At(t, i) \in x..y}
  <2>1. named = (0..t.offset - 1) \cup Cover(t.ranges)
    BY DEF WaitInv, NamedInv
  <2>2. /\ added \in Nat /\ t.offset \in Nat /\ Len(inner) \in Nat /\ t.offset + Len(inner) = added
        /\ x \in 0..added - 1 /\ y \in 0..added - 1 /\ x <= y
    BY <1>3, EntriesFacts, SeqModAssumption, SMTT(60) DEF ListOK
  <2>3. /\ FirstPart(Entries, lo, hi) = I /\ SecondPart(Entries, lo, hi) = {}
        /\ \A z \in t.offset..added - 1 : Plus(FirstSeqno, z) \in Circular(lo, hi) <=> z \in x..y
    BY <1>2, <1>3, <2>2, UnwrappedSelection
  <2>4. Flags(delTracker', t, I)
    <3>1. I \cup {} = I
      OBVIOUS
    <3>2. Flags(delTracker', t, FirstPart(Entries, lo, hi) \cup SecondPart(Entries, lo, hi))
      BY <1>2, <1>4, Zenon DEF RemovedAs
    <3> QED BY <2>3, <3>1, <3>2, Zenon
  <2>5. /\ delTracker'.offset = t.offset
        /\ Cover(delTracker'.ranges) = Cover(t.ranges) \cup Shifted(I, t.offset)
    BY <2>4 DEF Flags
  <2>6. D = {z \in t.offset..added - 1 : z \in x..y}
    BY <2>2, <2>3
  <2>7. ASSUME NEW z \in D PROVE z \in Cover(t.ranges) \cup Shifted(I, t.offset)
    <3>1. z \in t.offset..added - 1 /\ z \in x..y /\ z \in Int
      BY <2>6
    <3>2. PICK i : i = z - t.offset + 1
      OBVIOUS
    <3>3. i \in 1..Len(inner) /\ At(t, i) = z /\ t.offset + i - 1 = z
      BY <2>2, <3>1, <3>2, SMTT(60) DEF At
    <3>4. CASE i \in W
      BY <3>1, <3>3, <3>4 DEF Shifted
    <3>5. CASE i \notin W
      BY <3>3, <3>5 DEF Waiting, Flag
    <3> QED BY <3>4, <3>5
  <2>8. Shifted(I, t.offset) \subseteq D
    <3> SUFFICES ASSUME NEW i \in I PROVE t.offset + i - 1 \in D
      BY DEF Shifted
    <3>1. i \in 1..Len(inner) /\ t.offset + i - 1 \in x..y
      BY DEF Waiting, At
    <3> QED BY <2>2, <2>6, <3>1
  <2> QED BY <1>1, <2>1, <2>5, <2>7, <2>8
<1> QED BY <1>5, <1>6, <1>7 DEF WaitInv

LEMMA CleanupStep ==
  ASSUME WaitInv, Cleanup
  PROVE  WaitInv' /\ Flagged!Cleanup
<1>1. /\ CanTake(delTracker) /\ added' = added /\ named' = named
      /\ inner' = SubSeq(inner, TakenLast(delTracker) + 2, Len(inner))
      /\ delTracker' = Take(delTracker)
  BY DEF Cleanup
<1>2. Entries = EntriesOf(inner, delTracker) /\ Entries' = EntriesOf(inner', delTracker')
  BY Zenon DEF Entries, EntriesOf
<1>3. ListOK(inner, delTracker, added)
  BY DEF WaitInv
<1>4. /\ ListOK(inner', delTracker', added)
      /\ EntriesOf(inner', delTracker') = Cleaned(EntriesOf(inner, delTracker))
      /\ (0..delTracker'.offset - 1) \cup Cover(delTracker'.ranges) =
           (0..delTracker.offset - 1) \cup Cover(delTracker.ranges)
  <2>1. Drained(inner, delTracker, added, inner', delTracker')
    BY <1>1, <1>3, DrainFacts, Zenon
  <2> QED BY <2>1, Zenon DEF Drained
<1>5. NamedInv'
  BY <1>1, <1>4 DEF WaitInv, NamedInv
<1>6. WaitInv'
  BY <1>1, <1>4, <1>5 DEF WaitInv
<1>7. Flagged!Cleanup
  BY <1>2, <1>4, Zenon DEF Flagged!Cleanup, Flagged!Cleaned, Cleaned, Flagged!FirstUnacked,
     FirstUnacked, Flagged!Unacked, Unacked
<1> QED BY <1>6, <1>7

LEMMA WaitlistSteps ==
  ASSUME WaitInv, [WaitlistNext]_waitlistVars
  PROVE  WaitInv' /\ (Flagged!Next \/ Entries' = Entries)
<1>1. CASE Add
  BY <1>1, AddStep, Zenon DEF Flagged!Next
<1>2. ASSUME NEW x \in 0..added - 1, NEW y \in 0..added - 1, y - x \in 0..SeqMod - 1,
             Remove(Plus(FirstSeqno, x), Plus(FirstSeqno, y))
      PROVE  WaitInv' /\ Flagged!Next
  <2>1. PICK lo, hi : lo = Plus(FirstSeqno, x) /\ hi = Plus(FirstSeqno, y)
    OBVIOUS
  <2>2. WaitInv' /\ Entries' = Removed(Entries, lo, hi)
    BY <1>2, <2>1, RemoveStep, Zenon
  <2>3. lo \in Seqno /\ hi \in Seqno
    <3>1. FirstSeqno \in Int /\ x \in Int /\ y \in Int
      BY FirstAssumption DEF Seqno
    <3> QED BY <2>1, <3>1, SeqnoFacts
  <2>4. Flagged!Removed(Entries, lo, hi) = Removed(Entries, lo, hi)
    BY Zenon DEF Flagged!Removed, Removed, Flagged!Mark, Mark, Flagged!FirstPart, FirstPart,
       Flagged!SecondPart, SecondPart, Flagged!Selected, Selected, Flagged!Unacked, Unacked
  <2>5. Flagged!Seqno = Seqno
    BY DEF Flagged!Seqno, Seqno
  <2> QED BY <2>2, <2>3, <2>4, <2>5, Zenon DEF Flagged!Next, Flagged!Remove
<1>3. CASE Cleanup
  BY <1>3, CleanupStep, Zenon DEF Flagged!Next
<1>4. CASE UNCHANGED waitlistVars
  BY <1>4 DEF waitlistVars, WaitInv, NamedInv, Entries
<1> QED BY <1>1, <1>2, <1>3, <1>4 DEF WaitlistNext

LEMMA WaitInvHolds == WaitlistSpec => []WaitInv
<1>1. WaitInv /\ [WaitlistNext]_waitlistVars => WaitInv'
  BY WaitlistSteps
<1> QED BY <1>1, InitWaitInv, PTL DEF WaitlistSpec

(* Whatever ranges of sent packets the receiver names, in whatever order,  *)
(* and whenever the front is cleaned up, the queue with its tracked index  *)
(* ranges behaves as the plain list of flagged packets that the model of   *)
(* the sender uses.                                                        *)
THEOREM QueueImplementsFlaggedList == WaitlistSpec => ImplementsWaitlist
<1>1. WaitlistInit => Flagged!Init
  BY DEF WaitlistInit, Flagged!Init, Entries
<1>2. WaitInv /\ [WaitlistNext]_waitlistVars => [Flagged!Next]_Entries
  BY WaitlistSteps
<1> QED BY <1>1, <1>2, WaitInvHolds, PTL DEF WaitlistSpec, ImplementsWaitlist, Flagged!Spec

(* Until the sequence numbers go round, the packets that no longer wait,   *)
(* drained or flagged, are exactly those an acknowledgement named.         *)
THEOREM ExactlyTheNamedStopWaiting == WaitlistSpec => []NamedAreAckedUntilTheWrap
<1>1. WaitInv => NamedAreAckedUntilTheWrap
  <2> SUFFICES ASSUME WaitInv, FirstSeqno + added <= SeqMod
               PROVE  ExactlyTheNamedAreAcked
    BY DEF NamedAreAckedUntilTheWrap
  <2> DEFINE t == delTracker
  <2>1. /\ ListOK(inner, t, added)
        /\ named = (0..t.offset - 1) \cup Cover(t.ranges)
    BY DEF WaitInv, NamedInv
  <2>2. Entries = EntriesOf(inner, t)
    BY Zenon DEF Entries, EntriesOf
  <2>3. /\ Unacked(Entries) = Waiting(inner, t) /\ DOMAIN inner = 1..Len(inner)
        /\ Len(inner) \in Nat /\ t.offset \in Nat /\ t.offset + Len(inner) = added /\ added \in Nat
    BY <2>1, <2>2, EntriesFacts DEF ListOK
  <2>4. added - Len(inner) = t.offset
    BY <2>3
  <2>5. \A z \in Cover(t.ranges) : z \in t.offset..added - 1
    BY <2>1, <2>3 DEF ListOK, TrackerOK, Cover, DTRange
  <2>6. ASSUME NEW z \in Cover(t.ranges)
        PROVE  \E i \in DOMAIN inner \ Unacked(Entries) : z = t.offset + i - 1
    <3>1. PICK i : i = z - t.offset + 1
      OBVIOUS
    <3>2. i \in 1..Len(inner) /\ z = t.offset + i - 1
      BY <2>3, <2>5, <3>1
    <3> QED BY <2>3, <3>2 DEF Waiting, Flag, At
  <2>7. ASSUME NEW i \in DOMAIN inner \ Unacked(Entries) PROVE t.offset + i - 1 \in Cover(t.ranges)
    BY <2>3 DEF Waiting, Flag, At
  <2>8. {t.offset + i - 1 : i \in DOMAIN inner \ Unacked(Entries)} = Cover(t.ranges)
    BY <2>6, <2>7
  <2> QED BY <2>1, <2>4, <2>8, Zenon DEF ExactlyTheNamedAreAcked
<1> QED BY <1>1, WaitInvHolds, PTL
=============================================================================
