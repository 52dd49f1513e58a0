------------------------------ MODULE OpsLemmas -----------------------------
(***************************************************************************)
(* What the operators of RangeOps, SeqnoOps and TrimOps return, preserve   *)
(* and bound, for every value of their constants: the lemmas that the      *)
(* other proofs about the trackers, the buffer and the stream cite.        *)
(***************************************************************************)
EXTENDS TrimOps, SeqnoOps, WellFoundedInduction, TLAPS

(* A nonempty set of naturals has a least element. *)
LEMMA NatMin ==
  ASSUME NEW T, T \subseteq Nat, T # {}
  PROVE  \E x \in T : \A y \in T : x <= y
<1> DEFINE lt == OpToRel(<, Nat)
<1>1. IsWellFoundedOn(lt, Nat)
  BY NatLessThanWellFounded
<1>2. PICK x \in T : \A y \in T : ~ (<<y, x>> \in lt)
  <2> HIDE DEF lt
  <2> QED BY <1>1, WFMin
<1>3. ASSUME NEW y \in T
      PROVE  x <= y
  <2>1. x \in Nat /\ y \in Nat
    OBVIOUS
  <2>2. y < x => <<y, x>> \in lt
    BY <2>1 DEF OpToRel
  <2>3. ~ (y < x)
    <3> HIDE DEF lt
    <3> QED BY <1>2, <2>2
  <2> QED BY <2>1, <2>3
<1> QED BY <1>3

(* First(R) is a range of R with the least left end. *)
LEMMA FirstIsLeast ==
  ASSUME NEW R, R \subseteq DTRange, R # {}
  PROVE  First(R) \in R /\ \A b \in R : First(R)[1] <= b[1]
<1> DEFINE L == {a[1] : a \in R}
<1>1. L \subseteq Nat /\ L # {}
  BY DEF DTRange
<1>2. PICK x \in L : \A y \in L : x <= y
  <2> HIDE DEF L
  <2> QED BY <1>1, NatMin
<1>3. \E a \in R : \A b \in R : a[1] <= b[1]
  BY <1>2
<1> QED BY <1>3 DEF First

-----------------------------------------------------------------------------
(* The ranges with the two neighbours of a new range taken out: what is    *)
(* left is separated from the merged range by a gap.                       *)
Others(R, l, r) == R \ (MergeLeft(R, l) \cup MergeRight(R, r))

Separated(R) ==
  \A a, b \in R : a # b => a[2] + 1 < b[1] \/ b[2] + 1 < a[1]

(* What track_range inserts, when the new range overlaps nothing stored:   *)
(* a range around the new one whose added parts were covered already, and  *)
(* which keeps a gap from every range left in the set.                     *)
LEMMA MergedRange ==
  ASSUME NEW R, R \subseteq DTRange, Separated(R),
         NEW l \in Nat, NEW r \in Nat, l <= r,
         \A a \in R : ~Overlaps(a, <<l, r>>)
  PROVE  /\ Merged(R, l, r) \in DTRange
         /\ Merged(R, l, r)[1] <= l /\ r <= Merged(R, l, r)[2]
         /\ \A a \in Others(R, l, r) :
              a[2] + 1 < Merged(R, l, r)[1] \/ Merged(R, l, r)[2] + 1 < a[1]
         /\ \A a \in MergeLeft(R, l) \cup MergeRight(R, r) :
              Merged(R, l, r)[1] <= a[1] /\ a[2] <= Merged(R, l, r)[2]
         /\ Merged(R, l, r)[1] < l =>
              \E a \in MergeLeft(R, l) : a[1] = Merged(R, l, r)[1]
         /\ r < Merged(R, l, r)[2] =>
              \E a \in MergeRight(R, r) : a[2] = Merged(R, l, r)[2]
<1> DEFINE A == MergeLeft(R, l)
           B == MergeRight(R, r)
           m == Merged(R, l, r)
<1>1. A # {} => First(A) \in A /\ \A a \in A : a = First(A)
  <2> SUFFICES ASSUME A # {} PROVE First(A) \in A /\ \A a \in A : a = First(A)
    OBVIOUS
  <2>1. A \subseteq DTRange
    BY DEF MergeLeft
  <2>2. First(A) \in A
    BY <2>1, FirstIsLeast
  <2>3. ASSUME NEW a \in A PROVE a = First(A)
    BY <2>2 DEF MergeLeft, Separated, DTRange
  <2> QED BY <2>2, <2>3
<1>2. B # {} => First(B) \in B /\ \A b \in B : b = First(B)
  <2> SUFFICES ASSUME B # {} PROVE First(B) \in B /\ \A b \in B : b = First(B)
    OBVIOUS
  <2>1. B \subseteq DTRange
    BY DEF MergeRight
  <2>2. First(B) \in B
    BY <2>1, FirstIsLeast
  <2>3. ASSUME NEW b \in B PROVE b = First(B)
    BY <2>2 DEF MergeRight, Separated, DTRange
  <2> QED BY <2>2, <2>3
<1>3. /\ m[1] = IF A = {} THEN l ELSE First(A)[1]
      /\ m[2] = IF B = {} THEN r ELSE First(B)[2]
      /\ m = <<m[1], m[2]>>
  BY DEF Merged
<1>4. m[1] \in Nat /\ m[1] <= l
  BY <1>1, <1>3 DEF MergeLeft, DTRange
<1>5. m[2] \in Nat /\ r <= m[2]
  BY <1>2, <1>3 DEF MergeRight, DTRange
<1>6. m \in DTRange
  <2> HIDE DEF m
  <2> QED BY <1>3, <1>4, <1>5 DEF DTRange
<1>7. \A a \in A \cup B : m[1] <= a[1] /\ a[2] <= m[2]
  <2> SUFFICES ASSUME NEW a \in A \cup B PROVE m[1] <= a[1] /\ a[2] <= m[2]
    OBVIOUS
  <2> HIDE DEF m
  <2>1. CASE a \in A
    BY <2>1, <1>1, <1>3, <1>4, <1>5 DEF MergeLeft, DTRange
  <2>2. CASE a \in B
    BY <2>2, <1>2, <1>3, <1>4, <1>5 DEF MergeRight, DTRange
  <2> QED BY <2>1, <2>2
<1>8. ASSUME NEW a \in Others(R, l, r)
      PROVE  a[2] + 1 < m[1] \/ m[2] + 1 < a[1]
  <2> HIDE DEF m
  <2>1. a \in R /\ a \notin A /\ a \notin B
    BY DEF Others
  <2>2. a[1] \in Nat /\ a[2] \in Nat /\ a[1] <= a[2]
    BY <2>1 DEF DTRange
  <2>3. a[2] + 1 < l \/ r + 1 < a[1]
    BY <2>1, <2>2 DEF Overlaps, MergeLeft, MergeRight
  <2>4. CASE a[2] + 1 < l
    <3>1. CASE A = {}
      BY <3>1, <2>4, <1>3
    <3>2. CASE A # {}
      BY <3>2, <2>1, <2>2, <2>4, <1>1, <1>3 DEF Separated, MergeLeft, DTRange
    <3> QED BY <3>1, <3>2
  <2>5. CASE r + 1 < a[1]
    <3>1. CASE B = {}
      BY <3>1, <2>5, <1>3
    <3>2. CASE B # {}
      BY <3>2, <2>1, <2>2, <2>5, <1>2, <1>3 DEF Separated, MergeRight, DTRange
    <3> QED BY <3>1, <3>2
  <2> QED BY <2>3, <2>4, <2>5
<1>9. m[1] < l => \E a \in A : a[1] = m[1]
  BY <1>1, <1>3
<1>10. r < m[2] => \E a \in B : a[2] = m[2]
  BY <1>2, <1>3
<1> QED BY <1>4, <1>5, <1>6, <1>7, <1>8, <1>9, <1>10

(* track_range keeps the set normalised, adds exactly the new range to the *)
(* covered positions, and never compares ranges it cannot order.           *)
LEMMA InsertFacts ==
  ASSUME NEW R, R \subseteq DTRange, Separated(R),
         NEW l \in Nat, NEW r \in Nat, l <= r,
         \A a \in R : ~Overlaps(a, <<l, r>>)
  PROVE  /\ Insert(R, l, r) \subseteq DTRange
         /\ Separated(Insert(R, l, r))
         /\ Cover(Insert(R, l, r)) = Cover(R) \cup l..r
         /\ ~TrackPanics(R, l, r)
<1> DEFINE m == Merged(R, l, r)
           O == Others(R, l, r)
           N == MergeLeft(R, l) \cup MergeRight(R, r)
<1>1. /\ m \in DTRange
      /\ m[1] <= l /\ r <= m[2]
      /\ \A a \in O : a[2] + 1 < m[1] \/ m[2] + 1 < a[1]
      /\ \A a \in N : m[1] <= a[1] /\ a[2] <= m[2]
      /\ m[1] < l => \E a \in MergeLeft(R, l) : a[1] = m[1]
      /\ r < m[2] => \E a \in MergeRight(R, r) : a[2] = m[2]
  BY MergedRange
<1>2. Insert(R, l, r) = O \cup {m} /\ R = O \cup N /\ O \subseteq R
  BY DEF Insert, Others, MergeLeft, MergeRight
<1> HIDE DEF m, O
<1>3. Insert(R, l, r) \subseteq DTRange
  BY <1>1, <1>2
<1>4. Separated(Insert(R, l, r))
  BY <1>1, <1>2 DEF Separated, DTRange
<1>5. \A x : x \in l..r \/ (\E a \in N : x \in a[1]..a[2]) <=> x \in m[1]..m[2]
  <2> TAKE x
  <2>1. ASSUME x \in l..r PROVE x \in m[1]..m[2]
    BY <2>1, <1>1 DEF DTRange
  <2>2. ASSUME NEW a \in N, x \in a[1]..a[2] PROVE x \in m[1]..m[2]
    BY <2>2, <1>1 DEF DTRange, MergeLeft, MergeRight
  <2>3. ASSUME x \in m[1]..m[2], ~(x \in l..r)
        PROVE  \E a \in N : x \in a[1]..a[2]
    <3>1. x \in Int /\ (x < l \/ r < x)
      BY <2>3, <1>1 DEF DTRange
    <3>2. CASE x < l
      <4>1. PICK a \in MergeLeft(R, l) : a[1] = m[1]
        BY <3>1, <3>2, <2>3, <1>1 DEF DTRange
      <4> QED BY <4>1, <3>1, <3>2, <2>3, <1>1 DEF DTRange, MergeLeft
    <3>3. CASE r < x
      <4>1. PICK a \in MergeRight(R, r) : a[2] = m[2]
        BY <3>1, <3>3, <2>3, <1>1 DEF DTRange
      <4> QED BY <4>1, <3>1, <3>3, <2>3, <1>1 DEF DTRange, MergeRight
    <3> QED BY <3>1, <3>2, <3>3
  <2> QED BY <2>1, <2>2, <2>3
<1>6. Cover(Insert(R, l, r)) = Cover(R) \cup l..r
  <2>1. \A x : x \in Cover(O \cup {m}) <=>
               (\E a \in O : x \in a[1]..a[2]) \/ x \in m[1]..m[2]
    BY DEF Cover
  <2>2. \A x : x \in Cover(O \cup N) <=>
               (\E a \in O : x \in a[1]..a[2]) \/ (\E a \in N : x \in a[1]..a[2])
    <3> HIDE DEF N
    <3> QED BY DEF Cover
  <2> HIDE DEF N
  <2> QED BY <2>1, <2>2, <1>2, <1>5
<1>7. ~TrackPanics(R, l, r)
  BY <1>1 DEF TrackPanics, Others, m, O, Overlaps, DTRange
<1> QED BY <1>3, <1>4, <1>6, <1>7

(* A tracker: proper ranges with gaps between them, none behind the offset. *)
TrackerOK(t) ==
  /\ t \in [ranges : SUBSET DTRange, offset : Nat]
  /\ Separated(t.ranges)
  /\ \A a \in t.ranges : t.offset <= a[1]

(* Positions that nothing covers overlap no range. *)
LEMMA UncoveredFacts ==
  ASSUME NEW R, R \subseteq DTRange, NEW l \in Nat, NEW r \in Nat, l <= r,
         \A x \in l..r : x \notin Cover(R)
  PROVE  \A a \in R : ~Overlaps(a, <<l, r>>)
<1> SUFFICES ASSUME NEW a \in R, a[1] <= r, l <= a[2] PROVE FALSE
  BY DEF Overlaps
<1>1. a[1] \in Nat /\ a[2] \in Nat /\ a[1] <= a[2]
  BY DEF DTRange
<1>2. \A x \in a[1]..a[2] : x \in Cover(R)
  BY DEF Cover
<1>3. CASE a[1] <= l
  BY <1>1, <1>2, <1>3
<1>4. CASE l < a[1]
  BY <1>1, <1>2, <1>4
<1> QED BY <1>1, <1>3, <1>4

(* track_range of positions that are not covered. *)
LEMMA TrackFacts ==
  ASSUME NEW t, TrackerOK(t), NEW l \in Nat, NEW r \in Nat, l <= r,
         \A x \in l + t.offset..r + t.offset : x \notin Cover(t.ranges)
  PROVE  /\ TrackerOK(Track(t, l, r))
         /\ Track(t, l, r).offset = t.offset
         /\ Cover(Track(t, l, r).ranges) =
              Cover(t.ranges) \cup l + t.offset..r + t.offset
         /\ ~TrackPanics(t.ranges, l + t.offset, r + t.offset)
<1> DEFINE lo == l + t.offset
           hi == r + t.offset
<1>1. /\ t.ranges \subseteq DTRange /\ Separated(t.ranges)
      /\ lo \in Nat /\ hi \in Nat /\ lo <= hi /\ t.offset \in Nat /\ t.offset <= lo
  BY DEF TrackerOK
<1>2. Track(t, l, r) = [ranges |-> Insert(t.ranges, lo, hi), offset |-> t.offset]
  BY DEF Track, TrackerOK
<1>3. \A a \in t.ranges : ~Overlaps(a, <<lo, hi>>)
  BY <1>1, UncoveredFacts
<1> HIDE DEF lo, hi
<1>4. /\ Insert(t.ranges, lo, hi) \subseteq DTRange
      /\ Separated(Insert(t.ranges, lo, hi))
      /\ Cover(Insert(t.ranges, lo, hi)) = Cover(t.ranges) \cup lo..hi
      /\ ~TrackPanics(t.ranges, lo, hi)
  BY <1>1, <1>3, InsertFacts
<1>5. t.offset <= Merged(t.ranges, lo, hi)[1]
  BY <1>1, <1>3, MergedRange DEF MergeLeft, TrackerOK, DTRange
<1>6. \A a \in Insert(t.ranges, lo, hi) : t.offset <= a[1]
  BY <1>5 DEF Insert, TrackerOK
<1> QED BY <1>1, <1>2, <1>4, <1>6 DEF TrackerOK, lo, hi

(* take_range consumes exactly the run of covered positions that starts at *)
(* the offset, and all of it.                                              *)
LEMMA TakeFacts ==
  ASSUME NEW t, TrackerOK(t), CanTake(t)
  PROVE  LET last == First(t.ranges)[2]
         IN  /\ TrackerOK(Take(t))
             /\ First(t.ranges) \in t.ranges /\ First(t.ranges)[1] = t.offset
             /\ last \in Cover(t.ranges) /\ t.offset <= last
             /\ t.offset..last \subseteq Cover(t.ranges)
             /\ last + 1 \notin Cover(t.ranges)
             /\ Cover(Take(t).ranges) = Cover(t.ranges) \ (t.offset..last)
             /\ Take(t).offset = last + 1
<1> DEFINE R == t.ranges
           f == First(R)
<1>1. /\ R # {} /\ R \subseteq DTRange /\ f[1] = t.offset
      /\ Take(t) = [ranges |-> R \ {f}, offset |-> f[2] + 1]
  BY DEF CanTake, Take, TrackerOK
<1>2. f \in R /\ \A b \in R : f[1] <= b[1]
  BY <1>1, FirstIsLeast
<1>3. f \in DTRange /\ f[1] \in Nat /\ f[2] \in Nat /\ f[1] <= f[2]
  BY <1>1, <1>2 DEF DTRange
<1>4. Separated(R)
  BY DEF TrackerOK
<1> HIDE DEF f, R
<1>5. \A b \in R : b # f => f[2] + 1 < b[1]
  <2> SUFFICES ASSUME NEW b \in R, b # f PROVE f[2] + 1 < b[1]
    OBVIOUS
  <2>1. f[2] + 1 < b[1] \/ b[2] + 1 < f[1]
    BY <1>2, <1>4 DEF Separated
  <2> QED BY <2>1, <1>1, <1>2, <1>3 DEF DTRange
<1>6. TrackerOK(Take(t))
  <2>1. \A a \in R \ {f} : f[2] + 1 <= a[1]
    BY <1>1, <1>3, <1>5 DEF DTRange
  <2> QED BY <2>1, <1>1, <1>3, <1>4 DEF TrackerOK, Separated
<1>7. \A x : x \in Cover(R) <=> x \in f[1]..f[2] \/ x \in Cover(R \ {f})
  BY <1>2 DEF Cover
<1>8. \A x \in Cover(R \ {f}) : x \in Int /\ f[2] + 1 < x
  BY <1>1, <1>3, <1>5 DEF Cover, DTRange
<1>9. f[2] \in Cover(R) /\ f[1] <= f[2] /\ f[1]..f[2] \subseteq Cover(R)
  BY <1>3, <1>7
<1>10. f[2] + 1 \notin Cover(R)
  <2>1. f[2] + 1 \notin f[1]..f[2] /\ f[2] + 1 \in Int /\ ~(f[2] + 1 < f[2] + 1)
    BY <1>3
  <2>2. f[2] + 1 \notin Cover(R \ {f})
    BY <2>1, <1>8, Zenon
  <2> QED BY <2>1, <2>2, <1>7
<1>11. Cover(R \ {f}) = Cover(R) \ (f[1]..f[2])
  <2>1. \A x \in Cover(R \ {f}) : x \notin f[1]..f[2]
    BY <1>3, <1>8
  <2> QED BY <2>1, <1>7
<1>12. /\ Cover(Take(t).ranges) = Cover(R) \ (t.offset..f[2])
       /\ Take(t).offset = f[2] + 1
  BY <1>1, <1>11
<1>13. t.offset..f[2] \subseteq Cover(R) /\ t.offset <= f[2]
  BY <1>1, <1>9
<1> QED BY <1>1, <1>2, <1>6, <1>9, <1>10, <1>12, <1>13, Zenon DEF f, R

-----------------------------------------------------------------------------
(* The remainder modulo N, which Plus, Minus and CellOf take.              *)
LEMMA ModUnique ==
  ASSUME NEW N \in Nat \ {0}, NEW x \in Int, NEW k \in Int, NEW r \in 0..N - 1,
         x = N * k + r
  PROVE  x % N = r
OBVIOUS

LEMMA ModSmall ==
  ASSUME NEW N \in Nat \ {0}, NEW x \in Int
  PROVE  /\ x % N \in 0..N - 1
         /\ x \in 0..N - 1 => x % N = x
         /\ x \in N..2 * N - 1 => x % N = x - N
         /\ x \in -N..-1 => x % N = x + N
OBVIOUS

(* A multiple of N more or less does not matter. *)
LEMMA ModShift ==
  ASSUME NEW N \in Nat \ {0}, NEW x \in Int, NEW k \in Int
  PROVE  (x + N * k) % N = x % N
<1> DEFINE d == x \div N
           r == x % N
<1>1. d \in Int /\ r \in 0..N - 1 /\ x = N * d + r
  OBVIOUS
<1> HIDE DEF d, r
<1>2. d + k \in Int /\ x + N * k = N * (d + k) + r /\ x + N * k \in Int
  BY <1>1
<1>3. (x + N * k) % N = r
  BY <1>1, <1>2, ModUnique
<1> QED BY <1>3 DEF r

LEMMA ModAdd ==
  ASSUME NEW N \in Nat \ {0}, NEW x \in Int, NEW y \in Int
  PROVE  /\ ((x % N) + y) % N = (x + y) % N
         /\ (y - (x % N)) % N = (y - x) % N
<1> DEFINE d == x \div N
           r == x % N
<1>1. d \in Int /\ r \in Int /\ x = N * d + r
  OBVIOUS
<1> HIDE DEF d, r
<1>2. /\ -d \in Int /\ r + y = (x + y) + N * (-d) /\ x + y \in Int
      /\ y - r = (y - x) + N * d /\ y - x \in Int
  BY <1>1
<1>3. /\ ((x + y) + N * (-d)) % N = (x + y) % N
      /\ ((y - x) + N * d) % N = (y - x) % N
  BY <1>1, <1>2, ModShift
<1> QED BY <1>2, <1>3 DEF r

(* Two numbers less than N apart have the same remainder only if equal.    *)
LEMMA ModInjective ==
  ASSUME NEW N \in Nat \ {0}, NEW x \in Int, NEW y \in Int,
         x % N = y % N, x - y < N, y - x < N
  PROVE  x = y
<1> DEFINE d == x \div N
           e == y \div N
<1>1. d \in Int /\ e \in Int /\ x - y = N * (d - e)
  OBVIOUS
<1> HIDE DEF d, e
<1>2. d - e \in Int /\ N * (d - e) < N /\ -N < N * (d - e)
  BY <1>1
<1>3. d - e = 0
  BY <1>2
<1> QED BY <1>1, <1>3

-----------------------------------------------------------------------------
(* The buffer: byte number offset + k is in the k-th cell from the head.   *)
BufferOK(b) ==
  /\ b \in [mem : [Cell -> Nat], head : Cell, len : 0..Capacity, first : Nat,
            del : [ranges : SUBSET DTRange, offset : Nat]]
  /\ b.first <= b.len
  /\ TrackerOK(b.del)
  /\ \A k \in 0..b.len - 1 : b.mem[CellOf(b, k)] = b.del.offset + k

BytesOf(s) == s.from..s.from + s.len - 1
HeldBy(S)  == UNION {BytesOf(s) : s \in S}

(* A live slice lies in the part handed out, in one piece, and its pointer *)
(* names the cell where its first byte is.                                 *)
SliceOK(b, s) ==
  /\ s \in [start : Nat, len : Nat \ {0}, from : Nat]
  /\ b.del.offset <= s.from /\ s.from + s.len <= b.del.offset + b.first
  /\ s.start = CellOf(b, s.from - b.del.offset)
  /\ s.start + s.len <= RingSize

(* The bytes handed out are divided among the live slices and the deleted. *)
SlicesOK(b, S) ==
  /\ \A s \in S : SliceOK(b, s)
  /\ \A s, t \in S : s # t => BytesOf(s) \cap BytesOf(t) = {}
  /\ Cover(b.del.ranges) \cap HeldBy(S) = {}
  /\ Cover(b.del.ranges) \cup HeldBy(S) = b.del.offset..b.del.offset + b.first - 1

LEMMA SizeFacts ==
  RingSize \in Nat \ {0} /\ Capacity \in Nat /\ Capacity <= RingSize
BY TrimAssumption

LEMMA CellFacts ==
  ASSUME NEW b, b.head \in Cell, NEW p \in 0..RingSize
  PROVE  /\ CellOf(b, p) \in Cell
         /\ b.head + p < RingSize => CellOf(b, p) = b.head + p
         /\ b.head + p >= RingSize => CellOf(b, p) = b.head + p - RingSize
<1>1. PICK x : x = b.head + p
  OBVIOUS
<1>2. x \in Int /\ x \in 0..2 * RingSize - 1 /\ RingSize \in Nat \ {0}
  BY <1>1, SizeFacts DEF Cell
<1>3. /\ x % RingSize \in 0..RingSize - 1
      /\ x \in 0..RingSize - 1 => x % RingSize = x
      /\ x \in RingSize..2 * RingSize - 1 => x % RingSize = x - RingSize
  BY <1>2, ModSmall
<1>4. /\ x % RingSize \in Cell
      /\ x < RingSize => x % RingSize = x
      /\ x >= RingSize => x % RingSize = x - RingSize
  BY <1>2, <1>3 DEF Cell
<1>5. CellOf(b, p) = x % RingSize
  BY <1>1 DEF CellOf
<1>6. b.head \in Int /\ p \in Int
  BY SizeFacts DEF Cell
<1> QED BY <1>1, <1>2, <1>4, <1>5, <1>6

LEMMA BufferFacts ==
  ASSUME NEW b, BufferOK(b)
  PROVE  /\ b.head \in Cell /\ b.head \in Nat /\ b.head < RingSize
         /\ b.len \in Nat /\ b.len <= Capacity /\ b.len <= RingSize
         /\ b.first \in Nat /\ b.first <= b.len
         /\ b.del.offset \in Nat
<1>1. /\ b.head \in Cell /\ b.len \in 0..Capacity /\ b.first \in Nat
      /\ b.first <= b.len /\ b.del.offset \in Nat
  BY DEF BufferOK
<1> QED BY <1>1, SizeFacts DEF Cell

LEMMA SliceFacts ==
  ASSUME NEW b, BufferOK(b), NEW s, SliceOK(b, s)
  PROVE  /\ s.start \in Nat /\ s.len \in Nat /\ s.len > 0 /\ s.from \in Nat
         /\ s.from - b.del.offset \in Nat
         /\ s.from - b.del.offset + s.len <= b.first
<1>1. s \in [start : Nat, len : Nat \ {0}, from : Nat]
  BY DEF SliceOK
<1>2. s.start \in Nat /\ s.len \in Nat \ {0} /\ s.from \in Nat
  BY <1>1
<1> QED BY <1>2, BufferFacts DEF SliceOK

LEMMA NewBufferFacts == BufferOK(NewBuffer) /\ SlicesOK(NewBuffer, {})
<1>1. BufferOK(NewBuffer)
  BY SizeFacts DEF BufferOK, NewBuffer, EmptyTracker, TrackerOK, Separated, Cell
<1>2. SlicesOK(NewBuffer, {})
  BY DEF SlicesOK, NewBuffer, EmptyTracker, Cover, HeldBy
<1> QED BY <1>1, <1>2

(* A slice's memory holds its bytes. *)
LEMMA SliceMemory ==
  ASSUME NEW b, BufferOK(b), NEW s, SliceOK(b, s), NEW k \in 0..s.len - 1
  PROVE  b.mem[s.start + k] = s.from + k
<1> DEFINE p == s.from - b.del.offset
<1>1. /\ p \in Nat /\ p + s.len <= b.first /\ b.first <= b.len /\ b.len <= RingSize
      /\ s.from \in Nat /\ b.del.offset \in Nat /\ b.head \in Cell /\ b.head \in Nat
      /\ s.start \in Nat /\ s.len \in Nat /\ b.len \in Nat /\ b.first \in Nat
  BY BufferFacts, SliceFacts
<1>2. k \in Nat /\ k < s.len /\ p + k \in 0..b.len - 1 /\ s.from = b.del.offset + p
  BY <1>1
<1>3. b.mem[CellOf(b, p + k)] = b.del.offset + (p + k)
  BY <1>2 DEF BufferOK
<1>4. CellOf(b, p + k) = s.start + k
  <2>1. s.start = CellOf(b, p) /\ s.start + s.len <= RingSize
    BY DEF SliceOK
  <2> HIDE DEF p
  <2>2. p \in 0..RingSize /\ p + k \in 0..RingSize /\ RingSize \in Nat
    BY <1>1, <1>2, SizeFacts
  <2>3. /\ b.head + p < RingSize => s.start = b.head + p
        /\ b.head + p >= RingSize => s.start = b.head + p - RingSize
    BY <2>1, <2>2, <1>1, CellFacts
  <2> DEFINE q == p + k
  <2>4. /\ b.head + q < RingSize => CellOf(b, q) = b.head + q
        /\ b.head + q >= RingSize => CellOf(b, q) = b.head + q - RingSize
    <3> HIDE DEF q
    <3> QED BY <2>2, <1>1, CellFacts DEF q
  <2> QED BY <2>1, <2>2, <2>3, <2>4, <1>1, <1>2
<1> QED BY <1>1, <1>3, <1>4

(* Two positions of the ring are in one cell only if they are the same.    *)
LEMMA CellInjective ==
  ASSUME NEW b, b.head \in Cell, NEW p \in 0..RingSize - 1, NEW q \in 0..RingSize - 1,
         CellOf(b, p) = CellOf(b, q)
  PROVE  p = q
<1>1. b.head \in Nat /\ b.head < RingSize /\ RingSize \in Nat
  BY SizeFacts DEF Cell
<1>2. p \in 0..RingSize /\ q \in 0..RingSize
  BY <1>1
<1>3. /\ b.head + p < RingSize => CellOf(b, p) = b.head + p
      /\ b.head + p >= RingSize => CellOf(b, p) = b.head + p - RingSize
  BY <1>2, CellFacts
<1>4. /\ b.head + q < RingSize => CellOf(b, q) = b.head + q
      /\ b.head + q >= RingSize => CellOf(b, q) = b.head + q - RingSize
  BY <1>2, CellFacts
<1> QED BY <1>1, <1>3, <1>4

(* add puts the new bytes after those in the ring and disturbs none.       *)
LEMMA AddFacts ==
  ASSUME NEW b, BufferOK(b), NEW n \in Nat, n <= SpaceLeft(b)
  PROVE  LET a == AddBytes(b, n)
         IN  /\ BufferOK(a)
             /\ a.len = b.len + n /\ a.first = b.first /\ a.del = b.del
             /\ \A S : SlicesOK(b, S) => SlicesOK(a, S)
<1> DEFINE a == AddBytes(b, n)
           off == b.del.offset
<1>1. /\ a.head = b.head /\ a.len = b.len + n /\ a.first = b.first /\ a.del = b.del
      /\ a.mem = [c \in Cell |->
                    IF \E k \in 0..n - 1 : c = CellOf(b, b.len + k)
                    THEN off + b.len + ((c - CellOf(b, b.len)) % RingSize)
                    ELSE b.mem[c]]
      /\ a = [mem |-> a.mem, head |-> a.head, len |-> a.len, first |-> a.first,
              del |-> a.del]
  <2>1. PICK m : m = [c \in Cell |->
                        IF \E k \in 0..n - 1 : c = CellOf(b, b.len + k)
                        THEN b.del.offset + b.len + ((c - CellOf(b, b.len)) % RingSize)
                        ELSE b.mem[c]]
    OBVIOUS
  <2>2. a = [b EXCEPT !.mem = m, !.len = @ + n]
    BY <2>1, Zenon DEF AddBytes
  <2>3. a = [mem |-> m, head |-> b.head, len |-> b.len + n, first |-> b.first,
             del |-> b.del]
    <3> HIDE DEF a
    <3> QED BY <2>2 DEF BufferOK
  <2> HIDE DEF a
  <2> QED BY <2>1, <2>3, Zenon
<1>2. /\ b.head \in Cell /\ b.head \in Nat /\ b.len \in Nat /\ b.first \in Nat
      /\ off \in Nat /\ b.len + n <= Capacity /\ b.len + n <= RingSize
      /\ b.first <= b.len /\ RingSize \in Nat \ {0} /\ Capacity \in Nat
  BY BufferFacts, SizeFacts DEF SpaceLeft
<1> HIDE DEF a, off
<1>3. ASSUME NEW k \in 0..n - 1
      PROVE  (CellOf(b, b.len + k) - CellOf(b, b.len)) % RingSize = k
  <2>1. PICK x : x = b.head + b.len + k
    OBVIOUS
  <2>2. PICK y : y = b.head + b.len
    OBVIOUS
  <2>3. x \in Int /\ y \in Int /\ x - y = k /\ k \in Int /\ k \in 0..RingSize - 1
    BY <2>1, <2>2, <1>2
  <2>4. CellOf(b, b.len + k) = x % RingSize /\ CellOf(b, b.len) = y % RingSize
    <3>1. b.head + (b.len + k) = x
      BY <2>1, <1>2
    <3> QED BY <3>1, <2>2 DEF CellOf
  <2>5. y % RingSize \in Int
    BY <2>3, <1>2, ModSmall
  <2>6. ((x % RingSize) - (y % RingSize)) % RingSize = (x - (y % RingSize)) % RingSize
    <3>1. PICK z : z = -(y % RingSize)
      OBVIOUS
    <3>2. z \in Int
      BY <3>1, <2>5
    <3>3. ((x % RingSize) + z) % RingSize = (x + z) % RingSize
      BY <3>2, <2>3, <1>2, ModAdd
    <3>4. x % RingSize \in Int
      BY <2>3, <1>2, ModSmall
    <3> QED BY <3>1, <3>3, <3>4, <2>3, <2>5
  <2>7. (x - (y % RingSize)) % RingSize = (x - y) % RingSize
    BY <2>3, <1>2, ModAdd
  <2>8. k % RingSize = k
    BY <2>3, <1>2, ModSmall
  <2> QED BY <2>3, <2>4, <2>6, <2>7, <2>8
<1>4. ASSUME NEW c \in Cell PROVE a.mem[c] \in Nat
  <2>1. b.mem[c] \in Nat
    BY DEF BufferOK
  <2>2. CASE \E k \in 0..n - 1 : c = CellOf(b, b.len + k)
    <3>1. PICK k \in 0..n - 1 : c = CellOf(b, b.len + k)
      BY <2>2
    <3>2. a.mem[c] = off + b.len + k
      BY <3>1, <1>1, <1>3
    <3> QED BY <3>2, <1>2
  <2>3. CASE ~ \E k \in 0..n - 1 : c = CellOf(b, b.len + k)
    BY <2>1, <2>3, <1>1
  <2> QED BY <2>2, <2>3
<1>5. ASSUME NEW k \in 0..a.len - 1 PROVE a.mem[CellOf(a, k)] = off + k
  <2>1. k \in 0..RingSize - 1 /\ k \in 0..RingSize /\ k \in Int
    BY <1>1, <1>2
  <2>2. CellOf(a, k) = CellOf(b, k) /\ CellOf(b, k) \in Cell
    BY <2>1, <1>1, <1>2, CellFacts DEF CellOf
  <2>3. CASE k < b.len
    <3>1. ASSUME NEW j \in 0..n - 1 PROVE CellOf(b, k) # CellOf(b, b.len + j)
      <4>1. PICK q : q = b.len + j
        OBVIOUS
      <4>2. q \in 0..RingSize - 1 /\ q # k
        BY <4>1, <2>1, <2>3, <1>2
      <4>3. CellOf(b, k) # CellOf(b, q)
        BY <4>2, <2>1, <1>2, CellInjective
      <4> QED BY <4>1, <4>3
    <3>2. a.mem[CellOf(b, k)] = b.mem[CellOf(b, k)]
      BY <3>1, <2>2, <1>1
    <3>3. b.mem[CellOf(b, k)] = off + k
      BY <2>1, <2>3, <1>2 DEF BufferOK, off
    <3> QED BY <3>2, <3>3, <2>2
  <2>4. CASE b.len <= k
    <3>1. PICK j : j = k - b.len
      OBVIOUS
    <3>2. j \in 0..n - 1 /\ k = b.len + j
      BY <3>1, <2>1, <2>4, <1>1, <1>2
    <3>3. a.mem[CellOf(b, b.len + j)] = off + b.len + j
      BY <3>2, <2>2, <1>1, <1>3
    <3> QED BY <3>2, <3>3, <2>2, <1>2
  <2> QED BY <2>1, <2>3, <2>4, <1>2
<1>6. BufferOK(a)
  <2>1. a.mem \in [Cell -> Nat]
    BY <1>1, <1>4
  <2>2. a.len \in 0..Capacity /\ a.first <= a.len
    BY <1>1, <1>2
  <2>3. TrackerOK(a.del) /\ a.del \in [ranges : SUBSET DTRange, offset : Nat]
    BY <1>1 DEF BufferOK
  <2> QED BY <2>1, <2>2, <2>3, <1>1, <1>2, <1>5 DEF BufferOK, off
<1>7. ASSUME NEW S, SlicesOK(b, S) PROVE SlicesOK(a, S)
  <2>1. ASSUME NEW s \in S PROVE SliceOK(a, s)
    BY <1>1, <1>7 DEF SlicesOK, SliceOK, CellOf
  <2> QED BY <2>1, <1>1, <1>7 DEF SlicesOK
<1> QED BY <1>1, <1>6, <1>7 DEF a

(* BeginningLen bytes are before the end of the memory.                    *)
LEMMA HalvesFacts ==
  ASSUME NEW b, BufferOK(b)
  PROVE  /\ BeginningLen(b) \in 0..b.len
         /\ b.head + BeginningLen(b) <= RingSize
         /\ BeginningLen(b) < b.len => b.head + BeginningLen(b) = RingSize
         /\ b.len - BeginningLen(b) <= b.head
BY BufferFacts, SizeFacts DEF BeginningLen

(* The bytes deleted or held are none of those not handed out.             *)
LEMMA HandedOut ==
  ASSUME NEW b, BufferOK(b), NEW S, SlicesOK(b, S), NEW x
  PROVE  /\ x \in Cover(b.del.ranges) =>
              x \in Int /\ b.del.offset <= x /\ x < b.del.offset + b.first
         /\ x \in HeldBy(S) =>
              x \in Int /\ b.del.offset <= x /\ x < b.del.offset + b.first
BY BufferFacts DEF SlicesOK

(* Taking the next bytes keeps the books: they are under a new slice, or   *)
(* were copied, and then they are deleted, although in two steps.          *)
LEMMA HandOutFacts ==
  ASSUME NEW b, BufferOK(b), NEW S, SlicesOK(b, S),
         NEW r \in Nat, b.first <= r, r < b.len
  PROVE  LET h == HandOut(b, b.first, r)
             m == SliceMade(b, b.first, r)
         IN  /\ BufferOK(h)
             /\ h.len = b.len /\ h.first = r + 1 /\ h.del.offset = b.del.offset
             /\ SlicesOK(h, S \cup m)
             /\ \A s \in m : s.from = b.del.offset + b.first /\ s.len = r - b.first + 1
<1> DEFINE l == b.first
           h == HandOut(b, b.first, r)
           m == SliceMade(b, b.first, r)
           off == b.del.offset
           B == BeginningLen(b)
<1>1. /\ b.head \in Cell /\ b.head \in Nat /\ b.len \in Nat /\ l \in Nat
      /\ off \in Nat /\ b.len <= Capacity /\ b.len <= RingSize /\ b.head < RingSize
      /\ RingSize \in Nat /\ B \in Nat /\ B <= b.len
      /\ b.head + B <= RingSize
      /\ B < b.len => b.head + B = RingSize
  BY BufferFacts, HalvesFacts, SizeFacts
<1>2. /\ b = [mem |-> b.mem, head |-> b.head, len |-> b.len, first |-> b.first,
              del |-> b.del]
      /\ TrackerOK(b.del)
  BY DEF BufferOK
<1>3. PICK d : d = IF CrossesEnd(b, l, r) THEN Track(Track(b.del, l, B - 1), B, r)
                   ELSE b.del
  OBVIOUS
<1>4. h = [b EXCEPT !.first = r + 1, !.del = d]
  <2>1. h = [b EXCEPT !.first = b.first + (r - b.first + 1), !.del = d]
    <3>1. CASE CrossesEnd(b, l, r)
      BY <3>1, <1>3, Zenon DEF HandOut
    <3>2. CASE ~CrossesEnd(b, l, r)
      <4>1. h = [b EXCEPT !.first = b.first + (r - b.first + 1)]
        BY <3>2, Zenon DEF HandOut
      <4> HIDE DEF h
      <4> QED BY <4>1, <3>2, <1>2, <1>3
    <3> QED BY <3>1, <3>2
  <2>2. b.first + (r - b.first + 1) = r + 1
    BY <1>1
  <2> QED BY <2>1, <2>2, Zenon
<1> HIDE DEF h
<1>5. h = [mem |-> b.mem, head |-> b.head, len |-> b.len, first |-> r + 1, del |-> d]
  BY <1>2, <1>4
<1>6. \A x : x \in Cover(b.del.ranges) \/ x \in HeldBy(S) => x < off + l
  BY HandedOut
<1>7. /\ TrackerOK(d) /\ d.offset = off
      /\ Cover(d.ranges) =
           Cover(b.del.ranges) \cup IF CrossesEnd(b, l, r) THEN off + l..off + r ELSE {}
  <2>1. CASE ~CrossesEnd(b, l, r)
    BY <2>1, <1>2, <1>3
  <2>2. CASE CrossesEnd(b, l, r)
    <3> DEFINE t == Track(b.del, l, B - 1)
    <3>1. l < B /\ B <= r /\ B - 1 \in Nat /\ l <= B - 1
      BY <2>2, <1>1 DEF CrossesEnd
    <3>2. \A x \in l + off..(B - 1) + off : x \notin Cover(b.del.ranges)
      BY <1>1, <1>6, <3>1
    <3>3. /\ TrackerOK(t) /\ t.offset = off
          /\ Cover(t.ranges) = Cover(b.del.ranges) \cup l + off..(B - 1) + off
      <4> HIDE DEF l, B
      <4> QED BY <1>1, <1>2, <3>1, <3>2, TrackFacts
    <3> HIDE DEF t
    <3>4. \A x \in B + t.offset..r + t.offset : x \notin Cover(t.ranges)
      BY <1>1, <1>6, <3>1, <3>3
    <3>5. /\ TrackerOK(Track(t, B, r)) /\ Track(t, B, r).offset = off
          /\ Cover(Track(t, B, r).ranges) = Cover(t.ranges) \cup B + off..r + off
      <4> HIDE DEF B
      <4> QED BY <1>1, <3>1, <3>3, <3>4, TrackFacts
    <3>6. d = Track(t, B, r)
      BY <2>2, <1>3 DEF t
    <3>7. (l + off..(B - 1) + off) \cup (B + off..r + off) = off + l..off + r
      BY <1>1, <3>1
    <3>8. Cover(d.ranges) = Cover(b.del.ranges) \cup off + l..off + r
      BY <3>3, <3>5, <3>6, <3>7
    <3> QED BY <2>2, <3>5, <3>6, <3>8
  <2> QED BY <2>1, <2>2
<1>8. BufferOK(h)
  <2>1. r + 1 \in Nat /\ r + 1 <= b.len
    BY <1>1
  <2>2. d \in [ranges : SUBSET DTRange, offset : Nat]
    BY <1>7 DEF TrackerOK
  <2>3. \A k : CellOf(h, k) = CellOf(b, k)
    BY <1>5 DEF CellOf
  <2> QED BY <2>1, <2>2, <2>3, <1>5, <1>7 DEF BufferOK
<1>9. ASSUME NEW s \in m
      PROVE  /\ s.from = off + l /\ s.len = r - l + 1 /\ ~CrossesEnd(b, l, r)
             /\ m = {s} /\ BytesOf(s) = off + l..off + r
             /\ SliceOK(h, s)
  <2>1. /\ ~CrossesEnd(b, l, r) /\ m = {s}
        /\ s = [start |-> CellOf(b, l), len |-> r - l + 1, from |-> off + l]
    BY DEF SliceMade
  <2>2. /\ s.start = CellOf(b, l) /\ s.len = r - l + 1 /\ s.from = off + l
        /\ BytesOf(s) = off + l..off + r
    BY <2>1, <1>1, SMTT(60) DEF BytesOf
  <2>3. /\ CellOf(b, l) \in Nat
        /\ b.head + l < RingSize => CellOf(b, l) = b.head + l
        /\ b.head + l >= RingSize => CellOf(b, l) = b.head + l - RingSize
    BY <1>1, CellFacts DEF Cell
  <2>4. s.start + s.len <= RingSize
    <3>1. B <= l \/ r < B
      BY <2>1, <1>1 DEF CrossesEnd
    <3> HIDE DEF l, B
    <3>2. CASE r < B
      BY <3>2, <2>2, <2>3, <1>1, SMTT(60) DEF l
    <3>3. CASE B <= l
      <4>1. l <= r /\ B < b.len /\ b.head + l >= RingSize
        BY <3>3, <1>1 DEF l
      <4>2. s.start = b.head + l - RingSize
        BY <4>1, <2>2, <2>3
      <4>3. r + 1 <= RingSize /\ b.head <= RingSize
        BY <1>1
      <4>4. PICK x, y : x = s.start /\ y = s.len
        OBVIOUS
      <4>5. x = b.head + l - RingSize /\ y = r - l + 1
        BY <4>2, <4>4, <2>2
      <4>6. x + y <= RingSize
        BY <4>3, <4>5, <1>1
      <4> QED BY <4>4, <4>6
    <3> QED BY <3>1, <3>2, <3>3
  <2>5. s.from - h.del.offset = l /\ CellOf(h, l) = CellOf(b, l)
    BY <2>2, <1>1, <1>5, <1>7 DEF CellOf
  <2>6. s \in [start : Nat, len : Nat \ {0}, from : Nat]
    BY <2>1, <2>3, <1>1
  <2>7. SliceOK(h, s)
    <3>1. off <= s.from /\ s.from + s.len <= off + (r + 1)
      BY <2>2, <1>1, SMTT(60)
    <3> QED BY <3>1, <2>2, <2>4, <2>5, <2>6, <1>5, <1>7 DEF SliceOK
  <2> QED BY <2>1, <2>2, <2>7
<1>10. ASSUME NEW s \in S PROVE SliceOK(h, s)
  <2>1. SliceOK(b, s)
    BY DEF SlicesOK
  <2>2. \A k : CellOf(h, k) = CellOf(b, k)
    BY <1>5 DEF CellOf
  <2>3. /\ s \in [start : Nat, len : Nat \ {0}, from : Nat]
        /\ off <= s.from /\ s.from + s.len <= off + l
    BY <2>1 DEF SliceOK
  <2>4. s.from \in Nat /\ s.len \in Nat
    BY <2>3
  <2>5. s.from + s.len <= off + (r + 1)
    BY <2>3, <2>4, <1>1
  <2> QED BY <2>1, <2>2, <2>3, <2>5, <1>5, <1>7 DEF SliceOK
<1>11. HeldBy(S \cup m) = HeldBy(S) \cup IF CrossesEnd(b, l, r) THEN {} ELSE off + l..off + r
  <2>1. CASE CrossesEnd(b, l, r)
    <3>1. m = {}
      BY <2>1 DEF SliceMade
    <3> QED BY <2>1, <3>1 DEF HeldBy
  <2>2. CASE ~CrossesEnd(b, l, r)
    <3>1. m # {}
      BY <2>2 DEF SliceMade
    <3>2. PICK s \in m : TRUE
      BY <3>1
    <3>3. HeldBy(S \cup {s}) = HeldBy(S) \cup BytesOf(s)
      BY DEF HeldBy
    <3> QED BY <2>2, <3>2, <3>3, <1>9
  <2> QED BY <2>1, <2>2
<1>12. SlicesOK(h, S \cup m)
  <2>1. \A s \in S \cup m : SliceOK(h, s)
    BY <1>9, <1>10
  <2>2. ASSUME NEW s \in S \cup m, NEW t \in S \cup m, s # t
        PROVE  BytesOf(s) \cap BytesOf(t) = {}
    <3>1. \A u \in S : \A x \in BytesOf(u) : x < off + l
      BY <1>6 DEF HeldBy
    <3>2. \A u \in m : \A x \in BytesOf(u) : ~(x < off + l)
      BY <1>9, <1>1
    <3>3. s \in S /\ t \in S => BytesOf(s) \cap BytesOf(t) = {}
      BY <2>2 DEF SlicesOK
    <3>4. ~(s \in m /\ t \in m)
      BY <2>2, <1>9
    <3> QED BY <3>1, <3>2, <3>3, <3>4
  <2>3. /\ Cover(b.del.ranges) \cap HeldBy(S) = {}
        /\ Cover(b.del.ranges) \cup HeldBy(S) = off..off + l - 1
    BY DEF SlicesOK
  <2>4. \A x \in off + l..off + r : x \notin Cover(b.del.ranges) /\ x \notin HeldBy(S)
    BY <1>1, <1>6
  <2>5. (off..off + l - 1) \cup (off + l..off + r) = off..off + (r + 1) - 1
    BY <1>1
  <2>6. Cover(d.ranges) \cap HeldBy(S \cup m) = {}
    BY <2>3, <2>4, <1>7, <1>11
  <2>7. Cover(d.ranges) \cup HeldBy(S \cup m) = off..off + (r + 1) - 1
    BY <2>3, <2>5, <1>7, <1>11
  <2>8. h.del.ranges = d.ranges /\ h.del.offset = off /\ h.first = r + 1
    BY <1>5, <1>7
  <2> QED BY <2>1, <2>2, <2>6, <2>7, <2>8 DEF SlicesOK
<1>13. h.len = b.len /\ h.first = r + 1 /\ h.del.offset = off
  BY <1>5, <1>7
<1>14. \A s \in m : s.from = off + l /\ s.len = r - l + 1
  BY <1>9
<1> QED BY <1>8, <1>12, <1>13, <1>14 DEF h

(* add_slicing: the bytes added are handed out at once.                    *)
LEMMA AddSlicingFacts ==
  ASSUME NEW b, BufferOK(b), NEW S, SlicesOK(b, S), b.first = b.len,
         NEW n \in Nat \ {0}, n <= SpaceLeft(b)
  PROVE  LET a == AddBytes(b, n)
             h == HandOut(a, b.len, b.len + n - 1)
             m == SliceMade(a, b.len, b.len + n - 1)
         IN  /\ BufferOK(h) /\ SlicesOK(h, S \cup m)
             /\ h.first = h.len
             /\ h.del.offset + h.len = b.del.offset + b.len + n
             /\ \A t \in m : m = {t} /\ t.from = b.del.offset + b.len
<1>1. PICK a, r : a = AddBytes(b, n) /\ r = b.len + n - 1
  OBVIOUS
<1>2. b.len \in Nat /\ b.del.offset \in Nat
  BY BufferFacts
<1>3. /\ BufferOK(a) /\ SlicesOK(a, S)
      /\ a.len = b.len + n /\ a.first = b.len /\ a.del = b.del
  BY <1>1, AddFacts
<1>4. r \in Nat /\ a.first <= r /\ r < a.len /\ r + 1 = a.len
  BY <1>1, <1>2, <1>3
<1>5. PICK h, m : h = HandOut(a, b.len, r) /\ m = SliceMade(a, b.len, r)
  OBVIOUS
<1>6. /\ BufferOK(h) /\ SlicesOK(h, S \cup m)
      /\ h.len = a.len /\ h.first = r + 1 /\ h.del.offset = a.del.offset
      /\ \A t \in m : t.from = a.del.offset + a.first
  BY <1>3, <1>4, <1>5, HandOutFacts
<1>7. \A t \in m : m = {t} /\ t.from = b.del.offset + b.len
  BY <1>3, <1>5, <1>6 DEF SliceMade
<1>8. h.del.offset + h.len = b.del.offset + b.len + n /\ h.first = h.len
  BY <1>2, <1>3, <1>4, <1>6
<1> QED BY <1>1, <1>5, <1>6, <1>7, <1>8, Zenon

(* slice_to_range finds a live slice in one of the halves, at the position *)
(* its bytes have now.                                                     *)
LEMMA PositionFacts ==
  ASSUME NEW b, BufferOK(b), NEW s, SliceOK(b, s)
  PROVE  /\ InBeginning(b, s) \/ InEnding(b, s)
         /\ PositionOf(b, s) = s.from - b.del.offset
<1>1. PICK p, e, B : p = s.from - b.del.offset /\ e = s.len /\ B = BeginningLen(b)
  OBVIOUS
<1>2. /\ p \in Nat /\ e \in Nat /\ e > 0 /\ p + e <= b.len /\ b.len <= RingSize
      /\ b.head \in Nat /\ b.head < RingSize /\ RingSize \in Nat /\ b.len \in Nat
      /\ B \in Nat /\ B <= b.len /\ b.head + B <= RingSize
      /\ B < b.len => b.head + B = RingSize
      /\ b.len - B <= b.head
  BY <1>1, BufferFacts, SliceFacts, HalvesFacts, SizeFacts
<1>3. s.start = CellOf(b, p) /\ s.start + e <= RingSize
  BY <1>1 DEF SliceOK
<1>4. p \in 0..RingSize /\ b.head \in Cell
  BY <1>2, BufferFacts
<1>5. /\ b.head + p < RingSize => s.start = b.head + p
      /\ b.head + p >= RingSize => s.start = b.head + p - RingSize
  BY <1>3, <1>4, CellFacts
<1>6. CASE p < B
  <2>1. s.start = b.head + p
    BY <1>2, <1>5, <1>6
  <2>2. s.start + e <= b.head + B
    BY <2>1, <1>2, <1>3, <1>6
  <2>3. InBeginning(b, s)
    BY <2>1, <2>2, <1>1, <1>2 DEF InBeginning
  <2>4. PositionOf(b, s) = p
    BY <2>1, <2>3, <1>2 DEF PositionOf
  <2> QED BY <2>3, <2>4, <1>1
<1>7. CASE B <= p
  <2>1. b.head + p >= RingSize /\ b.head + B = RingSize
    BY <1>2, <1>7
  <2>2. s.start = p - B
    BY <2>1, <1>2, <1>5
  <2>3. s.start < b.head /\ s.start + e <= b.len - B
    BY <2>2, <1>2
  <2>4. ~InBeginning(b, s) /\ InEnding(b, s)
    BY <2>2, <2>3, <1>1, <1>2 DEF InBeginning, InEnding
  <2>5. PositionOf(b, s) = p
    BY <2>2, <2>4, <1>1, <1>2 DEF PositionOf
  <2> QED BY <2>4, <2>5, <1>1
<1> QED BY <1>2, <1>6, <1>7

(* Dropping a slice moves its bytes from the held to the deleted ones, and *)
(* tracks none that is tracked.                                            *)
LEMMA DropFacts ==
  ASSUME NEW b, BufferOK(b), NEW S, SlicesOK(b, S), NEW s \in S
  PROVE  LET d == DropBytes(b, s)
         IN  /\ BufferOK(d)
             /\ d.len = b.len /\ d.first = b.first /\ d.del.offset = b.del.offset
             /\ SlicesOK(d, S \ {s})
<1>1. PICK p, e, off : p = s.from - b.del.offset /\ e = s.len /\ off = b.del.offset
  OBVIOUS
<1>2. SliceOK(b, s) /\ PositionOf(b, s) = p
  BY <1>1, PositionFacts DEF SlicesOK
<1>3. p \in Nat /\ e \in Nat /\ e > 0 /\ off \in Nat /\ s.from = off + p /\ p + e <= b.first
  BY <1>1, <1>2, SliceFacts, BufferFacts
<1>4. PICK r : r = p + e - 1
  OBVIOUS
<1>5. r \in Nat /\ p <= r /\ TrackerOK(b.del)
  BY <1>3, <1>4 DEF BufferOK
<1>6. BytesOf(s) = p + off..r + off
  <2>1. PICK x : x = s.from
    OBVIOUS
  <2>2. x = p + off /\ x + e - 1 = r + off
    BY <2>1, <1>3, <1>4
  <2>3. BytesOf(s) = x..x + e - 1
    BY <2>1, <1>1 DEF BytesOf
  <2> QED BY <2>2, <2>3
<1>7. \A x \in BytesOf(s) : x \notin Cover(b.del.ranges)
  BY DEF SlicesOK, HeldBy
<1> DEFINE t == Track(b.del, p, r)
<1>8. /\ TrackerOK(t) /\ t.offset = off
      /\ Cover(t.ranges) = Cover(b.del.ranges) \cup BytesOf(s)
  <2>1. PICK bt : bt = b.del
    OBVIOUS
  <2>2. \A x \in p + bt.offset..r + bt.offset : x \notin Cover(bt.ranges)
    BY <2>1, <1>1, <1>6, <1>7
  <2>3. /\ TrackerOK(Track(bt, p, r)) /\ Track(bt, p, r).offset = bt.offset
        /\ Cover(Track(bt, p, r).ranges) =
             Cover(bt.ranges) \cup p + bt.offset..r + bt.offset
    BY <2>1, <2>2, <1>3, <1>5, TrackFacts
  <2> QED BY <2>1, <2>3, <1>1, <1>6
<1>9. DropBytes(b, s) = [b EXCEPT !.del = t]
  BY <1>1, <1>2, <1>4 DEF DropBytes
<1> HIDE DEF t
<1>10. DropBytes(b, s) = [mem |-> b.mem, head |-> b.head, len |-> b.len,
                          first |-> b.first, del |-> t]
  BY <1>9 DEF BufferOK
<1> DEFINE d == DropBytes(b, s)
<1> HIDE DEF d
<1>11. /\ d.mem = b.mem /\ d.head = b.head /\ d.len = b.len /\ d.first = b.first
       /\ d.del = t
       /\ d = [mem |-> d.mem, head |-> d.head, len |-> d.len, first |-> d.first,
               del |-> d.del]
  BY <1>10 DEF d
<1>12. \A k : CellOf(d, k) = CellOf(b, k)
  BY <1>11 DEF CellOf
<1>13. BufferOK(d)
  <2>1. t \in [ranges : SUBSET DTRange, offset : Nat]
    BY <1>8 DEF TrackerOK
  <2> QED BY <2>1, <1>1, <1>8, <1>11, <1>12 DEF BufferOK
<1>14. SlicesOK(d, S \ {s})
  <2>1. \A u \in S \ {s} : SliceOK(d, u)
    BY <1>1, <1>8, <1>11, <1>12 DEF SlicesOK, SliceOK
  <2>2. \A u, v \in S \ {s} : u # v => BytesOf(u) \cap BytesOf(v) = {}
    BY DEF SlicesOK
  <2>3. \A x : x \in HeldBy(S \ {s}) <=> x \in HeldBy(S) /\ x \notin BytesOf(s)
    BY DEF SlicesOK, HeldBy
  <2>4. BytesOf(s) \subseteq HeldBy(S)
    BY DEF HeldBy
  <2>5. /\ Cover(b.del.ranges) \cap HeldBy(S) = {}
        /\ Cover(b.del.ranges) \cup HeldBy(S) = off..off + b.first - 1
    BY <1>1 DEF SlicesOK
  <2>6. Cover(t.ranges) \cap HeldBy(S \ {s}) = {}
    BY <2>3, <2>5, <1>8
  <2>7. Cover(t.ranges) \cup HeldBy(S \ {s}) = off..off + b.first - 1
    BY <2>3, <2>4, <2>5, <1>8
  <2> QED BY <2>1, <2>2, <2>6, <2>7, <1>8, <1>11 DEF SlicesOK
<1> QED BY <1>1, <1>8, <1>11, <1>13, <1>14 DEF d

(* cleanup drains the deleted bytes at the front, all of them; it moves    *)
(* no byte and leaves the live slices where they point.                    *)
LEMMA CleanUpFacts ==
  ASSUME NEW b, BufferOK(b), NEW S, SlicesOK(b, S)
  PROVE  LET c == CleanUp(b)
         IN  /\ BufferOK(c)
             /\ c.del.offset + c.len = b.del.offset + b.len
             /\ c.del.offset + c.first = b.del.offset + b.first
             /\ c.del.offset \notin Cover(c.del.ranges)
             /\ SlicesOK(c, S)
<1> DEFINE c == CleanUp(b)
<1>1. CASE ~CanTake(b.del)
  <2>1. c = b
    BY <1>1 DEF CleanUp
  <2>2. \A a \in b.del.ranges : a[1] \in Nat /\ b.del.offset <= a[1]
    BY DEF BufferOK, TrackerOK, DTRange
  <2>3. ASSUME NEW a \in b.del.ranges, b.del.offset \in a[1]..a[2] PROVE FALSE
    <3>1. b.del.ranges # {} /\ b.del.ranges \subseteq DTRange
      BY DEF BufferOK, TrackerOK
    <3>2. /\ First(b.del.ranges) \in b.del.ranges
          /\ First(b.del.ranges)[1] <= a[1]
      BY <3>1, FirstIsLeast
    <3>3. First(b.del.ranges)[1] = b.del.offset
      BY <3>2, <2>2, <2>3, BufferFacts
    <3> QED BY <3>1, <3>3, <1>1 DEF CanTake
  <2>4. b.del.offset \notin Cover(b.del.ranges)
    BY <2>3 DEF Cover
  <2> QED BY <2>1, <2>4
<1>2. CASE CanTake(b.del)
  <2>1. PICK off, last, n : /\ off = b.del.offset
                            /\ last = First(b.del.ranges)[2]
                            /\ n = TakenLast(b.del) + 1
    OBVIOUS
  <2>2. PICK t : t = Take(b.del)
    OBVIOUS
  <2>3. /\ TrackerOK(t)
        /\ last \in Cover(b.del.ranges) /\ off <= last
        /\ off..last \subseteq Cover(b.del.ranges)
        /\ last + 1 \notin Cover(b.del.ranges)
        /\ Cover(t.ranges) = Cover(b.del.ranges) \ (off..last)
        /\ t.offset = last + 1
    <3>1. TrackerOK(b.del)
      BY DEF BufferOK
    <3> QED BY <2>1, <2>2, <3>1, <1>2, TakeFacts
  <2>4. /\ last \in Int /\ off \in Nat /\ n = last - off + 1 /\ n \in Nat /\ n > 0
        /\ b.len \in Nat /\ b.first \in Nat /\ b.len <= RingSize /\ n <= b.first
        /\ b.first <= b.len /\ t.offset = off + n
        /\ b.head \in Nat /\ b.head \in Cell /\ RingSize \in Nat \ {0}
        /\ b.len <= Capacity /\ Capacity \in Nat
    <3>1. last \in Int /\ last < off + b.first
      BY <2>1, <2>3, HandedOut
    <3> QED BY <3>1, <2>1, <2>3, BufferFacts, SizeFacts DEF TakenLast
  <2>5. PICK h : h = IF n = b.len THEN 0 ELSE CellOf(b, n)
    OBVIOUS
  <2>6. c = [b EXCEPT !.head = h, !.len = @ - n, !.first = @ - n, !.del = t]
    BY <2>1, <2>2, <2>5, <1>2, Zenon DEF CleanUp
  <2> HIDE DEF c
  <2>7. /\ c.mem = b.mem /\ c.head = h /\ c.len = b.len - n /\ c.first = b.first - n
        /\ c.del = t
        /\ c = [mem |-> c.mem, head |-> c.head, len |-> c.len, first |-> c.first,
                del |-> c.del]
    <3>1. c = [mem |-> b.mem, head |-> h, len |-> b.len - n, first |-> b.first - n,
               del |-> t]
      BY <2>6 DEF BufferOK
    <3> QED BY <3>1
  <2>8. ASSUME n < b.len, NEW k \in 0..b.len - n - 1
        PROVE  CellOf(c, k) = CellOf(b, n + k)
    <3>1. PICK x : x = b.head + n
      OBVIOUS
    <3>2. x \in Int /\ k \in Int /\ b.head + (n + k) = x + k
      BY <3>1, <2>4
    <3>3. ((x % RingSize) + k) % RingSize = (x + k) % RingSize
      BY <3>2, <2>4, ModAdd
    <3>4. c.head = x % RingSize
      BY <3>1, <2>5, <2>7, <2>8, <2>4 DEF CellOf
    <3> QED BY <3>2, <3>3, <3>4 DEF CellOf
  <2>9. h \in Cell
    <3>1. 0 \in Cell /\ n \in 0..RingSize
      BY <2>4 DEF Cell
    <3> QED BY <3>1, <2>4, <2>5, CellFacts
  <2>10. BufferOK(c)
    <3>1. /\ c.len \in 0..Capacity /\ c.first \in Nat /\ c.first <= c.len
      BY <2>4, <2>7
    <3>2. c.del \in [ranges : SUBSET DTRange, offset : Nat]
      BY <2>3, <2>7 DEF TrackerOK
    <3>3. ASSUME NEW k \in 0..c.len - 1 PROVE c.mem[CellOf(c, k)] = c.del.offset + k
      <4>1. n < b.len /\ k \in 0..b.len - n - 1 /\ n + k \in 0..b.len - 1 /\ k \in Int
        BY <2>4, <2>7
      <4>2. b.mem[CellOf(b, n + k)] = off + (n + k)
        BY <4>1, <2>1 DEF BufferOK
      <4>3. CellOf(c, k) = CellOf(b, n + k)
        BY <4>1, <2>8
      <4> QED BY <4>1, <4>2, <4>3, <2>4, <2>7
    <3>4. c.mem \in [Cell -> Nat]
      BY <2>7 DEF BufferOK
    <3> QED BY <3>1, <3>2, <3>3, <3>4, <2>3, <2>7, <2>9 DEF BufferOK
  <2>11. ASSUME NEW s \in S PROVE SliceOK(c, s)
    <3>1. SliceOK(b, s)
      BY DEF SlicesOK
    <3>2. /\ s.from \in Nat /\ s.len \in Nat /\ s.len > 0
          /\ off <= s.from /\ s.from + s.len <= off + b.first
      BY <3>1, <2>1, SliceFacts DEF SliceOK
    <3>3. \A x \in BytesOf(s) : x \notin off..last
      BY <2>3 DEF SlicesOK, HeldBy
    <3>4. off + n <= s.from
      BY <3>2, <3>3, <2>4 DEF BytesOf
    <3>5. PICK k : k = s.from - (off + n)
      OBVIOUS
    <3>6. n < b.len /\ k \in 0..b.len - n - 1 /\ s.from - off = n + k
      BY <3>2, <3>4, <3>5, <2>4
    <3>7. CellOf(c, k) = CellOf(b, s.from - off)
      BY <3>6, <2>8
    <3>8. s.start = CellOf(c, s.from - c.del.offset)
      BY <3>1, <3>5, <3>7, <2>1, <2>4, <2>7 DEF SliceOK
    <3>9. c.del.offset <= s.from /\ s.from + s.len <= c.del.offset + c.first
      BY <3>2, <3>4, <2>4, <2>7
    <3> QED BY <3>1, <3>8, <3>9 DEF SliceOK
  <2>12. SlicesOK(c, S)
    <3>1. /\ Cover(b.del.ranges) \cap HeldBy(S) = {}
          /\ Cover(b.del.ranges) \cup HeldBy(S) = off..off + b.first - 1
          /\ \A s, t2 \in S : s # t2 => BytesOf(s) \cap BytesOf(t2) = {}
      BY <2>1 DEF SlicesOK
    <3>2. \A x : x \in Cover(t.ranges) <=> x \in Cover(b.del.ranges) /\ x \notin off..last
      BY <2>3
    <3>3. \A x : x \in HeldBy(S) => x \notin off..last
      BY <3>1, <2>3
    <3>4. \A x : x \in off..off + b.first - 1 /\ x \notin off..last
                   <=> x \in off + n..off + n + (b.first - n) - 1
      BY <2>4
    <3>5. Cover(t.ranges) \cap HeldBy(S) = {}
      BY <3>1, <3>2
    <3>6. Cover(t.ranges) \cup HeldBy(S) = off + n..off + n + (b.first - n) - 1
      BY <3>1, <3>2, <3>3, <3>4
    <3> QED BY <3>1, <3>5, <3>6, <2>4, <2>7, <2>11 DEF SlicesOK
  <2>13. c.del.offset \notin Cover(c.del.ranges)
    BY <2>3, <2>7
  <2>14. /\ c.del.offset + c.len = b.del.offset + b.len
         /\ c.del.offset + c.first = b.del.offset + b.first
    BY <2>1, <2>4, <2>7
  <2> QED BY <2>10, <2>12, <2>13, <2>14 DEF c
<1> QED BY <1>1, <1>2

-----------------------------------------------------------------------------
(* Sequence numbers: sums and differences go round together.               *)
LEMMA SeqnoFacts ==
  ASSUME NEW s \in Int, NEW x \in Int, NEW y \in Int
  PROVE  /\ Plus(s, x) \in Seqno
         /\ Plus(Plus(s, x), y) = Plus(s, x + y)
         /\ Minus(Plus(s, x), Plus(s, y)) = (x - y) % SeqMod
         /\ x - y \in 0..SeqMod - 1 => Minus(Plus(s, x), Plus(s, y)) = x - y
         /\ x - y \in -SeqMod..-1 => Minus(Plus(s, x), Plus(s, y)) = x - y + SeqMod
<1>1. PICK a, b, d : a = s + x /\ b = s + y /\ d = x - y
  OBVIOUS
<1>2. /\ a \in Int /\ b \in Int /\ d \in Int /\ SeqMod \in Nat \ {0}
      /\ a - b = d /\ a + y = s + (x + y)
  BY <1>1, SeqModAssumption
<1>3. a % SeqMod \in 0..SeqMod - 1 /\ b % SeqMod \in 0..SeqMod - 1
  BY <1>2, ModSmall
<1>4. ((a % SeqMod) + y) % SeqMod = (a + y) % SeqMod
  BY <1>2, ModAdd
<1>5. PICK z : z = -(b % SeqMod)
  OBVIOUS
<1>6. z \in Int /\ b % SeqMod \in Int /\ a % SeqMod \in Int
  BY <1>3, <1>5
<1>7. ((a % SeqMod) + z) % SeqMod = (a + z) % SeqMod
  BY <1>2, <1>6, ModAdd, ZenonT(60)
<1>8. (a - (b % SeqMod)) % SeqMod = d % SeqMod
  BY <1>2, ModAdd
<1>9. ((a % SeqMod) - (b % SeqMod)) % SeqMod = d % SeqMod
  <2>1. (a % SeqMod) + z = (a % SeqMod) - (b % SeqMod) /\ a + z = a - (b % SeqMod)
    BY <1>2, <1>5, <1>6
  <2> QED BY <2>1, <1>7, <1>8
<1>10. /\ d \in 0..SeqMod - 1 => d % SeqMod = d
       /\ d \in -SeqMod..-1 => d % SeqMod = d + SeqMod
  BY <1>2, ModSmall
<1>11. Plus(s, x) = a % SeqMod /\ Plus(s, y) = b % SeqMod
  BY <1>1 DEF Plus
<1>12. Plus(s, x) \in Seqno
  BY <1>3, <1>11 DEF Seqno
<1>13. Plus(Plus(s, x), y) = Plus(s, x + y)
  BY <1>2, <1>4, <1>11 DEF Plus
<1>14. Minus(Plus(s, x), Plus(s, y)) = d % SeqMod
  BY <1>9, <1>11 DEF Minus
<1>15. x - y + SeqMod = d + SeqMod
  BY <1>1, <1>2
<1> QED BY <1>1, <1>10, <1>12, <1>13, <1>14, <1>15

(* The numbers from that of stream position x to that of y.                *)
LEMMA CircularFacts ==
  ASSUME NEW s \in Int, NEW x \in Int, NEW y \in Int, y - x \in 0..SeqMod - 1
  PROVE  Circular(Plus(s, x), Plus(s, y)) = {Plus(s, q) : q \in x..y}
<1>1. Minus(Plus(s, y), Plus(s, x)) = y - x
  BY SeqnoFacts
<1>2. \A i \in 0..y - x : x + i \in x..y /\ Plus(Plus(s, x), i) = Plus(s, x + i)
  BY SeqnoFacts
<1>3. \A q \in x..y : q - x \in 0..y - x /\ x + (q - x) = q
  OBVIOUS
<1> QED BY <1>1, <1>2, <1>3 DEF Circular

(* A position that is tracked alone: one that is not covered is new and    *)
(* joins the covered ones; one that is covered is either known, or taken   *)
(* for new because a range ends before it, and then tracking it panics or  *)
(* changes nothing.                                                        *)
LEMMA TrackOneFacts ==
  ASSUME NEW t, TrackerOK(t), NEW p \in Nat
  PROVE  LET q     == p + t.offset
             isNew == IsRangeTracked(t, p, p) # "yes"
         IN  /\ q \notin Cover(t.ranges) =>
                  /\ isNew
                  /\ ~TrackPanics(t.ranges, q, q)
                  /\ TrackerOK(Track(t, p, p))
                  /\ Track(t, p, p).offset = t.offset
                  /\ Cover(Track(t, p, p).ranges) = Cover(t.ranges) \cup {q}
             /\ q \in Cover(t.ranges) /\ isNew =>
                  /\ \E a, b \in t.ranges : a # b
                  /\ ~TrackPanics(t.ranges, q, q) => Track(t, p, p) = t
<1> DEFINE R == t.ranges
           L == Relative(t)
<1>1. PICK q : q = p + t.offset
  OBVIOUS
<1>2. /\ R \subseteq DTRange /\ Separated(R) /\ t.offset \in Nat /\ q \in Nat
      /\ \A a \in R : a[1] \in Nat /\ a[2] \in Nat /\ a[1] <= a[2]
  BY <1>1 DEF TrackerOK, DTRange
<1>3. \A a \in R : <<a[1] - t.offset, a[2] - t.offset>> \in L
  BY DEF Relative
<1>4. \A c \in L : \E a \in R : c[1] = a[1] - t.offset /\ c[2] = a[2] - t.offset
  BY DEF Relative
<1>5. \A c \in L : ContainsRange(c, <<p, p>>) <=> c[1] <= p /\ p <= c[2]
  BY DEF ContainsRange, ContainsPoint
<1>6. IsRangeTracked(t, p, p) = "yes" <=>
        /\ L # {} /\ ~(First(L)[2] < p)
        /\ \E c \in L : ContainsRange(c, <<p, p>>)
  BY DEF IsRangeTracked
<1> HIDE DEF L
<1>7. (\E c \in L : ContainsRange(c, <<p, p>>)) <=> \E a \in R : a[1] <= q /\ q <= a[2]
  <2>1. ASSUME NEW c \in L, ContainsRange(c, <<p, p>>)
        PROVE  \E a \in R : a[1] <= q /\ q <= a[2]
    <3>1. PICK a \in R : c[1] = a[1] - t.offset /\ c[2] = a[2] - t.offset
      BY <1>4
    <3>2. a[1] - t.offset <= p /\ p <= a[2] - t.offset
      BY <2>1, <3>1, <1>5
    <3> QED BY <3>2, <1>1, <1>2
  <2>2. ASSUME NEW a \in R, a[1] <= q, q <= a[2]
        PROVE  \E c \in L : ContainsRange(c, <<p, p>>)
    <3>1. PICK c : c = <<a[1] - t.offset, a[2] - t.offset>>
      OBVIOUS
    <3>2. c \in L /\ c[1] <= p /\ p <= c[2]
      BY <3>1, <2>2, <1>1, <1>2, <1>3
    <3> QED BY <3>2, <1>5
  <2> QED BY <2>1, <2>2
<1>8. q \in Cover(R) <=> \E a \in R : a[1] <= q /\ q <= a[2]
  BY <1>2 DEF Cover
<1>9. CASE q \notin Cover(R)
  <2>1. IsRangeTracked(t, p, p) # "yes"
    BY <1>6, <1>7, <1>8, <1>9
  <2>2. \A x \in p + t.offset..p + t.offset : x \notin Cover(t.ranges)
    BY <1>1, <1>2, <1>9
  <2>3. /\ TrackerOK(Track(t, p, p)) /\ Track(t, p, p).offset = t.offset
        /\ Cover(Track(t, p, p).ranges) =
             Cover(t.ranges) \cup p + t.offset..p + t.offset
        /\ ~TrackPanics(t.ranges, p + t.offset, p + t.offset)
    <3>1. p <= p
      OBVIOUS
    <3> QED BY <3>1, <2>2, TrackFacts
  <2>4. q..q = {q}
    BY <1>2
  <2> QED BY <2>1, <2>3, <2>4, <1>1, <1>9
<1>10. CASE q \in Cover(R) /\ IsRangeTracked(t, p, p) # "yes"
  <2>1. PICK a \in R : a[1] <= q /\ q <= a[2]
    BY <1>8, <1>10
  <2>2. L # {} /\ First(L)[2] < p
    BY <2>1, <1>6, <1>7, <1>3, <1>10
  <2>3. \E b \in R : b # a
    <3>1. PICK c \in L : c[2] < p
      <4>1. First(L) \in L
        <5>1. PICK f \in R : \A b \in R : f[1] <= b[1]
          BY <2>1, <1>2, FirstIsLeast
        <5>2. PICK c \in L : c = <<f[1] - t.offset, f[2] - t.offset>>
          BY <1>3
        <5>3. \A d \in L : c[1] <= d[1]
          BY <5>1, <5>2, <1>2, <1>4
        <5> QED BY <5>2, <5>3 DEF First
      <4> QED BY <4>1, <2>2
    <3>2. PICK b \in R : c[2] = b[2] - t.offset
      BY <1>4
    <3>3. b[2] < q
      BY <3>1, <3>2, <1>1, <1>2
    <3> QED BY <3>3, <2>1, <1>2
  <2>4. ASSUME ~TrackPanics(R, q, q) PROVE Track(t, p, p) = t
    <3>1. MergeLeft(R, q) = {} /\ MergeRight(R, q) = {}
      <4>1. ASSUME NEW b \in R, b[2] = q - 1 \/ b[1] = q + 1 PROVE FALSE
        <5>1. b # a
          BY <4>1, <2>1, <1>2
        <5>2. b[2] + 1 < a[1] \/ a[2] + 1 < b[1]
          BY <5>1, <1>2 DEF Separated
        <5> QED BY <4>1, <5>2, <2>1, <1>2
      <4> QED BY <4>1 DEF MergeLeft, MergeRight
    <3>2. Merged(R, q, q) = <<q, q>>
      BY <3>1 DEF Merged
    <3>3. Overlaps(a, <<q, q>>)
      BY <2>1, <1>2 DEF Overlaps
    <3>4. a = <<q, q>>
      BY <2>4, <3>1, <3>2, <3>3 DEF TrackPanics
    <3>5. Insert(R, q, q) = R
      BY <3>1, <3>2, <3>4 DEF Insert
    <3>6. Track(t, p, p) = [t EXCEPT !.ranges = R]
      BY <3>5, <1>1 DEF Track
    <3> QED BY <3>6 DEF TrackerOK
  <2> QED BY <2>1, <2>3, <2>4, <1>1, <1>10
<1> QED BY <1>1, <1>9, <1>10
=============================================================================
