------------------------ MODULE DataOrderer_proofs --------------------------
(***************************************************************************)
(* Proofs about DataOrderer: the bytes of packets that are not yet written *)
(* stay where they are and room is wanting only for the two reasons named; *)
(* and, on a connection too short for a sequence number to come round into *)
(* the window again, the tracker knows exactly what arrived and only       *)
(* duplicates make it panic.  At the end, about TrimmingBuffer, the buffer *)
(* under the packets.                                                      *)
(***************************************************************************)
EXTENDS DataOrderer, TrimmingBuffer, OpsLemmas

-----------------------------------------------------------------------------
(* The packets and the buffer.  A live slice belongs to one entry; entries *)
(* are told apart by the number of their first byte.                       *)
Slices == UNION {e.slice : e \in Entries}

EntriesOK ==
  /\ order \cap writing = {}
  /\ \A e, f \in writing : e = f
  /\ \A e \in Entries : \A s \in e.slice : e.slice = {s} /\ s.from = e.from
  /\ \A e \in Entries : e.from \in Nat /\ e.from < buffer.del.offset + buffer.len
  /\ \A e, f \in Entries : e.from = f.from => e = f

BytesInv ==
  /\ BufferOK(buffer) /\ SlicesOK(buffer, Slices)
  /\ buffer.first = buffer.len
  /\ EntriesOK

(* clean_and_get_space keeps the slices and the end of the buffer.         *)
LEMMA CleanFacts ==
  ASSUME BytesInv
  PROVE  LET b == CleanAndGetSpace(buffer)
         IN  /\ BufferOK(b) /\ SlicesOK(b, Slices)
             /\ b.first = b.len
             /\ b.del.offset + b.len = buffer.del.offset + buffer.len
<1>1. BufferOK(buffer) /\ SlicesOK(buffer, Slices) /\ buffer.first = buffer.len
  BY DEF BytesInv
<1>2. PICK c : c = CleanUp(buffer)
  OBVIOUS
<1>3. /\ BufferOK(c) /\ SlicesOK(c, Slices)
      /\ c.del.offset + c.len = buffer.del.offset + buffer.len
      /\ c.del.offset + c.first = buffer.del.offset + buffer.first
  BY <1>1, <1>2, CleanUpFacts
<1>4. c.first = c.len
  BY <1>1, <1>3, BufferFacts
<1> QED BY <1>1, <1>2, <1>3, <1>4 DEF CleanAndGetSpace

(* Only the entry freed loses its slice.                                   *)
LEMMA FreedFacts ==
  ASSUME BytesInv, NEW b, BufferOK(b), SlicesOK(b, Slices), b.first = b.len
  PROVE  LET f == Freed(b, writing)
         IN  /\ BufferOK(f) /\ SlicesOK(f, UNION {e.slice : e \in order})
             /\ f.first = f.len /\ f.len = b.len /\ f.del.offset = b.del.offset
<1> DEFINE T == UNION {e.slice : e \in order}
           W == UNION {e.slice : e \in writing}
<1>1. Slices = T \cup W
  BY DEF Slices, Entries
<1>2. CASE \A e \in writing : e.slice = {}
  <2>1. W = {} /\ Freed(b, writing) = b
    BY <1>2 DEF Freed
  <2>2. Slices = T
    BY <1>1, <2>1
  <2> QED BY <2>1, <2>2
<1>3. CASE ~ \A e \in writing : e.slice = {}
  <2>1. PICK e \in writing : e.slice # {}
    BY <1>3
  <2>2. PICK s : s \in e.slice
    BY <2>1
  <2>3. /\ e \in Entries /\ e.slice = {s} /\ s.from = e.from
        /\ \A f \in writing : f = e
    BY <2>2 DEF BytesInv, EntriesOK, Entries
  <2>4. W = {s} /\ s \in Slices
    BY <1>1, <2>1, <2>3
  <2>5. s \notin T
    <3> SUFFICES ASSUME NEW f \in order, s \in f.slice PROVE FALSE
      OBVIOUS
    <3>1. f \in Entries /\ f.from = s.from
      BY DEF BytesInv, EntriesOK, Entries
    <3>2. f = e
      BY <3>1, <2>3 DEF BytesInv, EntriesOK
    <3> QED BY <3>2, <2>1 DEF BytesInv, EntriesOK
  <2>6. Slices \ {s} = T
    BY <1>1, <2>4, <2>5
  <2>7. Freed(b, writing) = DropBytes(b, s)
    <3>1. (CHOOSE x \in W : TRUE) = s
      BY <2>4
    <3> QED BY <3>1, <1>3 DEF Freed
  <2>8. /\ BufferOK(DropBytes(b, s)) /\ SlicesOK(DropBytes(b, s), Slices \ {s})
        /\ DropBytes(b, s).len = b.len /\ DropBytes(b, s).first = b.first
        /\ DropBytes(b, s).del.offset = b.del.offset
    BY <2>4, DropFacts
  <2> QED BY <2>6, <2>7, <2>8
<1> QED BY <1>2, <1>3

LEMMA ReceiveBytes ==
  ASSUME BytesInv, NEW q \in 0..MaxPackets - 1, NEW n \in PacketLens, Receive(q, n)
  PROVE  BytesInv'
<1>1. PICK b, s, added : /\ b = CleanAndGetSpace(buffer)
                         /\ s = SeqnoOf(q)
                         /\ added = AddPacket(b, s, n)
  OBVIOUS
<1>2. /\ CanReceive(b) /\ writing' = writing
      /\ \/ buffer' = added.buffer /\ order' = order \cup {added.entry}
         \/ buffer' = b /\ order' = order
  BY <1>1 DEF Receive
<1>3. /\ BufferOK(b) /\ SlicesOK(b, Slices) /\ b.first = b.len
      /\ b.del.offset + b.len = buffer.del.offset + buffer.len
  BY <1>1, CleanFacts
<1>4. /\ buffer.del.offset \in Nat /\ buffer.len \in Nat
      /\ b.del.offset \in Nat /\ b.len \in Nat
  BY <1>3, BufferFacts DEF BytesInv
<1>5. n \in Nat \ {0} /\ n <= SpaceLeft(b)
  <2>1. n \in Nat \ {0} /\ n <= Mtu /\ Mtu \in Nat /\ SpaceLeft(b) \in Int
    BY <1>4, SizeFacts, DataOrdererAssumption DEF SpaceLeft
  <2> QED BY <2>1, <1>2 DEF CanReceive
<1>6. CASE buffer' = b /\ order' = order
  <2>1. Entries' = Entries /\ Slices' = Slices
    BY <1>2, <1>6 DEF Entries, Slices
  <2> QED BY <2>1, <1>2, <1>3, <1>6 DEF BytesInv, EntriesOK
<1>7. CASE buffer' = added.buffer /\ order' = order \cup {added.entry}
  <2>1. PICK c, e : c = added.buffer /\ e = added.entry
    OBVIOUS
  <2>2. /\ BufferOK(c) /\ SlicesOK(c, Slices \cup e.slice) /\ c.first = c.len
        /\ c.del.offset + c.len = b.del.offset + b.len + n
        /\ e.from = b.del.offset + b.len
        /\ \A t \in e.slice : e.slice = {t} /\ t.from = e.from
    <3>1. PICK a, r : a = AddBytes(b, n) /\ r = b.len + n - 1
      OBVIOUS
    <3>2. PICK h, m : h = HandOut(a, b.len, r) /\ m = SliceMade(a, b.len, r)
      OBVIOUS
    <3>3. c = h /\ e.slice = m /\ e.from = b.del.offset + b.len
      BY <3>1, <3>2, <2>1, <1>1 DEF AddPacket
    <3>4. /\ BufferOK(h) /\ SlicesOK(h, Slices \cup m) /\ h.first = h.len
          /\ h.del.offset + h.len = b.del.offset + b.len + n
          /\ \A t \in m : m = {t} /\ t.from = b.del.offset + b.len
      <4>1. PICK S : S = Slices
        OBVIOUS
      <4>2. /\ BufferOK(b) /\ SlicesOK(b, S) /\ b.first = b.len
            /\ n \in Nat \ {0} /\ n <= SpaceLeft(b)
        BY <4>1, <1>3, <1>5
      <4>3. LET x == AddBytes(b, n)
                y == HandOut(x, b.len, b.len + n - 1)
                z == SliceMade(x, b.len, b.len + n - 1)
            IN  /\ BufferOK(y) /\ SlicesOK(y, S \cup z)
                /\ y.first = y.len
                /\ y.del.offset + y.len = b.del.offset + b.len + n
                /\ \A t \in z : z = {t} /\ t.from = b.del.offset + b.len
        BY ONLY <4>2, AddSlicingFacts
      <4> QED BY <4>1, <4>3, <3>1, <3>2, Zenon
    <3> QED BY <3>3, <3>4
  <2>3. Entries' = Entries \cup {e} /\ Slices' = Slices \cup e.slice
    BY <1>2, <1>7, <2>1 DEF Entries, Slices
  <2>4. \A f \in Entries : f.from \in Nat /\ f.from < e.from
    BY <1>3, <2>2 DEF BytesInv, EntriesOK
  <2>5. e.from \in Nat /\ e.from < c.del.offset + c.len
        /\ \A f \in Entries : f.from < c.del.offset + c.len
    BY <1>4, <1>5, <2>2, <2>4
  <2>6. e \notin Entries
    BY <2>4, <2>5
  <2>7. \A f \in Entries : f.from # e.from
    BY <2>4, <2>5
  <2>8. EntriesOK'
    <3>1. order' \cap writing' = {} /\ \A f, g \in writing' : f = g
      BY <2>1, <2>6, <1>2, <1>7 DEF BytesInv, EntriesOK, Entries
    <3>2. \A f \in Entries' : \A t \in f.slice : f.slice = {t} /\ t.from = f.from
      BY <2>2, <2>3 DEF BytesInv, EntriesOK
    <3>3. \A f \in Entries' : f.from \in Nat /\ f.from < c.del.offset + c.len
      BY <2>3, <2>4, <2>5
    <3>4. \A f, g \in Entries' : f.from = g.from => f = g
      BY <2>3, <2>7 DEF BytesInv, EntriesOK
    <3> QED BY <3>1, <3>2, <3>3, <3>4, <2>1, <1>7 DEF EntriesOK
  <2> QED BY <2>1, <2>2, <2>3, <2>8, <1>7 DEF BytesInv
<1> QED BY <1>2, <1>6, <1>7

LEMMA FinishWriteBytes ==
  ASSUME BytesInv, FinishWrite
  PROVE  BytesInv'
<1>1. PICK b : b = CleanAndGetSpace(buffer)
  OBVIOUS
<1>2. /\ BufferOK(b) /\ SlicesOK(b, Slices) /\ b.first = b.len
      /\ b.del.offset + b.len = buffer.del.offset + buffer.len
  BY <1>1, CleanFacts
<1>3. buffer' = Freed(b, writing) /\ writing' = {} /\ order' = order
  BY <1>1 DEF FinishWrite
<1>4. /\ BufferOK(buffer') /\ SlicesOK(buffer', UNION {e.slice : e \in order})
      /\ buffer'.first = buffer'.len
      /\ buffer'.len = b.len /\ buffer'.del.offset = b.del.offset
  BY <1>2, <1>3, FreedFacts
<1>5. Slices' = UNION {e.slice : e \in order} /\ Entries' = order
  BY <1>3 DEF Slices, Entries
<1>6. EntriesOK'
  BY <1>2, <1>3, <1>4, <1>5 DEF BytesInv, EntriesOK, Entries
<1> QED BY <1>4, <1>5, <1>6 DEF BytesInv

LEMMA StartWriteBytes ==
  ASSUME BytesInv, StartWrite
  PROVE  BytesInv'
<1>1. PICK b : b = CleanAndGetSpace(buffer)
  OBVIOUS
<1>2. /\ BufferOK(b) /\ SlicesOK(b, Slices) /\ b.first = b.len
      /\ b.del.offset + b.len = buffer.del.offset + buffer.len
  BY <1>1, CleanFacts
<1>3. PICK e \in NextEntry(order) : order' = order \ {e} /\ writing' = {e}
  BY DEF StartWrite
<1>4. e \in order /\ buffer' = b /\ writing = {}
  BY <1>1, <1>3 DEF StartWrite, NextEntry, Top
<1>5. Entries' = Entries
  BY <1>3, <1>4 DEF Entries
<1>6. Slices' = Slices
  BY <1>5 DEF Slices
<1>7. EntriesOK'
  BY <1>2, <1>3, <1>4, <1>5 DEF BytesInv, EntriesOK
<1> QED BY <1>2, <1>4, <1>6, <1>7 DEF BytesInv

LEMMA BytesInvHolds == Spec => []BytesInv
<1>1. Init => BytesInv
  <2> SUFFICES ASSUME Init PROVE BytesInv
    OBVIOUS
  <2>1. Entries = {} /\ Slices = {} /\ buffer = NewBuffer /\ order = {} /\ writing = {}
    BY DEF Init, Entries, Slices
  <2>2. NewBuffer.first = NewBuffer.len
    BY DEF NewBuffer
  <2> QED BY <2>1, <2>2, NewBufferFacts DEF BytesInv, EntriesOK
<1>2. BytesInv /\ [Next]_vars => BytesInv'
  <2> SUFFICES ASSUME BytesInv, [Next]_vars PROVE BytesInv'
    OBVIOUS
  <2>1. ASSUME NEW q \in 0..MaxPackets - 1, NEW n \in PacketLens, Receive(q, n)
        PROVE  BytesInv'
    BY <2>1, ReceiveBytes
  <2>2. CASE FinishWrite
    BY <2>2, FinishWriteBytes
  <2>3. CASE StartWrite
    BY <2>3, StartWriteBytes
  <2>4. CASE TakeAcks \/ UNCHANGED vars
    <3>1. buffer' = buffer /\ order' = order /\ writing' = writing
      BY <2>4 DEF TakeAcks, vars
    <3> QED BY <3>1 DEF BytesInv, EntriesOK, Entries, Slices
  <2> QED BY <2>1, <2>2, <2>3, <2>4 DEF Next
<1> QED BY <1>1, <1>2, PTL DEF Spec

(* A packet in the order can be read and compared, and the one being       *)
(* written can be written: its bytes are where its slice points, whatever  *)
(* was received, written and cleaned up since.                             *)
THEOREM OrderedPacketsStayGood == Spec => []PacketsKeepTheirBytes
<1>1. BytesInv => PacketsKeepTheirBytes
  <2> SUFFICES ASSUME BytesInv, NEW e \in Borrowed, NEW s \in e.slice,
                      NEW k \in 0..s.len - 1
               PROVE  buffer.mem[s.start + k] = e.from + k
    BY DEF PacketsKeepTheirBytes
  <2>1. e \in Entries /\ s \in Slices
    BY DEF Borrowed, Slices
  <2>2. SliceOK(buffer, s) /\ s.from = e.from
    BY <2>1 DEF BytesInv, SlicesOK, EntriesOK
  <2> QED BY <2>2, SliceMemory DEF BytesInv
<1> QED BY <1>1, BytesInvHolds, PTL

(* When the receiver does not read for want of room, a packet that is not  *)
(* written holds the oldest byte, or the room left is in the gap between   *)
(* what clean_and_get_space and what poll_recv_stream ask for.             *)
THEOREM RoomReasons == Spec => []RoomIsHeldOrInTheGap
<1>1. BytesInv => RoomIsHeldOrInTheGap
  <2> SUFFICES ASSUME BytesInv PROVE RoomIsHeldOrInTheGap
    OBVIOUS
  <2>1. PICK b : b = CleanAndGetSpace(buffer)
    OBVIOUS
  <2>2. BufferOK(b) /\ SlicesOK(b, Slices) /\ b.first = b.len
    BY <2>1, CleanFacts
  <2>3. SpaceLeft(b) \in Int /\ Mtu - HeaderWithIp \in Int
    BY <2>2, BufferFacts, SizeFacts, DataOrdererAssumption DEF SpaceLeft
  <2> SUFFICES ASSUME SpaceLeft(b) < Mtu - HeaderWithIp
               PROVE  \/ CanReceive(b)
                      \/ \E e \in Borrowed : e.from = b.del.offset
    BY <2>1, <2>3 DEF RoomIsHeldOrInTheGap
  <2>4. b = CleanUp(buffer)
    BY <2>1 DEF CleanAndGetSpace
  <2>5. b.del.offset \notin Cover(b.del.ranges)
    BY <2>4, CleanUpFacts DEF BytesInv
  <2>6. CASE b.len = 0
    <3>1. SpaceLeft(b) = Capacity /\ Mtu <= Capacity
      <4>1. /\ Window \in Nat /\ Window >= 1 /\ Mtu \in Nat /\ Capacity \in Nat
            /\ Window * Mtu <= Capacity
        BY DataOrdererAssumption, SizeFacts
      <4>2. Mtu <= Window * Mtu
        BY <4>1
      <4> QED BY <4>1, <4>2, <2>6 DEF SpaceLeft
    <3> QED BY <3>1, <2>1 DEF CanReceive
  <2>7. CASE b.len # 0
    <3>1. b.del.offset \in b.del.offset..b.del.offset + b.first - 1
      BY <2>2, <2>7, BufferFacts
    <3>2. b.del.offset \in HeldBy(Slices)
      BY <3>1, <2>2, <2>5 DEF SlicesOK
    <3>3. PICK s \in Slices : b.del.offset \in BytesOf(s)
      BY <3>2 DEF HeldBy
    <3>4. SliceOK(b, s)
      BY <2>2 DEF SlicesOK
    <3>5. s.from = b.del.offset
      BY <3>3, <3>4, <2>2, SliceFacts, BufferFacts DEF BytesOf
    <3>6. PICK e \in Entries : s \in e.slice
      BY DEF Slices
    <3>7. e.from = s.from /\ e \in Borrowed
      BY <3>6 DEF BytesInv, EntriesOK, Borrowed
    <3> QED BY <3>5, <3>7, <2>1
  <2> QED BY <2>6, <2>7
<1> QED BY <1>1, BytesInvHolds, PTL

-----------------------------------------------------------------------------
(* The tracker.  Stream positions are not bounded, sequence numbers are: a *)
(* packet that is later than SeqMod - Window positions would be taken for  *)
(* a new one, which the theorems below exclude by their hypothesis.        *)
WindowOK == MaxLate + Window <= SeqMod

SeqnosInv ==
  /\ first \in Int /\ panicked \in BOOLEAN
  /\ TrackerOK(seqnos.tracker)
  /\ seqnos = [tracker |-> seqnos.tracker, start |-> SeqnoOf(seqnos.tracker.offset)]
  /\ Cover(seqnos.tracker.ranges) \subseteq
       seqnos.tracker.offset..seqnos.tracker.offset + Window - 1
  /\ received = 0..(seqnos.tracker.offset - 1) \cup Cover(seqnos.tracker.ranges)

(* A packet that passes the window's filter is at the stream position that *)
(* pos_to_sequential names.                                                *)
LEMMA PositionInWindow ==
  ASSUME WindowOK, SeqnosInv, NEW q \in Nat,
         seqnos.tracker.offset <= q + MaxLate, q < seqnos.tracker.offset + Window,
         PassesWindow(SeqnoOf(q))
  PROVE  LET p == PosOf(seqnos, SeqnoOf(q))
         IN  p \in Nat /\ p < Window /\ p + seqnos.tracker.offset = q
<1>1. PICK off, p : off = seqnos.tracker.offset /\ p = PosOf(seqnos, SeqnoOf(q))
  OBVIOUS
<1>2. /\ off \in Nat /\ first \in Int
      /\ Window \in Nat \ {0} /\ MaxLate \in Nat /\ SeqMod \in Nat
  BY <1>1, DataOrdererAssumption, SeqModAssumption DEF SeqnosInv, TrackerOK
<1>3. p = Minus(Plus(first, q), Plus(first, off)) /\ p < Window
  BY <1>1 DEF PosOf, SeqnosInv, SeqnoOf, PassesWindow
<1>4. q - off < Window /\ -(SeqMod - Window) <= q - off
  BY <1>1, <1>2 DEF WindowOK
<1>5. q - off \in 0..SeqMod - 1 => p = q - off
  BY <1>2, <1>3, SeqnoFacts
<1>6. q - off \in -SeqMod..-1 => p = q - off + SeqMod
  BY <1>2, <1>3, SeqnoFacts
<1>7. ~(q - off \in -SeqMod..-1)
  BY <1>2, <1>3, <1>4, <1>6
<1>8. q - off \in 0..SeqMod - 1
  BY <1>2, <1>4, <1>7 DEF WindowOK
<1> QED BY <1>1, <1>2, <1>3, <1>5, <1>8

(* Adding a packet: its position is covered from then on, unless it was    *)
(* before; an insertion panics only for such a duplicate, behind a gap.    *)
LEMMA ReceiveSeqnos ==
  ASSUME WindowOK, SeqnosInv,
         NEW q \in 0..MaxPackets - 1, NEW n \in PacketLens, Receive(q, n)
  PROVE  /\ SeqnosInv'
         /\ panicked' => received' = received /\ \E a, b \in seqnos.tracker.ranges : a # b
<1>1. PICK t, p, s : /\ t = seqnos.tracker /\ s = SeqnoOf(q)
                     /\ p = PosOf(seqnos, s)
  OBVIOUS
<1>2. /\ p \in Nat /\ p < Window /\ p + t.offset = q
      /\ q \in Nat /\ t.offset \in Nat /\ Window \in Nat
  <2>1. q \in Nat
    BY DataOrdererAssumption
  <2>2. /\ t.offset <= q + MaxLate /\ q < t.offset + Window
        /\ PassesWindow(SeqnoOf(q))
    BY <1>1 DEF Receive
  <2> QED BY <2>1, <2>2, <1>1, PositionInWindow, DataOrdererAssumption
        DEF SeqnosInv, TrackerOK
<1>3. PICK isNew \in BOOLEAN, panics \in BOOLEAN :
         /\ isNew <=> IsRangeTracked(t, p, p) # "yes"
         /\ panics <=> TrackPanics(t.ranges, q, q)
  <2>1. \A x \in BOOLEAN, y \in BOOLEAN :
           \E u \in BOOLEAN, v \in BOOLEAN : (u <=> x) /\ (v <=> y)
    OBVIOUS
  <2> QED BY <2>1
<1>4. /\ IsNew(seqnos, s) <=> isNew
      /\ AddPanics(seqnos, s) <=> isNew /\ panics
  BY <1>1, <1>2, <1>3 DEF IsNew, AddPanics
<1>5. /\ panicked' \in BOOLEAN /\ (panicked' <=> isNew /\ panics)
      /\ first' = first /\ received' = received \cup {q}
      /\ seqnos' = IF isNew /\ ~panics
                   THEN [seqnos EXCEPT !.tracker = Track(t, p, p)] ELSE seqnos
  BY <1>1, <1>3, <1>4 DEF Receive, AddSeqno, AddPanics
<1>6. CASE q \notin Cover(t.ranges)
  <2>1. /\ isNew /\ ~panics
        /\ TrackerOK(Track(t, p, p)) /\ Track(t, p, p).offset = t.offset
        /\ Cover(Track(t, p, p).ranges) = Cover(t.ranges) \cup {q}
    <3>1. TrackerOK(t) /\ p \in Nat /\ p + t.offset \notin Cover(t.ranges)
      BY <1>1, <1>2, <1>6 DEF SeqnosInv
    <3>2. /\ IsRangeTracked(t, p, p) # "yes"
          /\ ~TrackPanics(t.ranges, p + t.offset, p + t.offset)
          /\ TrackerOK(Track(t, p, p)) /\ Track(t, p, p).offset = t.offset
          /\ Cover(Track(t, p, p).ranges) = Cover(t.ranges) \cup {p + t.offset}
      BY ONLY <3>1, TrackOneFacts
    <3> QED BY <3>2, <1>2, <1>3
  <2>2. PICK u : u = Track(t, p, p)
    OBVIOUS
  <2>3. seqnos' = [tracker |-> u, start |-> SeqnoOf(t.offset)]
    BY <1>1, <1>5, <2>1, <2>2 DEF SeqnosInv
  <2>4. q \in t.offset..t.offset + Window - 1
    BY <1>2
  <2>5. SeqnosInv'
    BY <1>1, <1>5, <2>1, <2>2, <2>3, <2>4 DEF SeqnosInv, SeqnoOf
  <2> QED BY <1>5, <2>1, <2>5
<1>7. CASE q \in Cover(t.ranges)
  <2>1. isNew => /\ \E a, b \in t.ranges : a # b
                 /\ ~panics => Track(t, p, p) = t
    BY <1>1, <1>2, <1>3, <1>7, TrackOneFacts DEF SeqnosInv
  <2>2. received' = received
    BY <1>1, <1>5, <1>7 DEF SeqnosInv
  <2>3. seqnos' = seqnos
    BY <1>1, <1>5, <2>1 DEF SeqnosInv
  <2>4. SeqnosInv'
    BY <1>5, <2>2, <2>3 DEF SeqnosInv, SeqnoOf
  <2> QED BY <1>1, <1>5, <2>1, <2>2, <2>4
<1> QED BY <1>6, <1>7

(* take(): the window starts after the last position of the first range.   *)
LEMMA TakeSeqnosFacts ==
  ASSUME WindowOK, SeqnosInv, TakeAcks
  PROVE  SeqnosInv'
<1>1. PICK t, last : t = seqnos.tracker /\ last = First(t.ranges)[2]
  OBVIOUS
<1>2. CanTake(t) /\ TrackerOK(t) /\ t.offset \in Nat /\ first \in Int
  BY <1>1 DEF TakeAcks, SeqnosInv, TrackerOK
<1>3. PICK u : u = Take(t)
  OBVIOUS
<1>4. /\ TrackerOK(u) /\ u.offset = last + 1 /\ t.offset <= last
      /\ last \in Cover(t.ranges) /\ t.offset..last \subseteq Cover(t.ranges)
      /\ Cover(u.ranges) = Cover(t.ranges) \ (t.offset..last)
  BY <1>1, <1>2, <1>3, TakeFacts
<1>5. last \in Nat /\ Window \in Nat \ {0} /\ Cover(t.ranges) \subseteq Int
  BY <1>1, <1>2, <1>4, DataOrdererAssumption DEF SeqnosInv
<1>6. seqnos' = [tracker |-> u, start |-> SeqnoOf(u.offset)]
  <2>1. seqnos' = [tracker |-> u,
                   start   |-> Plus(Plus(SeqnoOf(t.offset), last - t.offset), 1)]
    BY <1>1, <1>2, <1>3 DEF TakeAcks, TakeSeqnos, SeqnosInv, SeqnoAt, TakenLast
  <2>2. Plus(Plus(first, t.offset), last - t.offset) = Plus(first, last)
    <3>1. PICK o, d : o = t.offset /\ d = last - o
      OBVIOUS
    <3>2. first \in Int /\ o \in Int /\ d \in Int /\ o + d = last
      BY <3>1, <1>2, <1>5
    <3>3. Plus(Plus(first, o), d) = Plus(first, o + d)
      BY ONLY <3>2, SeqnoFacts
    <3> QED BY <3>1, <3>2, <3>3
  <2>3. Plus(Plus(first, last), 1) = Plus(first, last + 1)
    BY <1>2, <1>5, SeqnoFacts
  <2> QED BY <2>1, <2>2, <2>3, <1>4 DEF SeqnoOf
<1>7. Cover(u.ranges) \subseteq u.offset..u.offset + Window - 1
  <2> SUFFICES ASSUME NEW x \in Cover(u.ranges)
               PROVE  x \in u.offset..u.offset + Window - 1
    OBVIOUS
  <2>1. x \in t.offset..t.offset + Window - 1 /\ x \notin t.offset..last
    BY <1>1, <1>4 DEF SeqnosInv
  <2> QED BY <2>1, <1>2, <1>4, <1>5
<1>8. received = 0..(u.offset - 1) \cup Cover(u.ranges)
  <2>1. 0..u.offset - 1 = 0..t.offset - 1 \cup t.offset..last
    BY <1>2, <1>4, <1>5
  <2> QED BY <2>1, <1>1, <1>4 DEF SeqnosInv
<1> QED BY <1>1, <1>4, <1>6, <1>7, <1>8 DEF SeqnosInv, TakeAcks, SeqnoOf

LEMMA SeqnosInvHolds == ASSUME WindowOK PROVE Spec => []SeqnosInv
<1>1. Init => SeqnosInv
  <2> SUFFICES ASSUME Init PROVE SeqnosInv
    OBVIOUS
  <2>1. /\ seqnos = [tracker |-> EmptyTracker, start |-> first]
        /\ first \in Seqno /\ panicked = FALSE /\ received = {}
    BY DataOrdererAssumption DEF Init, NewSeqnoTracker
  <2>2. first \in Int /\ Plus(first, 0) = first
    <3>1. first \in 0..SeqMod - 1 /\ first + 0 = first /\ SeqMod \in Nat \ {0}
      BY <2>1, SeqModAssumption DEF Seqno
    <3> QED BY <3>1, ModSmall DEF Plus
  <2>3. PICK t : t = EmptyTracker
    OBVIOUS
  <2>4. TrackerOK(t) /\ Cover(t.ranges) = {} /\ t.offset = 0
    BY <2>3 DEF TrackerOK, EmptyTracker, Separated, Cover
  <2>5. 0..t.offset - 1 = {}
    BY <2>4
  <2> QED BY <2>1, <2>2, <2>3, <2>4, <2>5 DEF SeqnosInv, SeqnoOf
<1>2. SeqnosInv /\ [Next]_vars => SeqnosInv'
  <2> SUFFICES ASSUME SeqnosInv, [Next]_vars PROVE SeqnosInv'
    OBVIOUS
  <2>1. ASSUME NEW q \in 0..MaxPackets - 1, NEW n \in PacketLens, Receive(q, n)
        PROVE  SeqnosInv'
    BY <2>1, ReceiveSeqnos
  <2>2. CASE TakeAcks
    BY <2>2, TakeSeqnosFacts
  <2>3. CASE FinishWrite \/ StartWrite \/ UNCHANGED vars
    <3>1. seqnos' = seqnos /\ received' = received /\ first' = first /\ panicked' = panicked
      BY <2>3 DEF FinishWrite, StartWrite, vars
    <3> QED BY <3>1 DEF SeqnosInv, SeqnoOf
  <2> QED BY <2>1, <2>2, <2>3 DEF Next
<1> QED BY <1>1, <1>2, PTL DEF Spec

(* The tracker covers exactly the positions that arrived and are not taken *)
(* yet, its window starts at the first position that did not arrive when   *)
(* ranges were last taken, and what it reports for acknowledgement         *)
(* arrived: on a connection of any length, numbers going round, as long as *)
(* no packet is so late that its number is in the window again.            *)
THEOREM TrackerIsExact ==
  ASSUME WindowOK PROVE Spec => []TracksExactlyReceived
<1>1. SeqnosInv => TracksExactlyReceived
  <2> SUFFICES ASSUME SeqnosInv PROVE TracksExactlyReceived
    OBVIOUS
  <2>1. PICK t : t = seqnos.tracker
    OBVIOUS
  <2>2. /\ t.offset \in Nat /\ t.ranges \subseteq DTRange /\ first \in Int
        /\ seqnos.start = Plus(first, t.offset)
        /\ Window \in Nat /\ SeqMod \in Nat /\ Window <= SeqMod
    BY <2>1, DataOrdererAssumption, SeqModAssumption
       DEF SeqnosInv, TrackerOK, WindowOK, SeqnoOf
  <2>3. ASSUME NEW a \in t.ranges
        PROVE  Circular(SeqnoAt(seqnos, a[1] - t.offset), SeqnoAt(seqnos, a[2] - t.offset))
                 \subseteq {SeqnoOf(q) : q \in received}
    <3>1. a[1] \in Nat /\ a[2] \in Nat /\ a[1] <= a[2] /\ a[1]..a[2] \subseteq Cover(t.ranges)
      BY <2>2 DEF DTRange, Cover
    <3>2. a[1] \in Cover(t.ranges) /\ a[2] \in Cover(t.ranges)
      BY <3>1
    <3>3. a[2] - a[1] \in 0..SeqMod - 1
      BY <2>1, <2>2, <3>1, <3>2 DEF SeqnosInv
    <3>4. ASSUME NEW x \in Nat PROVE SeqnoAt(seqnos, x - t.offset) = Plus(first, x)
      <4>1. x - t.offset \in Int /\ t.offset + (x - t.offset) = x
        BY <2>2
      <4> QED BY <4>1, <2>2, SeqnoFacts DEF SeqnoAt
    <3>5. Circular(Plus(first, a[1]), Plus(first, a[2])) = {Plus(first, q) : q \in a[1]..a[2]}
      BY <2>2, <3>1, <3>3, CircularFacts, SMTT(60)
    <3>6. a[1]..a[2] \subseteq received
      BY <2>1, <3>1 DEF SeqnosInv
    <3> QED BY <3>1, <3>4, <3>5, <3>6 DEF SeqnoOf
  <2>4. Reported \subseteq {SeqnoOf(q) : q \in received}
    <3> SUFFICES ASSUME NEW x \in Reported PROVE x \in {SeqnoOf(q) : q \in received}
      OBVIOUS
    <3>1. PICK c \in ReportedRanges(seqnos) :
            x \in Circular(SeqnoAt(seqnos, c[1]), SeqnoAt(seqnos, c[2]))
      BY DEF Reported
    <3>2. PICK a \in t.ranges : c[1] = a[1] - t.offset /\ c[2] = a[2] - t.offset
      BY <2>1 DEF ReportedRanges, Relative
    <3> QED BY <3>1, <3>2, <2>3
  <2> QED BY <2>1, <2>4 DEF SeqnosInv, TracksExactlyReceived
<1> QED BY <1>1, SeqnosInvHolds, PTL

(* The insertion into the tracker panics only on a packet whose position   *)
(* is tracked, when the tracker holds two ranges at least.                 *)
THEOREM NewPacketsDoNotPanic ==
  ASSUME WindowOK PROVE Spec => OnlyDuplicatesPanic
<1>1. SeqnosInv /\ [Next]_vars =>
        [panicked' # panicked =>
           received' = received /\ \E a, b \in seqnos.tracker.ranges : a # b]_vars
  <2> SUFFICES ASSUME SeqnosInv, Next, panicked' # panicked
               PROVE  received' = received /\ \E a, b \in seqnos.tracker.ranges : a # b
    BY DEF vars
  <2>1. PICK q \in 0..MaxPackets - 1, n \in PacketLens : Receive(q, n)
    BY DEF Next, FinishWrite, StartWrite, TakeAcks
  <2>2. panicked'
    BY <2>1, ReceiveSeqnos DEF SeqnosInv, Receive
  <2> QED BY <2>1, <2>2, ReceiveSeqnos
<1> QED BY <1>1, SeqnosInvHolds, PTL DEF Spec, OnlyDuplicatesPanic

-----------------------------------------------------------------------------
(* The TrimmingBuffer alone, for a ring of any size and for either user.   *)
(* What an operation does to the buffer is in OpsLemmas.                   *)

(* The inductive invariant.  That slices keep their bytes and that these   *)
(* are accounted for needs to know where every byte of the ring is, not    *)
(* only those under a slice, and that a slice is in one piece.             *)
RingInv == BufferOK(ring) /\ SlicesOK(ring, slices)

LEMMA InitRingInv == BufferInit => RingInv
BY NewBufferFacts DEF BufferInit, RingInv

LEMMA AddStep ==
  ASSUME RingInv, NEW n \in 1..Capacity, Add(n)
  PROVE  RingInv'
<1>1. n \in Nat /\ n <= SpaceLeft(ring)
  BY SizeFacts DEF Add, Fits
<1>2. ring' = AddBytes(ring, n) /\ slices' = slices
  BY DEF Add
<1>3. BufferOK(AddBytes(ring, n)) /\ SlicesOK(AddBytes(ring, n), slices)
  BY <1>1, AddFacts DEF RingInv
<1> QED BY <1>2, <1>3 DEF RingInv

LEMMA TakeSliceStep ==
  ASSUME RingInv, NEW size \in 1..Capacity, TakeSlice(size)
  PROVE  RingInv'
<1>1. PICK n : n = IF Available(ring) < size THEN Available(ring) ELSE size
  OBVIOUS
<1>2. PICK r : r = ring.first + n - 1
  OBVIOUS
<1>3. /\ n > 0
      /\ slices' = slices \cup SliceMade(ring, ring.first, r)
      /\ ring' = HandOut(ring, ring.first, r)
  BY <1>1, <1>2 DEF TakeSlice
<1>4. ring.first \in Nat /\ ring.len \in Nat /\ ring.first <= ring.len
  BY BufferFacts DEF RingInv
<1>5. n \in Nat /\ ring.first + n <= ring.len
  BY <1>1, <1>3, <1>4, SizeFacts DEF Available
<1>6. r \in Nat /\ ring.first <= r /\ r < ring.len
  BY <1>2, <1>3, <1>4, <1>5
<1>7. /\ BufferOK(HandOut(ring, ring.first, r))
      /\ SlicesOK(HandOut(ring, ring.first, r),
                  slices \cup SliceMade(ring, ring.first, r))
  BY <1>6, HandOutFacts DEF RingInv
<1> QED BY <1>3, <1>7 DEF RingInv

(* add_slicing hands out what it added: that it is all that is available   *)
(* is one more fact about the order buffer.                                *)
AllHandedOut == user = "orderer" => ring.first = ring.len

LEMMA AddSlicingStep ==
  ASSUME RingInv, AllHandedOut, NEW n \in 1..Capacity, AddSlicing(n)
  PROVE  RingInv' /\ AllHandedOut'
<1>1. PICK a, r : a = AddBytes(ring, n) /\ r = ring.len + n - 1
  OBVIOUS
<1>2. PICK h, m : h = HandOut(a, ring.len, r) /\ m = SliceMade(a, ring.len, r)
  OBVIOUS
<1>3. n \in Nat \ {0} /\ n <= SpaceLeft(ring) /\ ring.first = ring.len
  BY SizeFacts DEF AddSlicing, Fits, AllHandedOut
<1>4. BufferOK(h) /\ SlicesOK(h, slices \cup m) /\ h.first = h.len
  BY <1>1, <1>2, <1>3, AddSlicingFacts DEF RingInv
<1>5. a.len - 1 = r
  <2>1. a.len = ring.len + n /\ ring.len \in Nat
    BY <1>1, <1>3, AddFacts, BufferFacts DEF RingInv
  <2> QED BY <2>1, <1>1, <1>3
<1>6. slices' = slices \cup m /\ ring' = h
  BY <1>1, <1>2, <1>5 DEF AddSlicing
<1> QED BY <1>4, <1>6 DEF RingInv, AllHandedOut

LEMMA DropSliceStep ==
  ASSUME RingInv, NEW s \in slices, DropSlice(s)
  PROVE  RingInv' /\ ring'.len = ring.len /\ ring'.first = ring.first
BY DropFacts DEF RingInv, DropSlice

LEMMA CleanupStep ==
  ASSUME RingInv, AllHandedOut, Cleanup
  PROVE  RingInv' /\ AllHandedOut'
<1>1. PICK c : c = CleanUp(ring)
  OBVIOUS
<1>2. /\ BufferOK(c) /\ SlicesOK(c, slices)
      /\ c.del.offset + c.len = ring.del.offset + ring.len
      /\ c.del.offset + c.first = ring.del.offset + ring.first
  BY <1>1, CleanUpFacts DEF RingInv
<1>3. ring.first = ring.len => c.first = c.len
  BY <1>2, BufferFacts DEF RingInv
<1> QED BY <1>1, <1>2, <1>3 DEF RingInv, AllHandedOut, Cleanup

LEMMA NextRingInv == RingInv /\ AllHandedOut /\ [BufferNext]_bufferVars => RingInv' /\ AllHandedOut'
<1> SUFFICES ASSUME RingInv, AllHandedOut, [BufferNext]_bufferVars PROVE RingInv' /\ AllHandedOut'
  OBVIOUS
<1>1. ASSUME NEW n \in 1..Capacity, Add(n) PROVE RingInv' /\ AllHandedOut'
  BY <1>1, AddStep DEF AllHandedOut, Add
<1>2. ASSUME NEW n \in 1..Capacity, TakeSlice(n) PROVE RingInv' /\ AllHandedOut'
  BY <1>2, TakeSliceStep DEF AllHandedOut, TakeSlice
<1>3. ASSUME NEW n \in 1..Capacity, AddSlicing(n) PROVE RingInv' /\ AllHandedOut'
  BY <1>3, AddSlicingStep
<1>4. ASSUME NEW s \in slices, DropSlice(s) PROVE RingInv' /\ AllHandedOut'
  BY <1>4, DropSliceStep DEF AllHandedOut, DropSlice
<1>5. CASE Cleanup
  BY <1>5, CleanupStep
<1>6. CASE UNCHANGED bufferVars
  BY <1>6 DEF bufferVars, RingInv, AllHandedOut
<1> QED BY <1>1, <1>2, <1>3, <1>4, <1>5, <1>6 DEF BufferNext

LEMMA InitAllHandedOut == BufferInit => AllHandedOut
BY DEF BufferInit, AllHandedOut, NewBuffer

LEMMA RingInvHolds == BufferSpec => []RingInv
<1>1. RingInv /\ AllHandedOut /\ [BufferNext]_bufferVars => (RingInv /\ AllHandedOut)'
  BY NextRingInv
<1> QED BY <1>1, InitRingInv, InitAllHandedOut, PTL DEF BufferSpec

(* The memory under a live slice holds the bytes the slice was made from,  *)
(* whatever add wrote and cleanup drained since: the raw pointer of        *)
(* TrimmingBufferSlice stays good.                                         *)
THEOREM LiveSlicesStayGood == BufferSpec => []SlicesKeepTheirBytes
<1>1. RingInv => SlicesKeepTheirBytes
  <2> SUFFICES ASSUME RingInv, NEW s \in slices, NEW k \in 0..s.len - 1
               PROVE  ring.mem[s.start + k] = s.from + k
    BY DEF SlicesKeepTheirBytes
  <2>1. SliceOK(ring, s)
    BY DEF RingInv, SlicesOK
  <2> QED BY <2>1, SliceMemory DEF RingInv
<1> QED BY <1>1, RingInvHolds, PTL

(* Every byte handed out is under one live slice or tracked as deleted,    *)
(* and slice_to_range finds each slice where its bytes are now.            *)
THEOREM NoByteFreedTwiceOrLost == BufferSpec => []EveryByteIsAccountedFor
<1>1. RingInv => EveryByteIsAccountedFor
  <2> SUFFICES ASSUME RingInv PROVE EveryByteIsAccountedFor
    OBVIOUS
  <2>1. \A s : Bytes(s) = BytesOf(s)
    BY DEF Bytes, BytesOf
  <2>2. UNION {Bytes(s) : s \in slices} = HeldBy(slices)
    BY <2>1 DEF HeldBy
  <2>3. \A s \in slices :
          /\ InBeginning(ring, s) \/ InEnding(ring, s)
          /\ PositionOf(ring, s) = s.from - ring.del.offset
    BY PositionFacts DEF RingInv, SlicesOK
  <2> QED BY <2>1, <2>2, <2>3 DEF RingInv, SlicesOK, EveryByteIsAccountedFor
<1> QED BY <1>1, RingInvHolds, PTL
=============================================================================
