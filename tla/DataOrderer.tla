----------------------------- MODULE DataOrderer ----------------------------
(***************************************************************************)
(* What ping6-datarecv does with the data packets of a connection: the     *)
(* SeqnoTracker, which the ACK sending task shares and moves on, and the   *)
(* DataOrderer (src/stream/buffers.rs), the packets not yet written,       *)
(* ordered by a heap, over the bytes of a TrimmingBuffer; driven by the    *)
(* turns of poll_receive_packets' loop (src/stream/stm.rs).  In            *)
(* StreamReceiver are the packets only; here are the bytes that they and   *)
(* their dead neighbours occupy.                                           *)
(*                                                                         *)
(* A stream position q (0 is the first data packet) travels as the         *)
(* sequence number first + q.                                              *)
(***************************************************************************)
EXTENDS TrimOps, SeqnoOps, FiniteSetsExt

CONSTANTS
  Window,         \* window_size
  Mtu,            \* mtu, in bytes of the model
  HeaderWithIp,   \* STREAM_CLIENT_HEADER_SIZE_WITH_IP
  PacketLens,     \* lengths of received packets, headers but IPv6's included
  FirstSeqnos,    \* the numbers the first data packet may have
  MaxPackets,     \* bound: data packets the peer sends
  MaxLate         \* bound: how far behind the window's start a packet arrives

ASSUME DataOrdererAssumption ==
  /\ Window \in Nat \ {0} /\ Mtu \in Nat /\ Window * Mtu <= Capacity
  /\ HeaderWithIp \in 0..Mtu
  /\ PacketLens \subseteq 1..Mtu
  /\ FirstSeqnos \subseteq Seqno /\ MaxPackets \in Nat /\ MaxLate \in Nat

VARIABLES
  buffer,    \* order.buffer
  order,     \* order.order: entries [seqno, len, slice, from]
  writing,   \* the entry of write_future, in a set, or none
  next,      \* next_seqno
  seqnos,    \* seqno_tracker
  panicked,  \* a BTreeSet operation met two ranges it cannot order
  first,     \* history: the number of the first data packet
  received   \* history: the stream positions added so far

vars == <<buffer, order, writing, next, seqnos, panicked, first, received>>

(* The fields of an entry: its number and length, the slice that borrows   *)
(* from the buffer, in a set, or none if it was copied; from tells equal   *)
(* entries apart.                                                          *)

Init ==
  /\ first \in FirstSeqnos
  /\ buffer = NewBuffer
  /\ order = {} /\ writing = {}
  /\ next = first
  /\ seqnos = NewSeqnoTracker(first) /\ panicked = FALSE
  /\ received = {}

(* clean_and_get_space: a cleanup only when a packet would not fit; then   *)
(* poll_recv_stream wants a whole mtu.                                     *)
CleanAndGetSpace_Never(b) == b   \* mutant
CleanAndGetSpace(b) ==
  IF SpaceLeft(b) < Mtu - HeaderWithIp THEN CleanUp(b) ELSE b

CanReceive(b) == SpaceLeft(b) >= Mtu

SeqnoOf(q) == Plus(first, q)

(* The filter of recv_stream. *)
PassesWindow(s) == PosOf(seqnos, s) < Window

(* DataOrderer::add *)
AddPacket(b, s, n) ==
  [buffer |-> HandOut(AddBytes(b, n), b.len, b.len + n - 1),
   entry  |-> [seqno |-> s, len |-> n, from |-> b.del.offset + b.len,
               slice |-> SliceMade(AddBytes(b, n), b.len, b.len + n - 1)]]

(* BinaryHeap::peek, and take: the least number, some one of equals. *)
Top(entries) == {e \in entries : \A f \in entries : e.seqno <= f.seqno}
NextEntry(entries) == {e \in Top(entries) : e.seqno = next}

(* The entry's slice is dropped with the write future. *)
Freed(b, entries) ==
  IF \A e \in entries : e.slice = {} THEN b
  ELSE DropBytes(b, CHOOSE s \in UNION {e.slice : e \in entries} : TRUE)

-----------------------------------------------------------------------------
(* The parts of a turn, each of which starts with clean_and_get_space or   *)
(* follows a turn that did and changed nothing in between.                 *)

(* A packet the peer may have sent (its window never starts after ours),   *)
(* new or not.                                                             *)
Receive(q, n) ==
  LET b     == CleanAndGetSpace(buffer)
      s     == SeqnoOf(q)
      added == AddPacket(b, s, n)
  IN  /\ ~panicked
      /\ CanReceive(b)
      /\ seqnos.tracker.offset <= q + MaxLate /\ q < seqnos.tracker.offset + Window
      /\ PassesWindow(s)
      /\ panicked' = AddPanics(seqnos, s)
      /\ seqnos' = IF panicked' THEN seqnos ELSE AddSeqno(seqnos, s)
      /\ received' = received \cup {q}
      /\ IF IsNew(seqnos, s) /\ ~panicked'
         THEN buffer' = added.buffer /\ order' = order \cup {added.entry}
         ELSE buffer' = b /\ UNCHANGED order
      /\ UNCHANGED <<writing, next, first>>

(* The write future goes, and with it the entry. *)
FinishWrite ==
  /\ ~panicked /\ writing # {}
  /\ buffer' = Freed(CleanAndGetSpace(buffer), writing)
  /\ writing' = {}
  /\ UNCHANGED <<order, next, seqnos, panicked, first, received>>

StartWrite ==
  /\ ~panicked /\ writing = {}
  /\ \E e \in NextEntry(order) : order' = order \ {e} /\ writing' = {e}
  /\ buffer' = CleanAndGetSpace(buffer)
  /\ next' = Plus(next, 1)
  /\ UNCHANGED <<seqnos, panicked, first, received>>

(* What take() reports. *)
Reported == UNION {Circular(SeqnoAt(seqnos, a[1]), SeqnoAt(seqnos, a[2])) :
                     a \in ReportedRanges(seqnos)}

(* The ACK generator takes the ranges and moves the window. *)
TakeAcks ==
  /\ ~panicked /\ CanTake(seqnos.tracker)
  /\ seqnos' = TakeSeqnos(seqnos)
  /\ UNCHANGED <<buffer, order, writing, next, panicked, first, received>>

Next ==
  \/ \E q \in 0..MaxPackets - 1, n \in PacketLens : Receive(q, n)
  \/ FinishWrite \/ StartWrite \/ TakeAcks

Spec == Init /\ [][Next]_vars

-----------------------------------------------------------------------------
Entries == order \cup writing
Borrowed == {e \in Entries : e.slice # {}}

(* A packet in the order can be read and compared: its bytes are still     *)
(* where its slice points.                                                 *)
PacketsKeepTheirBytes ==
  \A e \in Borrowed : \A s \in e.slice : \A k \in 0..s.len - 1 :
     buffer.mem[s.start + k] = e.from + k

(* The receiver stops reading for want of room only because a packet that  *)
(* is not written holds the oldest bytes, or because the room left is in   *)
(* the gap where it neither cleans up nor reads.                           *)
RoomIsHeldOrInTheGap ==
  LET b == CleanAndGetSpace(buffer)
  IN  CanReceive(b)
        \/ SpaceLeft(b) >= Mtu - HeaderWithIp
        \/ \E e \in Borrowed : e.from = b.del.offset

(* The tracker knows exactly what arrived, its window starts at the first  *)
(* position that did not, and every number reported for acknowledgement    *)
(* arrived, also when the report goes round past the largest number: the   *)
(* peer drops what is acknowledged.                                        *)
TracksExactlyReceived ==
  ~panicked =>
    /\ Reported \subseteq {SeqnoOf(q) : q \in received}
    /\ received = (0..(seqnos.tracker.offset - 1)) \cup Cover(seqnos.tracker.ranges)
    /\ seqnos.start = SeqnoOf(seqnos.tracker.offset)

(* "we expect the added ranges to not overlap with ones added previously"  *)
(* (range_tracker.rs): only a duplicate, behind a gap, breaks that and     *)
(* makes the insertion panic; no order of new packets and reports does.    *)
OnlyDuplicatesPanic ==
  [][panicked' # panicked =>
        received' = received /\ \E a, b \in seqnos.tracker.ranges : a # b]_vars
=============================================================================
