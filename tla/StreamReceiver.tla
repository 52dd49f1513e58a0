--------------------------- MODULE StreamReceiver ---------------------------
(***************************************************************************)
(* The stream mode of ping6-datarecv: the state machine of src/stream/     *)
(* stm.rs, which accepts a connection, orders the packets it receives and  *)
(* writes them to the standard output, and the task of ack_sender.rs,      *)
(* which acknowledges them.  The two share the SeqnoTracker and run on one *)
(* thread, so they interleave where a poll returns.                        *)
(***************************************************************************)
EXTENDS IcmpNet, Bags, FiniteSetsExt

CONSTANTS
  ReceiverWindow,   \* window_size of the receiver's stream configuration
  RecvMtu,          \* cells in an mtu
  HeaderLen,        \* cells a packet's header takes in the order buffer
  OrderCapacity,    \* cells of the order buffer: VecDeque::capacity()
  MaxOrdered,       \* bound: packets in the order buffer when one is read
  RecvTries         \* RETRANSMISSIONS_NUMBER

ASSUME ReceiverAssumption ==
  /\ ReceiverWindow \in 1..SeqMod
  /\ {RecvMtu, HeaderLen, RecvTries, OrderCapacity, MaxOrdered} \subseteq Nat
  /\ OrderCapacity >= ReceiverWindow * RecvMtu

VARIABLES
  rState,    \* the variant of StreamMachine the receiver is in
  rTries,    \* items the current timed stream has yielded: take(RecvTries)
  rcv,       \* the fields of the current state
  acker,     \* the ACK sending task
  written    \* cells the standard output has accepted

rVars == <<rState, rTries, rcv, acker, written>>

(* The fields of rcv:                                                      *)
(*   next     next_seqno: before the ACK, the number it must carry; then   *)
(*            the number of the next packet to write                       *)
(*   send     the packet of the pending send future, in a set: or none     *)
(*   seqnos   seqno_tracker, shared with the ACK sending task              *)
(*   order    order: the packets received and not yet taken for writing    *)
(*   handed   the cells taken for writing, the last packet's included      *)
(*   writing  write_future is some                                         *)
(*   fin      fin_seqno, in a set, or none                                 *)
NotConnected ==
  [next |-> 0, send |-> {}, seqnos |-> NewSeqnoTracker(0), order |-> EmptyBag,
   handed |-> <<>>, writing |-> FALSE, fin |-> {}]

(* The fields of acker: spawned (the task has run and left its handle),    *)
(* stopped (the generator's flag), ranges still to be sent, as positions   *)
(* from base, and ws (set_ws_packet).                                      *)
NoAcker == [spawned |-> FALSE, stopped |-> FALSE, ranges |-> {}, base |-> 0, ws |-> FALSE]

ReceiverInit ==
  /\ rState = "WaitForFirstSyn"
  /\ rTries = 0
  /\ rcv = NotConnected
  /\ acker = NoAcker
  /\ written = 0

FlushR(r) == [r EXCEPT !.send = {}]

SynAckPacket(s) == ToClient({"Syn", "Ack"}, s, s)
FinAckPacket(s) == ToClient({"Fin", "Ack"}, s, s)

-----------------------------------------------------------------------------
(* DataOrderer: a heap on the raw sequence number, over a buffer.          *)

PacketLen(p) == HeaderLen + Len(p.payload)

(* Cells of the packets in the order. *)
OrderLen(order) ==
  MapThenSumSet(LAMBDA p : order[p] * PacketLen(p), BagToSet(order))

(* BinaryHeap::peek: a packet with the least number, some one of equals.   *)
Least(order) ==
  {p \in BagToSet(order) : \A q \in BagToSet(order) : p.seqno <= q.seqno}

AddToOrder(order, p) == order (+) SetToBag({p})

-----------------------------------------------------------------------------
(* Opening the connection.                                                 *)

WaitForFirstSyn ==
  /\ rState = "WaitForFirstSyn"
  /\ \E p \in c2s :
       /\ p.flags = {"Syn"}
       /\ rcv' = [NotConnected EXCEPT
                    !.next = Plus(p.seqno, 1),
                    !.send = {SynAckPacket(p.seqno)},
                    !.seqnos = NewSeqnoTracker(Plus(p.seqno, 2))]
  /\ rState' = "SendSynAck"
  /\ rTries' = 0
  /\ UNCHANGED <<acker, written, netVars>>

SendSynAck ==
  /\ rState = "SendSynAck"
  /\ s2c' = s2c \cup rcv.send
  /\ rcv' = FlushR(rcv)
  /\ rState' = "WaitForAck"
  /\ UNCHANGED <<rTries, acker, written, c2s>>

IsFirstAck(p) == p.flags = {"Ack"} /\ p.seqno = rcv.next

(* While the ACK is awaited every other packet is kept for later.  Nothing *)
(* has been cleaned up yet: the buffer holds every packet of the order.    *)
KeepEarly ==
  /\ rState = "WaitForAck"
  /\ rTries < RecvTries
  /\ \E p \in c2s :
       /\ ~IsFirstAck(p)
       /\ CASE OrderCapacity - OrderLen(rcv.order) < PacketLen(p) ->
                 rState' = "RecvBufferOverrunOnStart" /\ UNCHANGED rcv
            [] OTHER ->
                 IF AddPanics(rcv.seqnos, p.seqno)
                 THEN rState' = "Panicked" /\ UNCHANGED rcv
                 ELSE /\ rcv' = [rcv EXCEPT !.seqnos = AddSeqno(@, p.seqno),
                                            !.order = AddToOrder(@, p)]
                      /\ UNCHANGED rState
  /\ UNCHANGED <<rTries, acker, written, netVars>>

WaitForAck ==
  /\ rState = "WaitForAck"
  /\ rTries < RecvTries
  /\ \E p \in c2s : IsFirstAck(p)
  /\ rcv' = [rcv EXCEPT !.next = Plus(@, 1)]
  /\ rState' = "ReceivePackets"
  /\ rTries' = 0
  /\ UNCHANGED <<acker, written, netVars>>

SynAckTimeout ==
  /\ rState = "WaitForAck"
  /\ rTries < RecvTries
  /\ rcv' = [rcv EXCEPT !.send = {SynAckPacket(Minus(rcv.next, 1))}]
  /\ rState' = "SendSynAck"
  /\ rTries' = rTries + 1
  /\ UNCHANGED <<acker, written, netVars>>

(* "connection attempt timed out, waiting for new connection" *)
AbandonAttempt ==
  /\ rState = "WaitForAck"
  /\ rTries = RecvTries
  /\ rcv' = NotConnected
  /\ rState' = "WaitForFirstSyn"
  /\ rTries' = 0
  /\ UNCHANGED <<acker, written, netVars>>

-----------------------------------------------------------------------------
(* The steps of one turn of poll_receive_packets' loop.                    *)

(* The filter on recv_stream installed by WaitForAck. *)
PassesReceiver(p) ==
  /\ PosOf(rcv.seqnos, p.seqno) < ReceiverWindow
  /\ p.flags \cap {"Syn", "Ack"} = {}

(* A second FIN with another number is dropped and ends the turn.          *)
IsOtherFin(r, p) == "Fin" \in p.flags /\ r.fin # {} /\ r.fin # {p.seqno}

RecvActive(r, got) == \E p \in got : ~IsOtherFin(r, p)

RecvPanics(r, got) ==
  \E p \in got : "Fin" \notin p.flags /\ AddPanics(r.seqnos, p.seqno)

PollRecvStream(r, got) ==
  LET p == CHOOSE x \in got : TRUE
  IN  CASE ~RecvActive(r, got) -> r
        [] RecvActive(r, got) /\ "Fin" \in p.flags -> [r EXCEPT !.fin = {p.seqno}]
        [] OTHER ->
             [r EXCEPT !.seqnos = AddSeqno(@, p.seqno),
                       !.order = IF IsNew(r.seqnos, p.seqno) /\ p.payload # <<>>
                                 THEN AddToOrder(@, p) ELSE @]

(* write_all: the write future ends when its last cell is accepted.        *)
PollWriteDataFut(r, upTo) ==
  [r EXCEPT !.writing = @ /\ upTo < Len(r.handed)]

WriteActive(r, upTo) == r.writing /\ upTo = Len(r.handed)

(* What poll_make_write_data_fut may take: the heap's top, if it is next.  *)
NextToWrite_Unchecked(r) == {p \in Least(r.order) : ~r.writing}   \* mutant
NextToWrite(r) == {p \in Least(r.order) : ~r.writing /\ p.seqno = r.next}

MakeWriteDataFut(r, p) ==
  [r EXCEPT !.next = Plus(@, 1),
            !.order = @ (-) SetToBag({p}),
            !.handed = @ \o p.payload,
            !.writing = TRUE]

(* After the loop: everything received is acknowledged and taken for       *)
(* writing, and the peer has finished.                                     *)
Finished_OrderIgnored(r) == r.fin # {} /\ r.seqnos.tracker.ranges = {}   \* mutant
Finished(r) == r.fin # {} /\ r.seqnos.tracker.ranges = {} /\ r.order = EmptyBag

(* Nothing is read unless a whole mtu fits in the order buffer.  How many  *)
(* packets then are in it depends on the cells that written ones have not  *)
(* given back yet (see DataOrderer); here any number up to a bound may be. *)
CanReceive(r) == BagCardinality(r.order) <= MaxOrdered

(* One turn.  got: a packet received, in a set, or none; upTo: the cells   *)
(* the standard output has accepted after this turn; expired: the          *)
(* connection timeout, which is looked at only when the loop ends.         *)
ReceiveTurn(got, upTo, expired) ==
  LET r1    == PollRecvStream(rcv, got)
      r2    == PollWriteDataFut(r1, upTo)
      ended == ~RecvActive(rcv, got) /\ ~WriteActive(r1, upTo) /\ NextToWrite(r2) = {}
  IN  /\ rState = "ReceivePackets"
      /\ acker.spawned
      /\ got # {} => CanReceive(rcv)
      /\ upTo > written => rcv.writing /\ ~RecvPanics(rcv, got)
      /\ expired => ended
      /\ written' = upTo
      /\ CASE RecvPanics(rcv, got) ->
                 rState' = "Panicked" /\ UNCHANGED <<rcv, acker>>
           [] ~RecvPanics(rcv, got) /\ NextToWrite(r2) # {} ->
                 /\ \E p \in NextToWrite(r2) : rcv' = MakeWriteDataFut(r2, p)
                 /\ UNCHANGED <<rState, acker>>
           [] ~RecvPanics(rcv, got) /\ expired ->
                 /\ rState' = "TimedOut"
                 /\ acker' = [acker EXCEPT !.stopped = TRUE]
                 /\ rcv' = r2
           [] ~RecvPanics(rcv, got) /\ ended /\ ~expired /\ Finished(r2) ->
                 /\ rState' = "SendFinAck"
                 /\ acker' = [acker EXCEPT !.stopped = TRUE]
                 /\ rcv' = [r2 EXCEPT !.writing = FALSE,
                                      !.send = {FinAckPacket(s) : s \in r2.fin}]
           [] OTHER ->
                 rcv' = r2 /\ UNCHANGED <<rState, acker>>
      /\ UNCHANGED <<rTries, netVars>>

ReceivePackets ==
  \E got \in {{}} \cup {{p} : p \in {q \in c2s : PassesReceiver(q)}},
     upTo \in written..Len(rcv.handed),
     expired \in BOOLEAN :
       ReceiveTurn(got, upTo, expired)

-----------------------------------------------------------------------------
(* Closing the connection.                                                 *)

SendFinAck ==
  /\ rState = "SendFinAck"
  /\ s2c' = s2c \cup rcv.send
  /\ rcv' = FlushR(rcv)
  /\ rState' = "WaitForLastAck"
  /\ UNCHANGED <<rTries, acker, written, c2s>>

WaitForLastAck ==
  /\ rState = "WaitForLastAck"
  /\ rTries < RecvTries
  /\ \E p \in c2s : p.flags = {"Ack"} /\ {p.seqno} = rcv.fin
  /\ rState' = "DataReceived"
  /\ rTries' = rTries + 1
  /\ UNCHANGED <<rcv, acker, written, netVars>>

FinAckTimeout ==
  /\ rState = "WaitForLastAck"
  /\ rTries < RecvTries
  /\ rcv' = [rcv EXCEPT !.send = {FinAckPacket(s) : s \in rcv.fin}]
  /\ rState' = "SendFinAck"
  /\ rTries' = rTries + 1
  /\ UNCHANGED <<acker, written, netVars>>

ReceiverGivesUp ==
  /\ rState = "WaitForLastAck"
  /\ rTries = RecvTries
  /\ rState' = "TimedOut"
  /\ UNCHANGED <<rTries, rcv, acker, written, netVars>>

-----------------------------------------------------------------------------
(* The ACK sending task.                                                   *)

(* The task runs for the first time: it leaves its handle for the state    *)
(* machine, which waits for it.                                            *)
SpawnAckSender ==
  /\ rState = "ReceivePackets"
  /\ ~acker.spawned
  /\ acker' = [acker EXCEPT !.spawned = TRUE]
  /\ UNCHANGED <<rState, rTries, rcv, written, netVars>>

(* The generator yields: the ranges are taken, and the first carries WS if *)
(* it starts where the window did.                                         *)
TakeAcks_AlwaysWS ==   \* mutant: WS on the first range wherever it starts
  /\ acker.spawned /\ ~acker.stopped /\ acker.ranges = {}
  /\ rState \notin {"Panicked"}
  /\ ReportedRanges(rcv.seqnos) # {}
  /\ acker' = [acker EXCEPT !.ranges = ReportedRanges(rcv.seqnos),
                            !.base = rcv.seqnos.start,
                            !.ws = TRUE]
  /\ rcv' = [rcv EXCEPT !.seqnos = TakeSeqnos(@)]
  /\ UNCHANGED <<rState, rTries, written, netVars>>

TakeAcks ==
  /\ acker.spawned /\ ~acker.stopped /\ acker.ranges = {}
  /\ rState \notin {"Panicked"}
  /\ ReportedRanges(rcv.seqnos) # {}
  /\ acker' = [acker EXCEPT !.ranges = ReportedRanges(rcv.seqnos),
                            !.base = rcv.seqnos.start,
                            !.ws = First(ReportedRanges(rcv.seqnos))[1] = 0]
  /\ rcv' = [rcv EXCEPT !.seqnos = TakeSeqnos(@)]
  /\ UNCHANGED <<rState, rTries, written, netVars>>

SendAckRange ==
  /\ acker.ranges # {}
  /\ LET a == First(acker.ranges)
     IN  /\ s2c' = s2c \cup
              {ToClient({"Ack"} \cup (IF acker.ws THEN {"WS"} ELSE {}),
                        Plus(acker.base, a[1]), Plus(acker.base, a[2]))}
         /\ acker' = [acker EXCEPT !.ranges = @ \ {a}, !.ws = FALSE]
  /\ UNCHANGED <<rState, rTries, rcv, written, c2s>>

ReceiverNext ==
  \/ WaitForFirstSyn \/ SendSynAck \/ KeepEarly \/ WaitForAck
  \/ SynAckTimeout \/ AbandonAttempt
  \/ ReceivePackets
  \/ SendFinAck \/ WaitForLastAck \/ FinAckTimeout \/ ReceiverGivesUp
  \/ SpawnAckSender \/ TakeAcks \/ SendAckRange
=============================================================================
