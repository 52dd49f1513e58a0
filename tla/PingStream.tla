----------------------------- MODULE PingStream -----------------------------
(***************************************************************************)
(* A ping6-datasend and a ping6-datarecv in stream mode with the network   *)
(* between them: one connection that carries the sender's standard input   *)
(* to the receiver's standard output.                                      *)
(***************************************************************************)
EXTENDS StreamSender, StreamReceiver

vars == <<sVars, rVars, netVars>>

Init == SenderInit /\ ReceiverInit /\ NetInit

SenderEnded   == sState \in {"DataSent", "TimedOut", "Panicked"}
ReceiverEnded == rState \in {"DataReceived", "TimedOut", "Panicked", "RecvBufferOverrunOnStart"}

Ended == SenderEnded /\ ReceiverEnded /\ acker.ranges = {} /\ UNCHANGED vars

Next ==
  \/ SenderNext /\ UNCHANGED rVars
  \/ ReceiverNext /\ UNCHANGED sVars
  \/ Ended

Spec == Init /\ [][Next]_vars

-----------------------------------------------------------------------------
(* The input cells by where they are.                                      *)

CellsOf(payload) == {payload[i] : i \in DOMAIN payload}

Waiting ==
  UNION ({CellsOf(snd.wait[i].payload) : i \in Unacked(snd.wait)}
           \cup {CellsOf(d.payload) : d \in {x \in snd.nextData : x.kind = "Input"}})

(* The cells the sender will never send again: taken from its input, and   *)
(* acknowledged as far as it can tell.                                     *)
Acknowledged == (1..snd.taken) \ Waiting

Received ==
  CellsOf(rcv.handed) \cup UNION {CellsOf(p.payload) : p \in BagToSet(rcv.order)}

(* The receiver writes the sender's input: in order, nothing twice,        *)
(* nothing left out, whatever the network does.                            *)
DeliveredInOrder == \A i \in DOMAIN rcv.handed : rcv.handed[i] = i

(* The sequence numbers have gone round.                                   *)
Wrapped == \E p \in c2s : p.seqno > snd.next

(* What the sender stops retransmitting has arrived, until the sequence    *)
(* numbers go round: AckWaitlist's raw comparison then flags others too.   *)
AckedWasReceived == ~Wrapped => Acknowledged \subseteq Received

(* Neither end closes the connection before all the sender took from its   *)
(* read buffer has arrived (sender) or was taken for writing (receiver),   *)
(* with the same restriction.                                              *)
ClosedMeansDelivered ==
  ~Wrapped =>
  /\ sState \in {"SendFin", "WaitForFinAck"} => 1..snd.taken \subseteq Received
  /\ \/ sState \in {"SendLastAck", "DataSent"}
     \/ rState \in {"SendFinAck", "WaitForLastAck", "DataReceived"}
     => 1..snd.taken = CellsOf(rcv.handed)

(* "data sent successfully": all of the standard input was delivered.      *)
DataSentMeansAllDelivered == sState = "DataSent" => CellsOf(rcv.handed) = 1..InputLen

(* A data packet whose cells have not arrived lies in the receiver's       *)
(* window: the filter on the receive window never drops new data.  Again   *)
(* until the numbers go round: then the raw comparison may move the        *)
(* sender's window past a packet that did not arrive.                      *)
NewDataIsInWindow ==
  ~Wrapped /\ rState = "ReceivePackets" =>
    \A p \in c2s : p.payload # <<>> /\ ~(CellsOf(p.payload) \subseteq Received) =>
                     PosOf(rcv.seqnos, p.seqno) < ReceiverWindow

(* assert!(capacity - len > 0) in AckWaitlist::add never fails.            *)
WaitlistHasRoom == sState # "Panicked"
=============================================================================
