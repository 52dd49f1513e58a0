---------------------------- MODULE StreamTimers ----------------------------
(***************************************************************************)
(* The timers of the stream mode: TimeoutResultStream (ping6_datacommon,   *)
(* src/timeout.rs), and the delays and the interval of both state machines *)
(* (src/stream/stm.rs, src/stream/buffers.rs).  PingStream lets a timer    *)
(* expire at any time; here time passes.  It passes only when neither end  *)
(* has anything to do, and a tick is an ACK_SEND_PERIOD; a packet arrives  *)
(* before the next tick, in order, or is lost.                             *)
(*                                                                         *)
(* A packet's number n is counted from that of the first ACK: the SYN is   *)
(* -1, data packets are 1, 2, ..., and the FIN follows them.               *)
(***************************************************************************)
EXTENDS Integers, Sequences, FiniteSetsExt, SequencesExt

CONSTANTS
  PacketLoss,   \* PACKET_LOSS_TIMEOUT, in ticks
  ConnLoss,     \* CONNECTION_LOSS_TIMEOUT, in ticks
  Tries,        \* RETRANSMISSIONS_NUMBER
  Splits,       \* how many mtus the capacity of recv_buf holds
  MaxPackets,   \* bound: data packets of a connection
  MaxFaults,    \* bound: lost packets and times the sender's socket jams
  MaxRuns,      \* bound: times ping6-datasend is started
  Patience      \* bound: ticks without input that are told apart

ASSUME TimersAssumption ==
  /\ {PacketLoss, ConnLoss, Tries, Splits} \subseteq Nat \ {0}
  /\ {MaxPackets, MaxFaults, MaxRuns, Patience} \subseteq Nat
  /\ ConnLoss > Tries * PacketLoss

VARIABLES
  sState,    \* the sender's state
  sTimed,    \* its TimeoutResultStream
  snd,       \* its other fields
  rState,    \* the receiver's state
  rTimed,    \* its TimeoutResultStream
  rcv,       \* its other fields
  c2s, s2c,  \* the packets on their way to the receiver and to the sender
  input,     \* what the user does: data packets given, eof
  jam,       \* the sender's socket takes no packets
  runs,      \* times ping6-datasend was started
  faults,    \* losses and jams so far
  history    \* of this run: lost packets, ticks without input, whether the
             \* socket jammed

env  == <<input, jam, runs, faults, history>>
vars == <<sState, sTimed, snd, rState, rTimed, rcv, c2s, s2c, env>>

-----------------------------------------------------------------------------
(* A TimeoutResultStream cut to Tries items: the items it may still yield, *)
(* and the ticks until the deadline of its delay.  An item moves the       *)
(* deadline on from where it was.  When its user comes back to it late,    *)
(* the deadlines that passed meanwhile are due one after the other.        *)
NewTimed == [left |-> Tries, due |-> PacketLoss]

Yield_NoTake(t) == [t EXCEPT !.due = @ + PacketLoss]   \* mutant
Yield(t) == [left |-> t.left - 1, due |-> t.due + PacketLoss]

TimesOut(t) == t.left > 0 /\ t.due <= 0
IsOver(t)   == t.left = 0

(* A tick of a timer, whose ticks past floor make no difference. *)
Later(n, floor) == IF n > floor THEN n - 1 ELSE n
Aged(t) == [t EXCEPT !.due = Later(@, -Tries * PacketLoss)]

-----------------------------------------------------------------------------
(* The fields of snd:                                                      *)
(*   send      the packet of the pending send future, in a set, or none    *)
(*   read, eof data packets read from the input, and its end               *)
(*   taken     data packets taken from read_buf                            *)
(*   nextData  next_data, in a set, or none                                *)
(*   retrans   retransmit_queue                                            *)
(*   wait      the packets that wait for an ACK                            *)
(*   ack, conn ticks until ack_timer and connection_timeout                *)
(*   unread    history: ticks that input has lain unread                   *)
Packet(kind, n) == [kind |-> kind, n |-> n]

StartSender ==
  [send |-> {Packet("Syn", -1)}, read |-> 0, eof |-> FALSE, taken |-> 0,
   nextData |-> {}, retrans |-> <<>>, wait |-> {}, ack |-> PacketLoss,
   conn |-> ConnLoss, unread |-> 0]

(* The fields of rcv:                                                      *)
(*   window    the number the window starts at                             *)
(*   got       the packets in the window that were received                *)
(*   stuck     the order holds a packet that will never be next            *)
(*   fin       a FIN was received                                          *)
(*   conn      ticks until the connection timeout                          *)
(*   acks      the interval of the ACK generator is due                    *)
(*   splits    the mtus left in recv_buf                                   *)
(*   attempts  history: connection attempts abandoned                      *)
StartReceiver ==
  [window |-> 1, got |-> {}, stuck |-> FALSE, fin |-> FALSE, conn |-> ConnLoss,
   acks |-> FALSE, splits |-> Splits - 1, attempts |-> 0]

(* What is left of them when a state machine ends or a state gives way.    *)
Dropped(s)  == [StartSender EXCEPT !.send = {}, !.taken = s.taken]
DroppedR(r) == [r EXCEPT !.got = {}, !.stuck = FALSE, !.fin = FALSE, !.conn = ConnLoss,
                         !.acks = FALSE]

NoInput   == [data |-> 0, eof |-> FALSE]
NoHistory == [lost |-> {}, idle |-> 0, jammed |-> FALSE]

Init ==
  /\ sState = "SendFirstSyn" /\ sTimed = NewTimed /\ snd = StartSender
  /\ rState = "WaitForFirstSyn" /\ rTimed = NewTimed /\ rcv = StartReceiver
  /\ c2s = <<>> /\ s2c = <<>>
  /\ input = NoInput /\ jam = FALSE
  /\ runs = 1 /\ faults = 0 /\ history = NoHistory

SenderEnded   == sState \in {"DataSent", "TimedOut"}
ReceiverEnded == rState \in {"DataReceived", "TimedOut", "Panicked"}

-----------------------------------------------------------------------------
(* The sender.                                                             *)

senderEnv == <<rState, rTimed, rcv, env>>

(* A poll of SendData reads all that the input has (fill_read_buf).  The   *)
(* reader goes past its PollEvented, so input does not wake the task: it   *)
(* is read when something else does.                                       *)
Polled(s) == [s EXCEPT !.read = input.data, !.eof = input.eof, !.unread = 0]

Unread(s) == s.read # input.data \/ s.eof # input.eof

(* The pending send completes; the state that waited for it is left.       *)
AfterSend ==
  CASE sState = "SendFirstSyn" -> "WaitForSynAck"
    [] sState = "SendAck"      -> "SendData"
    [] sState = "SendData"     -> "SendData"
    [] sState = "SendFin"      -> "WaitForFinAck"
    [] sState = "SendLastAck"  -> "DataSent"

CanPollSend == ~SenderEnded /\ snd.send # {} /\ ~jam

PollSendFut ==
  /\ CanPollSend
  /\ c2s' = c2s \o SetToSeq(snd.send)
  /\ sState' = AfterSend
  /\ snd' = LET s == [snd EXCEPT !.send = {}]
            IN  CASE sState = "SendAck"  -> Polled([s EXCEPT !.ack = PacketLoss, !.conn = ConnLoss])
                  [] sState = "SendData" -> Polled(s)
                  [] OTHER               -> s
  /\ UNCHANGED <<sTimed, s2c, senderEnv>>

(* What the stream of the state lets pass. *)
Answer(p) ==
  CASE sState = "WaitForSynAck" -> p.kind = "SynAck"
    [] sState = "WaitForFinAck" -> p.kind = "FinAck"
    [] sState = "SendData"      -> p.kind \in {"DataAck", "FinAck"}
    [] OTHER                    -> FALSE

SenderPolls ==
  \/ sState \in {"WaitForSynAck", "WaitForFinAck"} /\ ~IsOver(sTimed)
  \/ sState = "SendData" \/ SenderEnded

CanFilterServer == SenderPolls /\ s2c # <<>> /\ ~Answer(Head(s2c))

FilterServerPacket ==
  /\ CanFilterServer
  /\ s2c' = Tail(s2c)
  /\ snd' = IF sState = "SendData" THEN Polled(snd) ELSE snd
  /\ UNCHANGED <<sState, sTimed, c2s, senderEnv>>

WaitsForAnswer == sState \in {"WaitForSynAck", "WaitForFinAck"}

CanTakeAnswer == WaitsForAnswer /\ ~IsOver(sTimed) /\ s2c # <<>> /\ Answer(Head(s2c))

Answered ==
  /\ CanTakeAnswer
  /\ s2c' = Tail(s2c)
  /\ IF sState = "WaitForSynAck"
     THEN sState' = "SendAck" /\ snd' = [snd EXCEPT !.send = {Packet("Ack", 0)}]
     ELSE /\ sState' = "SendLastAck"
          /\ snd' = [snd EXCEPT !.send = {Packet("Ack", snd.taken + 1)}]
  /\ sTimed' = NewTimed
  /\ UNCHANGED <<c2s, senderEnv>>

(* The stream is polled before its delay.  A FIN is not repeated: what is  *)
(* sent again in its place is a SYN with its number.                       *)
CanSenderRetry == WaitsForAnswer /\ TimesOut(sTimed) /\ s2c = <<>>

SenderRetries ==
  /\ CanSenderRetry
  /\ sState' = IF sState = "WaitForSynAck" THEN "SendFirstSyn" ELSE "SendFin"
  /\ snd' = [snd EXCEPT !.send =
               {Packet("Syn", IF sState = "WaitForSynAck" THEN -1 ELSE snd.taken + 1)}]
  /\ sTimed' = Yield(sTimed)
  /\ UNCHANGED <<c2s, s2c, senderEnv>>

CanSenderGiveUp == WaitsForAnswer /\ IsOver(sTimed)

SenderGivesUp ==
  /\ CanSenderGiveUp
  /\ sState' = "TimedOut" /\ sTimed' = NewTimed
  /\ UNCHANGED <<snd, c2s, s2c, senderEnv>>

(* fill_next_data: retransmissions go first. *)
CanFillNext ==
  /\ sState = "SendData" /\ snd.nextData = {}
  /\ snd.retrans # <<>> \/ snd.taken < snd.read

FillNextData ==
  /\ CanFillNext
  /\ IF snd.retrans # <<>>
     THEN snd' = [snd EXCEPT !.nextData = {Packet("Data", Head(snd.retrans))},
                             !.retrans = Tail(@)]
     ELSE snd' = [snd EXCEPT !.nextData = {Packet("NewData", snd.taken + 1)},
                             !.taken = @ + 1]
  /\ UNCHANGED <<sState, sTimed, c2s, s2c, senderEnv>>

CanMakeSend == sState = "SendData" /\ snd.nextData # {} /\ snd.send = {}

MakeDataSendFut ==
  /\ CanMakeSend
  /\ snd' = [snd EXCEPT !.send = {Packet("Data", p.n) : p \in snd.nextData},
                        !.nextData = {},
                        !.wait = @ \cup {p.n : p \in {q \in snd.nextData : q.kind = "NewData"}}]
  /\ UNCHANGED <<sState, sTimed, c2s, s2c, senderEnv>>

(* What an ACK names; with WS also what is before that.                    *)
AckedBy_NoWS(p) ==   \* mutant
  IF p.kind # "DataAck" THEN {} ELSE snd.wait \cap p.range

AckedBy(p) ==
  IF p.kind # "DataAck" THEN {}
  ELSE {n \in snd.wait : n \in p.range \/ (p.ws /\ n < Min(p.range))}

CanReceiveAck == sState = "SendData" /\ s2c # <<>> /\ Answer(Head(s2c))

(* poll_receive_packets: a packet that acknowledges something new resets   *)
(* both timers.                                                            *)
ReceiveAck ==
  /\ CanReceiveAck
  /\ s2c' = Tail(s2c)
  /\ snd' = IF AckedBy(Head(s2c)) = {} THEN Polled(snd)
            ELSE [Polled(snd) EXCEPT !.wait = @ \ AckedBy(Head(s2c)),
                             !.ack = PacketLoss, !.conn = ConnLoss]
  /\ UNCHANGED <<sState, sTimed, c2s, senderEnv>>

(* poll_timeout: while retransmissions are queued an expired ack_timer     *)
(* hides the connection timeout.                                           *)
CanRequeue_WhileWaiting ==   \* mutant: it runs only while something waits
  sState = "SendData" /\ snd.ack <= 0 /\ snd.retrans = <<>> /\ snd.wait # {}
CanRequeue == sState = "SendData" /\ snd.ack <= 0 /\ snd.retrans = <<>>

RetransmitAll ==
  /\ CanRequeue
  /\ snd' = [Polled(snd) EXCEPT !.retrans = SetToSortSeq(snd.wait, <), !.ack = PacketLoss]
  /\ UNCHANGED <<sState, sTimed, c2s, s2c, senderEnv>>

CanSenderTimeOut_Hidden ==   \* mutant: hidden by retransmissions alone
  /\ sState = "SendData" /\ snd.ack > 0 /\ snd.conn <= 0 /\ s2c = <<>>
  /\ snd.retrans = <<>> /\ snd.send = {}
CanSenderTimeOut ==
  sState = "SendData" /\ snd.ack > 0 /\ snd.conn <= 0 /\ s2c = <<>>

ConnectionTimeout ==
  /\ CanSenderTimeOut
  /\ sState' = "TimedOut" /\ snd' = Dropped(snd)
  /\ UNCHANGED <<sTimed, c2s, s2c, senderEnv>>

(* The end of the input, and nothing waits for an ACK.                     *)
CanStartFin ==
  /\ sState = "SendData"
  /\ snd.eof /\ snd.taken = snd.read
  /\ snd.nextData = {} /\ snd.retrans = <<>> /\ snd.wait = {}

LeaveForFin ==
  /\ sState' = "SendFin"
  /\ snd' = [Dropped(snd) EXCEPT !.send = {Packet("Fin", snd.taken + 1)}]
  /\ sTimed' = NewTimed
  /\ UNCHANGED <<c2s, s2c>>

StartFin == CanStartFin /\ LeaveForFin /\ UNCHANGED senderEnv

(* What is left of the input is not looked at: a turn of the loop that     *)
(* takes a retransmission, acknowledged meanwhile, and finds the socket    *)
(* jammed with nothing else to do is the last.                             *)
CanStartFinEarly ==
  /\ sState = "SendData" /\ snd.eof /\ snd.wait = {}
  /\ snd.send = {} /\ \A p \in snd.nextData : p.kind = "Data"
  /\ snd.nextData # {} \/ snd.retrans # <<>>
  /\ s2c = <<>>
  /\ IF snd.ack > 0 THEN snd.conn > 0
     ELSE Len(snd.retrans) + Cardinality(snd.nextData) > 1

StartFinEarly ==
  /\ CanStartFinEarly
  /\ faults < MaxFaults /\ faults' = faults + 1
  /\ jam' = TRUE
  /\ LeaveForFin
  /\ UNCHANGED <<rState, rTimed, rcv, input, runs, history>>

-----------------------------------------------------------------------------
(* The receiver.  Its socket always takes packets.  Every state that       *)
(* starts a receive stream splits an mtu off recv_buf, which panics when   *)
(* there is none left.                                                     *)

receiverEnv == <<sState, sTimed, snd, env>>

Reply(p) == s2c' = Append(s2c, p)

EnterWithStream(state, r) ==
  IF r.splits = 0
  THEN rState' = "Panicked" /\ rcv' = r
  ELSE rState' = state /\ rcv' = [r EXCEPT !.splits = @ - 1]

Arriving(kinds) == c2s # <<>> /\ Head(c2s).kind \in kinds
ReceivedFrom == c2s' = Tail(c2s)

CanReceiveSyn == rState = "WaitForFirstSyn" /\ Arriving({"Syn"})

(* The SYN+ACK is sent before the stream is made. *)
ReceiveSyn ==
  /\ CanReceiveSyn
  /\ ReceivedFrom
  /\ Reply(Packet("SynAck", Head(c2s).n))
  /\ EnterWithStream("WaitForAck",
       [DroppedR(rcv) EXCEPT !.window = Head(c2s).n + 2])
  /\ rTimed' = NewTimed
  /\ UNCHANGED receiverEnv

IsFirstAck(p) == p = Packet("Ack", rcv.window - 1)

CanTakePacket == rState = "WaitForAck" /\ ~IsOver(rTimed) /\ c2s # <<>>

ReceiveFirstAck ==
  /\ CanTakePacket /\ IsFirstAck(Head(c2s))
  /\ ReceivedFrom
  /\ EnterWithStream("ReceivePackets",
       [rcv EXCEPT !.conn = ConnLoss, !.acks = TRUE])
  /\ rTimed' = NewTimed
  /\ UNCHANGED <<s2c, receiverEnv>>

(* While the ACK is awaited every other packet goes into the order, from   *)
(* where a second copy and a second SYN are never taken.                   *)
KeepEarly ==
  /\ CanTakePacket /\ ~IsFirstAck(Head(c2s))
  /\ ReceivedFrom
  /\ LET n == Head(c2s).n
     IN  IF n < rcv.window \/ n \in rcv.got
         THEN rcv' = [rcv EXCEPT !.stuck = TRUE]
         ELSE rcv' = [rcv EXCEPT !.got = @ \cup {n}]
  /\ UNCHANGED <<rState, rTimed, s2c, receiverEnv>>

WaitsForClient == rState \in {"WaitForAck", "WaitForLastAck"}

CanReceiverRetry == WaitsForClient /\ TimesOut(rTimed) /\ c2s = <<>>

(* A retransmission goes on with the stream there is. *)
ReceiverRetries_NewStream ==   \* mutant
  /\ CanReceiverRetry
  /\ rTimed' = Yield(rTimed)
  /\ Reply(IF rState = "WaitForAck" THEN Packet("SynAck", rcv.window - 2)
           ELSE Packet("FinAck", rcv.window))
  /\ EnterWithStream(rState, rcv)
  /\ UNCHANGED <<c2s, receiverEnv>>

ReceiverRetries ==
  /\ CanReceiverRetry
  /\ rTimed' = Yield(rTimed)
  /\ Reply(IF rState = "WaitForAck" THEN Packet("SynAck", rcv.window - 2)
           ELSE Packet("FinAck", rcv.window))
  /\ UNCHANGED <<rState, rcv, c2s, receiverEnv>>

CanReceiverGiveUp == WaitsForClient /\ IsOver(rTimed)

(* "connection attempt timed out, waiting for new connection" *)
AbandonAttempt ==
  /\ CanReceiverGiveUp /\ rState = "WaitForAck"
  /\ EnterWithStream("WaitForFirstSyn", [DroppedR(rcv) EXCEPT !.attempts = @ + 1])
  /\ rTimed' = NewTimed
  /\ UNCHANGED <<c2s, s2c, receiverEnv>>

(* poll_recv_stream, with the filter of poll_wait_for_ack: only new data   *)
(* resets the timeout.                                                     *)
CanReceiveData ==
  rState = "ReceivePackets" /\ Arriving({"Data", "Fin"}) /\ Head(c2s).n >= rcv.window

ReceiveData ==
  /\ CanReceiveData
  /\ ReceivedFrom
  /\ rcv' = IF Head(c2s).kind = "Fin" THEN [rcv EXCEPT !.fin = TRUE]
            ELSE IF Head(c2s).n \in rcv.got THEN rcv
            ELSE [rcv EXCEPT !.got = @ \cup {Head(c2s).n}, !.conn = ConnLoss]
  /\ UNCHANGED <<rState, rTimed, s2c, receiverEnv>>

CanFilterClient ==
  /\ c2s # <<>>
  /\ \/ rState = "WaitForFirstSyn" /\ Head(c2s).kind # "Syn"
     \/ rState = "ReceivePackets" /\ (Head(c2s).kind \in {"Syn", "Ack"} \/ Head(c2s).n < rcv.window)
     \/ rState = "WaitForLastAck" /\ Head(c2s) # Packet("Ack", rcv.window) /\ ~IsOver(rTimed)
     \/ ReceiverEnded

FilterClientPacket ==
  /\ CanFilterClient
  /\ ReceivedFrom
  /\ UNCHANGED <<rState, rTimed, rcv, s2c, receiverEnv>>

(* The ACK task: one ACK for each range of what is in the window; the      *)
(* first range is consumed if the window starts with it.                   *)
Ranges == {r \in rcv.got \X rcv.got :
             /\ r[1]..r[2] \subseteq rcv.got
             /\ r[1] - 1 \notin rcv.got /\ r[2] + 1 \notin rcv.got}

DataAck(range) ==
  [kind |-> "DataAck", n |-> range[2], range |-> range[1]..range[2],
   ws |-> range[1] = rcv.window]

CanSendAcks == rState = "ReceivePackets" /\ rcv.acks

SendAcks ==
  /\ CanSendAcks
  /\ s2c' = s2c \o [i \in 1..Cardinality(Ranges) |->
                      DataAck(SetToSortSeq(Ranges, LAMBDA r, t : r[1] < t[1])[i])]
  /\ LET taken == UNION {r[1]..r[2] : r \in {t \in Ranges : t[1] = rcv.window}}
     IN  rcv' = [rcv EXCEPT !.acks = FALSE, !.got = @ \ taken,
                            !.window = @ + Cardinality(taken)]
  /\ UNCHANGED <<rState, rTimed, c2s, receiverEnv>>

CanReceiverTimeOut == rState = "ReceivePackets" /\ rcv.conn <= 0 /\ c2s = <<>>

ReceiverTimeout ==
  /\ CanReceiverTimeOut
  /\ rState' = "TimedOut" /\ rcv' = DroppedR(rcv)
  /\ UNCHANGED <<rTimed, c2s, s2c, receiverEnv>>

(* The FIN arrived, everything is acknowledged, and the order is empty.    *)
CanStartFinAck ==
  /\ rState = "ReceivePackets" /\ c2s = <<>> /\ rcv.conn > 0
  /\ rcv.fin /\ rcv.got = {} /\ ~rcv.stuck

StartFinAck ==
  /\ CanStartFinAck
  /\ Reply(Packet("FinAck", rcv.window))
  /\ EnterWithStream("WaitForLastAck", DroppedR(rcv))
  /\ rTimed' = NewTimed
  /\ UNCHANGED <<c2s, receiverEnv>>

CanTakeLastAck ==
  /\ rState = "WaitForLastAck" /\ ~IsOver(rTimed)
  /\ c2s # <<>> /\ Head(c2s) = Packet("Ack", rcv.window)

ReceiveLastAck ==
  /\ CanTakeLastAck
  /\ ReceivedFrom
  /\ rState' = "DataReceived" /\ rTimed' = NewTimed
  /\ UNCHANGED <<rcv, s2c, receiverEnv>>

ReceiverGivesUp ==
  /\ CanReceiverGiveUp /\ rState = "WaitForLastAck"
  /\ rState' = "TimedOut" /\ rTimed' = NewTimed
  /\ UNCHANGED <<rcv, c2s, s2c, receiverEnv>>

-----------------------------------------------------------------------------
(* Everything either end does without time passing.                        *)
Step ==
  \/ PollSendFut \/ FilterServerPacket \/ Answered \/ SenderRetries \/ SenderGivesUp
  \/ FillNextData \/ MakeDataSendFut \/ ReceiveAck \/ RetransmitAll
  \/ ConnectionTimeout \/ StartFin
  \/ ReceiveSyn \/ ReceiveFirstAck \/ KeepEarly \/ ReceiverRetries \/ AbandonAttempt
  \/ ReceiveData \/ FilterClientPacket \/ SendAcks \/ ReceiverTimeout
  \/ StartFinAck \/ ReceiveLastAck \/ ReceiverGivesUp

(* One of them can be done: each is total where its condition holds.       *)
CanStep ==
  \/ CanPollSend \/ CanFilterServer \/ CanTakeAnswer \/ CanSenderRetry \/ CanSenderGiveUp
  \/ CanFillNext \/ CanMakeSend \/ CanReceiveAck \/ CanRequeue
  \/ CanSenderTimeOut \/ CanStartFin
  \/ CanReceiveSyn \/ CanTakePacket \/ CanReceiverRetry \/ CanReceiverGiveUp
  \/ CanReceiveData \/ CanFilterClient \/ CanSendAcks \/ CanReceiverTimeOut
  \/ CanStartFinAck \/ CanTakeLastAck

ends == <<sState, sTimed, snd, rState, rTimed, rcv>>

(* A tick.  A delay runs from when it is first polled: that of a timed     *)
(* stream once the packet it waits the answer of is sent.                  *)
Tick ==
  /\ ~CanStep
  /\ ~(SenderEnded /\ (ReceiverEnded \/ rState = "WaitForFirstSyn"))
  /\ sTimed' = IF WaitsForAnswer
                    \/ (sState \in {"SendFirstSyn", "SendFin"} /\ sTimed.left < Tries)
               THEN Aged(sTimed) ELSE sTimed
  /\ snd' = IF sState = "SendData"
            THEN [snd EXCEPT !.ack = Later(@, 0), !.conn = Later(@, -2),
                    !.unread = IF Unread(snd) /\ @ <= PacketLoss THEN @ + 1 ELSE @]
            ELSE snd
  /\ rTimed' = IF WaitsForClient THEN Aged(rTimed) ELSE rTimed
  /\ rcv' = IF rState = "ReceivePackets" THEN [rcv EXCEPT !.conn = Later(@, 0), !.acks = TRUE]
            ELSE rcv
  /\ history' = [history EXCEPT
       !.idle = IF /\ sState = "SendData" /\ @ < Patience
                   /\ ~input.eof /\ snd.taken = input.data
                THEN @ + 1 ELSE @,
       !.jammed = @ \/ jam]
  /\ UNCHANGED <<sState, rState, c2s, s2c, input, jam, runs, faults>>

(* The user, the network and the kernel.  Data comes when all before it is *)
(* taken; the socket jams when it has a packet to take.                    *)
GiveInput ==
  /\ ~input.eof /\ sState = "SendData"
  /\ \/ input.data < MaxPackets /\ input.data = snd.taken /\ input' = [input EXCEPT !.data = @ + 1]
     \/ input' = [input EXCEPT !.eof = TRUE]
  /\ UNCHANGED <<ends, c2s, s2c, jam, runs, faults, history>>

Lose(p) ==
  /\ faults < MaxFaults /\ faults' = faults + 1
  /\ history' = [history EXCEPT !.lost = @ \cup {Packet(p.kind, p.n)}]
  /\ UNCHANGED <<ends, input, jam, runs>>

LoseFromClient == c2s # <<>> /\ Lose(Head(c2s)) /\ c2s' = Tail(c2s) /\ UNCHANGED s2c
LoseFromServer == s2c # <<>> /\ Lose(Head(s2c)) /\ s2c' = Tail(s2c) /\ UNCHANGED c2s

Jam ==
  /\ ~SenderEnded
  /\ \/ ~jam /\ snd.send # {} /\ faults < MaxFaults /\ jam' = TRUE /\ faults' = faults + 1
     \/ jam /\ jam' = FALSE /\ UNCHANGED faults
  /\ UNCHANGED <<ends, c2s, s2c, input, runs, history>>

(* ping6-datasend is started again. *)
Rerun ==
  /\ SenderEnded /\ rState = "WaitForFirstSyn" /\ c2s = <<>> /\ s2c = <<>>
  /\ runs < MaxRuns /\ runs' = runs + 1
  /\ sState' = "SendFirstSyn" /\ sTimed' = NewTimed /\ snd' = StartSender
  /\ input' = NoInput /\ history' = NoHistory
  /\ jam' = FALSE
  /\ UNCHANGED <<rState, rTimed, rcv, c2s, s2c, faults>>

Ended ==
  /\ SenderEnded /\ (ReceiverEnded \/ (rState = "WaitForFirstSyn" /\ runs = MaxRuns))
  /\ ~CanStep
  /\ UNCHANGED vars

Environment == GiveInput \/ LoseFromClient \/ LoseFromServer \/ Jam \/ Rerun

Next == Step \/ StartFinEarly \/ Tick \/ Environment \/ Ended

(* The runtime polls what is ready, and time passes. *)
Spec == Init /\ [][Next]_vars /\ WF_vars(Step) /\ WF_vars(Tick)

-----------------------------------------------------------------------------
(* A connection outlives the loss of SYNs, data packets, FIN+ACKs and the  *)
(* ACKs of all but the last data packet, as long as the input keeps coming *)
(* and the socket takes packets: an end times out only after a SYN+ACK,    *)
(* the first ACK, the ACK of the last data, the FIN or the last ACK is     *)
(* lost.  None of these is repaired.  It holds for MaxFaults < Tries, as   *)
(* losing one packet Tries times ends a connection as well, and for a      *)
(* Patience well below ConnLoss, which pauses in the input use up.         *)
Unrepaired ==
  {Packet("SynAck", -1), Packet("Ack", 0), Packet("DataAck", snd.taken),
   Packet("Fin", snd.taken + 1), Packet("Ack", snd.taken + 1)}

TimesOutForAReason ==
  sState = "TimedOut" \/ rState = "TimedOut" =>
    \/ history.lost \cap Unrepaired # {}
    \/ history.idle = Patience \/ history.jammed
    \/ rState = "Panicked"

(* What the user gives is read within a PACKET_LOSS_TIMEOUT, although      *)
(* nothing but the timer may be there to wake the task.                    *)
InputIsReadInTime == snd.unread <= PacketLoss \/ history.jammed

(* The sender stays in a connection past its timeout only while its socket *)
(* is jammed with retransmissions queued.                                  *)
OverdueOnlyWhileJammed ==
  [][snd'.conn < snd.conn /\ snd.conn <= 0 => jam /\ snd.retrans # <<>>]_vars

(* A connection splits recv_buf four times, an abandoned attempt before it *)
(* twice: recv_buf runs out only after (Splits - 4) / 2 of these.          *)
RecvBufLasts == rState = "Panicked" => 2 * rcv.attempts + 4 > Splits

(* Both ends stop waiting for each other, whatever is lost, unless the     *)
(* socket is jammed for good; the receiver may wait for a new connection.  *)
EndsStopWaiting ==
  []<>jam \/ <>[](SenderEnded /\ (ReceiverEnded \/ rState = "WaitForFirstSyn"))
=============================================================================
