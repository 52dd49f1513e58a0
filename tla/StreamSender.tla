---------------------------- MODULE StreamSender ----------------------------
(***************************************************************************)
(* The stream mode of ping6-datasend (src/stream/stm.rs): the state        *)
(* machine that opens a connection, sends its standard input in packets,   *)
(* retransmits what is not acknowledged, and closes the connection.        *)
(*                                                                         *)
(* A poll of the state machine runs until nothing is ready.  One action is *)
(* one packet or timer consumed in a waiting state, one completed send, or *)
(* one turn of poll_send_data's loop.                                      *)
(***************************************************************************)
EXTENDS IcmpNet, WaitOps

CONSTANTS
  SenderWindow,      \* window_size of the sender's stream configuration
  InitSeqnos,        \* values of the random initial next_seqno
  InputLen,          \* bound: cells on the standard input before its end
  MaxPayload,        \* cells in a full packet: mtu - header sizes
  Mtu,               \* cells in an mtu
  ReadBufSize,       \* capacity of read_buf, in cells
  AckWaitCapacity,   \* capacity of ack_wait: window_size * mtu in the code
  Tries              \* RETRANSMISSIONS_NUMBER

ASSUME SenderAssumption ==
  /\ SenderWindow \in 1..SeqMod
  /\ InitSeqnos \subseteq Seqno
  /\ {InputLen, Mtu, ReadBufSize, Tries} \subseteq Nat
  /\ MaxPayload \in Nat \ {0}
  /\ AckWaitCapacity \in Nat /\ AckWaitCapacity >= SenderWindow

VARIABLES
  sState,   \* the variant of StreamMachine the sender is in
  sTries,   \* items the current timed stream has yielded: take(Tries)
  snd       \* the fields of the current state, SendData's most of all

sVars == <<sState, sTries, snd>>

(* The fields of snd:                                                      *)
(*   next      common.next_seqno                                           *)
(*   send      the packet of the pending send future, in a set: or none    *)
(*   read      cells read from the standard input                          *)
(*   eof       reached_input_eof                                           *)
(*   trimmed   cells read_buf has given up, of those read                  *)
(*   taken     cells taken out of read_buf for sending                     *)
(*   nextData  next_data: the packet to be sent next, in a set, or none    *)
(*   retrans   retransmit_queue                                            *)
(*   wait      ack_wait: entries [seqno, payload, acked]                   *)
StartData(next) ==
  [next |-> next, send |-> {}, read |-> 0, eof |-> FALSE, trimmed |-> 0, taken |-> 0,
   nextData |-> {}, retrans |-> <<>>, wait |-> <<>>]

SynPacket(next) == ToServer({"Syn"}, next, <<>>)

SenderInit ==
  /\ sState = "SendFirstSyn"
  /\ sTries = 0
  /\ \E s \in InitSeqnos :
       snd = [StartData(s) EXCEPT !.send = {SynPacket(s)}]

Flush(s) == [s EXCEPT !.send = {}]

-----------------------------------------------------------------------------
(* Opening the connection.                                                 *)

SendFirstSyn ==
  /\ sState = "SendFirstSyn"
  /\ c2s' = c2s \cup snd.send
  /\ snd' = Flush(snd)
  /\ sState' = "WaitForSynAck"
  /\ UNCHANGED <<sTries, s2c>>

IsSynAck(p) ==
  /\ {"Syn", "Ack"} \subseteq p.flags /\ "Fin" \notin p.flags
  /\ p.lo = p.hi /\ p.lo = snd.next

WaitForSynAck ==
  /\ sState = "WaitForSynAck"
  /\ sTries < Tries
  /\ \E p \in s2c : IsSynAck(p)
  /\ LET ackno == Plus(snd.next, 1)
     IN  snd' = [snd EXCEPT !.next = Plus(ackno, 1),
                            !.send = {ToServer({"Ack"}, ackno, <<>>)}]
  /\ sState' = "SendAck"
  /\ sTries' = sTries + 1
  /\ UNCHANGED netVars

SynTimeout ==
  /\ sState = "WaitForSynAck"
  /\ sTries < Tries
  /\ snd' = [snd EXCEPT !.send = {SynPacket(snd.next)}]
  /\ sState' = "SendFirstSyn"
  /\ sTries' = sTries + 1
  /\ UNCHANGED netVars

(* The timed stream ends: Err(TimedOut). *)
SenderGivesUp ==
  /\ sState \in {"WaitForSynAck", "WaitForFinAck"}
  /\ sTries = Tries
  /\ sState' = "TimedOut"
  /\ UNCHANGED <<sTries, snd, netVars>>

SendAck ==
  /\ sState = "SendAck"
  /\ c2s' = c2s \cup snd.send
  /\ snd' = StartData(snd.next)
  /\ sState' = "SendData"
  /\ sTries' = 0
  /\ UNCHANGED s2c

-----------------------------------------------------------------------------
(* The steps of one turn of poll_send_data's loop, as functions of the     *)
(* state's fields and of what the environment has ready.                   *)

Space(s) == ReadBufSize - (s.read - s.trimmed)

(* read_buf.cleanup(): what no slice in next_data or ack_wait holds.       *)
Trim(s) ==
  LET held == {s.wait[i].payload : i \in DOMAIN s.wait}
                \cup {d.payload : d \in {x \in s.nextData : x.kind = "Input"}}
  IN  [s EXCEPT !.trimmed =
         CHOOSE c \in 0..s.taken :
           /\ \A p \in held : c < p[1]
           /\ c = s.taken \/ \E p \in held : p[1] = c + 1]

MakeRoom(s) ==
  LET trimmed == Trim(s)
  IN  IF Space(s) >= Mtu            THEN s
      ELSE IF Space(trimmed) >= Mtu THEN trimmed
      ELSE Trim([trimmed EXCEPT !.wait = Cleaned(@)])

(* What poll_read() may answer: not ready, the end (0), or n cells.        *)
NotReady == -1
StdinOutcomes ==
  {NotReady} \cup (IF snd.read < InputLen THEN 1..(InputLen - snd.read) ELSE {0})

ReadActive(s, stdin) == ~s.eof /\ Space(MakeRoom(s)) > 0 /\ stdin # NotReady

FillReadBuf(s, stdin) ==
  LET room == MakeRoom(s)
      n    == IF stdin <= Space(room) THEN stdin ELSE Space(room)
  IN  IF s.eof THEN s
      ELSE IF ~ReadActive(s, stdin) THEN room
      ELSE [room EXCEPT !.read = @ + n, !.eof = (stdin = 0)]

WindowFull_OneMore(s) ==   \* mutant: one packet too many outstanding
  /\ Unacked(s.wait) # {}
  /\ Minus(s.next, s.wait[FirstUnacked(s.wait)].seqno) = SenderWindow + 1

WindowFull(s) ==
  /\ Unacked(s.wait) # {}
  /\ Minus(s.next, s.wait[FirstUnacked(s.wait)].seqno) = SenderWindow

Chunk(s) ==
  [i \in 1..(IF s.read - s.taken < MaxPayload THEN s.read - s.taken ELSE MaxPayload) |->
     s.taken + i]

FillNextData(s) ==
  CASE s.nextData # {}   -> s
    [] s.nextData = {} /\ s.retrans # <<>> ->
         [s EXCEPT !.nextData = {Head(s.retrans)}, !.retrans = Tail(@)]
    [] s.nextData = {} /\ s.retrans = <<>> ->
         IF WindowFull(s) \/ s.read = s.taken THEN s
         ELSE [s EXCEPT !.nextData = {[kind |-> "Input", seqno |-> 0, payload |-> Chunk(s)]},
                        !.taken = @ + Len(Chunk(s))]

CanMakeSend(s) == s.nextData # {} /\ s.send = {}

(* ack_wait.add() asserts that there is room, after a cleanup if it was    *)
(* full.                                                                   *)
RoomInWait(s) == IF Len(s.wait) = AckWaitCapacity THEN Cleaned(s.wait) ELSE s.wait

AddPanicsIn(s) ==
  /\ CanMakeSend(s)
  /\ \E d \in s.nextData : d.kind = "Input"
  /\ Len(RoomInWait(s)) = AckWaitCapacity

MakeDataSendFut(s) ==
  LET d     == CHOOSE x \in s.nextData : TRUE
      seqno == IF d.kind = "Input" THEN s.next ELSE d.seqno
      t     == [s EXCEPT !.nextData = {}, !.send = {ToServer({}, seqno, d.payload)}]
  IN  IF ~CanMakeSend(s) THEN s
      ELSE IF d.kind = "Retransmission" THEN t
      ELSE [t EXCEPT !.next = Plus(@, 1),
                     !.wait = Append(RoomInWait(s),
                                [seqno |-> seqno, payload |-> d.payload, acked |-> FALSE])]

(* make_recv_ack_or_fin *)
PassesSender(p) == p.flags \cap {"Ack", "Fin"} # {} /\ "Syn" \notin p.flags

(* The WS flag acknowledges everything from the window's start, if the     *)
(* packet's first number is in the window; u32 arithmetic does not wrap.   *)
WindowSynced(w, p) ==
  LET start == w[FirstUnacked(w)].seqno
  IN  IF "WS" \in p.flags /\ p.lo \in start..(start + SenderWindow - 1)
      THEN Removed(w, start, p.lo) ELSE w

ReceiveActive(s, got) == got # {} /\ Unacked(s.wait) # {}

PollReceivePackets(s, got) ==
  IF ~ReceiveActive(s, got) THEN s
  ELSE LET p == CHOOSE x \in got : TRUE
       IN  [s EXCEPT !.wait = Removed(WindowSynced(@, p), p.lo, p.hi)]

(* The ack timer queues every waiting packet, unless some are queued.      *)
TimeoutActive(s, timer) == timer = "ack" /\ s.retrans = <<>>

PollTimeout(s, timer) ==
  LET due == UnackedEntries(s.wait)
  IN  IF ~TimeoutActive(s, timer) THEN s
      ELSE [s EXCEPT !.retrans =
              [i \in DOMAIN due |->
                 [kind |-> "Retransmission", seqno |-> due[i].seqno, payload |-> due[i].payload]]]

-----------------------------------------------------------------------------
(* One turn of the loop.  stdin: what the input has ready; writable: the   *)
(* socket takes a pending packet; got: a packet received, in a set, or     *)
(* none; timer: the timer that is found expired.  When nothing was ready   *)
(* the loop ends, and the end of the input, all of it acknowledged, closes *)
(* the connection.                                                         *)
SendData(stdin, writable, got, timer) ==
  LET s2 == FillNextData(FillReadBuf(snd, stdin))
      s3 == MakeDataSendFut(s2)
      s4 == IF writable THEN Flush(s3) ELSE s3
      s5 == PollReceivePackets(s4, got)
      s6 == PollTimeout(s5, timer)
      activity == \/ ReadActive(snd, stdin)
                  \/ writable
                  \/ ReceiveActive(s4, got)
                  \/ TimeoutActive(s5, timer)
      atEnd == ~activity /\ s6.eof /\ s6.nextData = {}
      s7 == IF atEnd THEN [s6 EXCEPT !.wait = Cleaned(@)] ELSE s6
  IN  /\ sState = "SendData"
      /\ writable => s3.send # {} /\ ~AddPanicsIn(s2)
      /\ c2s' = IF writable THEN c2s \cup s3.send ELSE c2s
      /\ CASE AddPanicsIn(s2)           -> sState' = "Panicked" /\ UNCHANGED snd
           [] ~AddPanicsIn(s2) /\ timer = "connection" ->
                sState' = "TimedOut" /\ UNCHANGED snd
           [] OTHER ->
                IF atEnd /\ s7.wait = <<>>
                THEN /\ sState' = "SendFin"
                     /\ snd' = [StartData(s7.next) EXCEPT
                                  !.send = {ToServer({"Fin"}, s7.next, <<>>)},
                                  !.read = s7.read, !.taken = s7.taken,
                                  !.trimmed = s7.trimmed, !.eof = TRUE]
                ELSE sState' = sState /\ snd' = s7
      /\ UNCHANGED <<sTries, s2c>>

SendDataStep ==
  \E stdin \in StdinOutcomes, writable \in BOOLEAN,
     got \in {{}} \cup {{p} : p \in {q \in s2c : PassesSender(q)}},
     timer \in {"none", "ack", "connection"} :
       SendData(stdin, writable, got, timer)

-----------------------------------------------------------------------------
(* Closing the connection.                                                 *)

SendFin ==
  /\ sState = "SendFin"
  /\ c2s' = c2s \cup snd.send
  /\ snd' = Flush(snd)
  /\ sState' = "WaitForFinAck"
  /\ UNCHANGED <<sTries, s2c>>

IsFinAck(p) ==
  /\ "Syn" \notin p.flags /\ {"Ack", "Fin"} \subseteq p.flags
  /\ p.lo = p.hi /\ p.lo = snd.next

WaitForFinAck ==
  /\ sState = "WaitForFinAck"
  /\ sTries < Tries
  /\ \E p \in s2c : IsFinAck(p)
  /\ snd' = [snd EXCEPT !.next = Plus(@, 1), !.send = {ToServer({"Ack"}, snd.next, <<>>)}]
  /\ sState' = "SendLastAck"
  /\ sTries' = sTries + 1
  /\ UNCHANGED netVars

(* The retransmission is made with make_first_syn_future. *)
FinTimeout ==
  /\ sState = "WaitForFinAck"
  /\ sTries < Tries
  /\ snd' = [snd EXCEPT !.send = {SynPacket(snd.next)}]
  /\ sState' = "SendFin"
  /\ sTries' = sTries + 1
  /\ UNCHANGED netVars

SendLastAck ==
  /\ sState = "SendLastAck"
  /\ c2s' = c2s \cup snd.send
  /\ snd' = Flush(snd)
  /\ sState' = "DataSent"
  /\ UNCHANGED <<sTries, s2c>>

SenderNext ==
  \/ SendFirstSyn \/ WaitForSynAck \/ SynTimeout \/ SenderGivesUp \/ SendAck
  \/ SendDataStep
  \/ SendFin \/ WaitForFinAck \/ FinTimeout \/ SendLastAck
=============================================================================
