------------------------ MODULE StreamTimers_proofs -------------------------
(***************************************************************************)
(* Proofs about StreamTimers for every setting of the timers, any size of  *)
(* recv_buf and any number of packets, faults and runs: recv_buf lasts as  *)
(* long as the attempts it is split for, input does not lie unread, and    *)
(* the sender is overdue only while its socket is jammed.                  *)
(***************************************************************************)
EXTENDS StreamTimers, TLAPS

-----------------------------------------------------------------------------
(* The fields of snd, rcv and history: the proofs need to know the values  *)
(* of some, and of the others only that they are there.                    *)
SndFields(s) ==
  s \in [send : {s.send}, read : {s.read}, eof : {s.eof}, taken : {s.taken},
         nextData : {s.nextData}, retrans : {s.retrans}, wait : {s.wait},
         ack : Int, conn : Int, unread : Nat]

SndOK == SndFields(snd)

RcvFields(r) ==
  r \in [window : {r.window}, got : {r.got}, stuck : {r.stuck}, fin : {r.fin},
         conn : {r.conn}, acks : {r.acks}, splits : Nat, attempts : Nat]

RcvOK == RcvFields(rcv)

HistoryOK ==
  /\ history \in [lost : {history.lost}, idle : {history.idle}, jammed : BOOLEAN]
  /\ jam \in BOOLEAN

SenderStates ==
  {"SendFirstSyn", "WaitForSynAck", "SendAck", "SendData", "SendFin", "WaitForFinAck",
   "SendLastAck", "DataSent", "TimedOut"}

(* While an answer is awaited nothing is being sent. *)
StateInv == sState \in SenderStates /\ (WaitsForAnswer => snd.send = {})

(* Input has lain unread for no longer than ack_timer has run: whatever    *)
(* sets the timer again polls SendData, which reads the input.  Outside    *)
(* SendData nothing is to be read.                                         *)
UnreadInv ==
  /\ sState = "SendData" /\ ~history.jammed => snd.ack >= 0 /\ snd.ack + snd.unread <= PacketLoss
  /\ sState # "SendData" => snd.unread = 0

(* How many mtus of recv_buf each state has split off, for the attempts    *)
(* before it and for its own.                                              *)
SplitsInv ==
  /\ rState = "WaitForFirstSyn" => rcv.splits + 2 * rcv.attempts + 1 = Splits
  /\ rState = "WaitForAck"      => rcv.splits + 2 * rcv.attempts + 2 = Splits
  /\ rState = "ReceivePackets"  => rcv.splits + 2 * rcv.attempts + 3 = Splits
  /\ rState = "WaitForLastAck"  => rcv.splits + 2 * rcv.attempts + 4 = Splits
  /\ RecvBufLasts

SenderInv   == SndOK /\ HistoryOK /\ StateInv /\ UnreadInv
ReceiverInv == RcvOK /\ SplitsInv

LEMMA TimersArePositive ==
  /\ PacketLoss \in Nat /\ PacketLoss \in Int /\ PacketLoss > 0
  /\ ConnLoss \in Nat /\ ConnLoss \in Int /\ ConnLoss > 0
  /\ Splits \in Nat /\ Splits > 0
BY TimersAssumption

(* What a poll of SendData and what its end leave of snd.                  *)
LEMMA StartFields ==
  SndFields(StartSender) /\ StartSender.ack = PacketLoss
    /\ StartSender.conn = ConnLoss /\ StartSender.unread = 0
BY TimersArePositive DEF SndFields, StartSender

LEMMA PolledFields ==
  ASSUME NEW s, SndFields(s)
  PROVE  /\ SndFields(Polled(s))
         /\ Polled(s).ack = s.ack /\ Polled(s).conn = s.conn /\ Polled(s).unread = 0
BY DEF SndFields, Polled

LEMMA DroppedFields ==
  ASSUME NEW s
  PROVE  SndFields(Dropped(s)) /\ Dropped(s).conn = ConnLoss /\ Dropped(s).unread = 0
BY StartFields DEF SndFields, Dropped

(* What setting its timers does.                                           *)
LEMMA TimersSet ==
  ASSUME NEW s, SndFields(s), NEW ack \in Int, NEW conn \in Int, NEW unread \in Nat,
         NEW t, \/ t = [s EXCEPT !.ack = ack, !.conn = conn] /\ unread = s.unread
                \/ t = [s EXCEPT !.ack = ack, !.conn = conn, !.unread = unread]
                \/ \E wait : t = [s EXCEPT !.wait = wait, !.ack = ack, !.conn = conn]
                             /\ unread = s.unread
                \/ \E retrans : t = [s EXCEPT !.retrans = retrans, !.ack = ack]
                             /\ unread = s.unread /\ conn = s.conn
  PROVE  SndFields(t) /\ t.ack = ack /\ t.conn = conn /\ t.unread = unread
<1>1. CASE t = [s EXCEPT !.ack = ack, !.conn = conn] /\ unread = s.unread
  BY <1>1 DEF SndFields
<1>2. CASE t = [s EXCEPT !.ack = ack, !.conn = conn, !.unread = unread]
  BY <1>2 DEF SndFields
<1>3. CASE \E wait : t = [s EXCEPT !.wait = wait, !.ack = ack, !.conn = conn]
                    /\ unread = s.unread
  BY <1>3 DEF SndFields
<1>4. CASE \E retrans : t = [s EXCEPT !.retrans = retrans, !.ack = ack]
                       /\ unread = s.unread /\ conn = s.conn
  BY <1>4 DEF SndFields
<1> QED BY <1>1, <1>2, <1>3, <1>4

(* The same of the receiver's fields.                                      *)
LEMMA StartReceiverFields ==
  RcvFields(StartReceiver) /\ StartReceiver.splits + 1 = Splits /\ StartReceiver.attempts = 0
BY TimersArePositive DEF RcvFields, StartReceiver

LEMMA DroppedRFields ==
  ASSUME NEW r, RcvFields(r)
  PROVE  /\ RcvFields(DroppedR(r))
         /\ DroppedR(r).splits = r.splits /\ DroppedR(r).attempts = r.attempts
BY DEF RcvFields, DroppedR

LEMMA InitTimers == Init => SenderInv /\ ReceiverInv
<1> SUFFICES ASSUME Init PROVE SenderInv /\ ReceiverInv
  OBVIOUS
<1>1. SndOK /\ RcvOK /\ HistoryOK
  BY StartFields, StartReceiverFields DEF Init, SndOK, RcvOK, HistoryOK, NoHistory
<1>2. UnreadInv /\ StateInv
  BY StartFields, TimersArePositive DEF Init, UnreadInv, StateInv, SenderStates, WaitsForAnswer
<1>3. SplitsInv
  BY StartReceiverFields, TimersArePositive DEF Init, SplitsInv, RecvBufLasts, RcvFields
<1> QED BY <1>1, <1>2, <1>3 DEF SenderInv, ReceiverInv

-----------------------------------------------------------------------------
(* The receiver: each split moves to a state that accounts for it.         *)
ReceiverStep ==
  \/ ReceiveSyn \/ ReceiveFirstAck \/ KeepEarly \/ ReceiverRetries \/ AbandonAttempt
  \/ ReceiveData \/ FilterClientPacket \/ SendAcks \/ ReceiverTimeout
  \/ StartFinAck \/ ReceiveLastAck \/ ReceiverGivesUp

LEMMA EnteredState ==
  ASSUME NEW state, NEW r, EnterWithStream(state, r),
         RcvFields(r)
  PROVE  /\ RcvOK'
         /\ rcv'.attempts = r.attempts
         /\ \/ r.splits = 0 /\ rState' = "Panicked"
            \/ r.splits = rcv'.splits + 1 /\ rState' = state
BY DEF EnterWithStream, RcvOK, RcvFields

LEMMA ReceiverKeeps ==
  ASSUME ReceiverInv, ReceiverStep
  PROVE  ReceiverInv'
<1> USE DEF ReceiverInv, SplitsInv, RecvBufLasts
<1>1. CASE ReceiveSyn
  <2> DEFINE r == [DroppedR(rcv) EXCEPT !.window = Head(c2s).n + 2]
  <2>1. EnterWithStream("WaitForAck", r) /\ rState = "WaitForFirstSyn"
    BY <1>1 DEF ReceiveSyn, CanReceiveSyn
  <2>2. RcvFields(r) /\ r.splits = rcv.splits /\ r.attempts = rcv.attempts
    BY DroppedRFields DEF RcvOK, RcvFields
  <2> HIDE DEF r
  <2> QED BY <2>1, <2>2, EnteredState, TimersArePositive DEF RcvOK, RcvFields
<1>2. CASE ReceiveFirstAck
  <2> DEFINE r == [rcv EXCEPT !.conn = ConnLoss, !.acks = TRUE]
  <2>1. EnterWithStream("ReceivePackets", r) /\ rState = "WaitForAck"
    BY <1>2 DEF ReceiveFirstAck, CanTakePacket
  <2>2. RcvFields(r) /\ r.splits = rcv.splits /\ r.attempts = rcv.attempts
    BY DEF RcvOK, RcvFields
  <2> HIDE DEF r
  <2> QED BY <2>1, <2>2, EnteredState, TimersArePositive DEF RcvOK, RcvFields
<1>3. CASE AbandonAttempt
  <2> DEFINE r == [DroppedR(rcv) EXCEPT !.attempts = @ + 1]
  <2>1. EnterWithStream("WaitForFirstSyn", r) /\ rState = "WaitForAck"
    BY <1>3 DEF AbandonAttempt
  <2>2. RcvFields(r) /\ r.splits = rcv.splits /\ r.attempts = rcv.attempts + 1
    BY DroppedRFields DEF RcvOK, RcvFields
  <2> HIDE DEF r
  <2> QED BY <2>1, <2>2, EnteredState, TimersArePositive DEF RcvOK, RcvFields
<1>4. CASE StartFinAck
  <2> DEFINE r == DroppedR(rcv)
  <2>1. EnterWithStream("WaitForLastAck", r) /\ rState = "ReceivePackets"
    BY <1>4 DEF StartFinAck, CanStartFinAck
  <2>2. RcvFields(r) /\ r.splits = rcv.splits /\ r.attempts = rcv.attempts
    BY DroppedRFields DEF RcvOK, RcvFields
  <2> HIDE DEF r
  <2> QED BY <2>1, <2>2, EnteredState, TimersArePositive DEF RcvOK, RcvFields
<1>5. CASE KeepEarly
  BY <1>5 DEF KeepEarly, RcvOK, RcvFields
<1>6. CASE ReceiveData
  BY <1>6 DEF ReceiveData, RcvOK, RcvFields
<1>7. CASE SendAcks
  BY <1>7 DEF SendAcks, RcvOK, RcvFields
<1>8. CASE ReceiverTimeout
  BY <1>8, DroppedRFields DEF ReceiverTimeout, RcvOK
<1>9. CASE ReceiverRetries \/ FilterClientPacket
  BY <1>9 DEF ReceiverRetries, FilterClientPacket, RcvOK, RcvFields
<1>10. CASE ReceiveLastAck \/ ReceiverGivesUp
  BY <1>10 DEF ReceiveLastAck, ReceiverGivesUp, RcvOK, RcvFields
<1> QED BY <1>1, <1>2, <1>3, <1>4, <1>5, <1>6, <1>7, <1>8, <1>9, <1>10 DEF ReceiverStep

LEMMA ReceiverStaysUntouched ==
  ASSUME ReceiverInv, UNCHANGED <<rState, rcv>>
  PROVE  ReceiverInv'
BY DEF ReceiverInv, RcvOK, RcvFields, SplitsInv, RecvBufLasts

-----------------------------------------------------------------------------
SenderStep ==
  \/ PollSendFut \/ FilterServerPacket \/ Answered \/ SenderRetries \/ SenderGivesUp
  \/ FillNextData \/ MakeDataSendFut \/ ReceiveAck \/ RetransmitAll
  \/ ConnectionTimeout \/ StartFin

LEMMA LeftForFin ==
  ASSUME LeaveForFin
  PROVE  /\ sState' = "SendFin" /\ SndOK'
         /\ snd'.conn = ConnLoss /\ snd'.unread = 0
BY DroppedFields DEF LeaveForFin, SndOK, SndFields

(* What a step of the sender does to the fields the proofs are about: a    *)
(* timer that is set again has its full time, and the input is read when   *)
(* ack_timer is.                                                           *)
SenderMoves ==
  /\ SndOK' /\ StateInv'
  /\ snd'.conn \in {snd.conn, ConnLoss}
  /\ \/ sState' # "SendData" /\ snd'.unread = 0
     \/ sState' = "SendData" /\ snd'.ack = PacketLoss /\ snd'.unread = 0
     \/ sState' = "SendData" /\ sState = "SendData" /\ snd'.ack = snd.ack
          /\ snd'.unread \in {0, snd.unread}

LEMMA SenderStepMoves ==
  ASSUME SndOK, StateInv, sState # "SendData" => snd.unread = 0, SenderStep
  PROVE  SenderMoves /\ UNCHANGED <<rState, rcv, env>>
<1> USE DEF SenderMoves, SndOK, StateInv, SenderStates, WaitsForAnswer, senderEnv
<1>1. CASE PollSendFut
  <2> DEFINE s == [snd EXCEPT !.send = {}]
             t == [s EXCEPT !.ack = PacketLoss, !.conn = ConnLoss]
  <2>1. SndFields(s) /\ s.ack = snd.ack /\ s.conn = snd.conn /\ s.unread = snd.unread
    BY DEF SndFields
  <2> HIDE DEF s
  <2>2. SndFields(t) /\ t.ack = PacketLoss /\ t.conn = ConnLoss
    BY <2>1, TimersArePositive, TimersSet DEF SndFields
  <2>3. /\ sState' = AfterSend
        /\ snd' = CASE sState = "SendAck"  -> Polled(t)
                    [] sState = "SendData" -> Polled(s)
                    [] OTHER               -> s
    BY <1>1 DEF PollSendFut, s, t
  <2>4. sState \in {"SendFirstSyn", "SendAck", "SendData", "SendFin", "SendLastAck"}
    BY <1>1 DEF StateInv, SenderStates, WaitsForAnswer, PollSendFut, CanPollSend, SenderEnded
  <2> HIDE DEF t
  <2>5. CASE sState = "SendAck"
    <3>1. sState' = "SendData" /\ snd' = Polled(t)
      BY <2>3, <2>5 DEF AfterSend
    <3> QED BY <1>1, <2>2, <3>1, PolledFields DEF PollSendFut
  <2>6. CASE sState = "SendData"
    <3>1. sState' = "SendData" /\ snd' = Polled(s)
      BY <2>3, <2>6 DEF AfterSend
    <3> QED BY <1>1, <2>1, <2>6, <3>1, PolledFields DEF PollSendFut
  <2>7. CASE sState \in {"SendFirstSyn", "SendFin", "SendLastAck"}
    <3>1. sState' \in {"WaitForSynAck", "WaitForFinAck", "DataSent"} /\ snd' = s
      BY <2>3, <2>7 DEF AfterSend
    <3>2. s.send = {}
      BY DEF SndFields, s
    <3> QED BY <1>1, <2>1, <2>7, <3>1, <3>2 DEF PollSendFut
  <2> QED BY <2>4, <2>5, <2>6, <2>7
<1>2. CASE FilterServerPacket
  BY <1>2, PolledFields DEF FilterServerPacket
<1>3. CASE Answered
  BY <1>3 DEF Answered, CanTakeAnswer, WaitsForAnswer, SndFields
<1>4. CASE SenderRetries
  BY <1>4 DEF SenderRetries, CanSenderRetry, WaitsForAnswer, SndFields
<1>5. CASE SenderGivesUp
  BY <1>5 DEF SenderGivesUp, CanSenderGiveUp, WaitsForAnswer
<1>6. CASE FillNextData
  BY <1>6 DEF FillNextData, CanFillNext, SndFields
<1>7. CASE MakeDataSendFut
  BY <1>7 DEF MakeDataSendFut, CanMakeSend, SndFields
<1>8. CASE ReceiveAck
  <2> DEFINE t == [Polled(snd) EXCEPT !.wait = @ \ AckedBy(Head(s2c)),
                                      !.ack = PacketLoss, !.conn = ConnLoss]
  <2>1. SndFields(t) /\ t.ack = PacketLoss /\ t.conn = ConnLoss /\ t.unread = 0
    <3>1. SndFields(Polled(snd)) /\ Polled(snd).unread = 0
      BY PolledFields
    <3> QED BY <3>1, TimersArePositive, TimersSet DEF SndFields
  <2>2. snd' \in {Polled(snd), t}
    BY <1>8 DEF ReceiveAck
  <2> HIDE DEF t
  <2> QED BY <1>8, <2>1, <2>2, PolledFields DEF ReceiveAck, CanReceiveAck
<1>9. CASE RetransmitAll
  <2> DEFINE t == [Polled(snd) EXCEPT !.retrans = SetToSortSeq(snd.wait, <), !.ack = PacketLoss]
  <2>1. SndFields(t) /\ t.ack = PacketLoss /\ t.conn = snd.conn /\ t.unread = 0
    <3>1. SndFields(Polled(snd)) /\ Polled(snd).conn = snd.conn /\ Polled(snd).unread = 0
      BY PolledFields
    <3> QED BY <3>1, TimersArePositive, TimersSet DEF SndFields
  <2>2. snd' = t
    BY <1>9 DEF RetransmitAll
  <2> HIDE DEF t
  <2> QED BY <1>9, <2>1, <2>2 DEF RetransmitAll, CanRequeue
<1>10. CASE ConnectionTimeout
  BY <1>10, DroppedFields DEF ConnectionTimeout
<1>11. CASE StartFin
  BY <1>11, LeftForFin DEF StartFin, StateInv, SenderStates, WaitsForAnswer
<1> QED BY <1>1, <1>2, <1>3, <1>4, <1>5, <1>6, <1>7, <1>8, <1>9, <1>10, <1>11
        DEF SenderStep

-----------------------------------------------------------------------------
(* Time passes only when nothing can be done: with input unread ack_timer  *)
(* has not expired, unless the socket is jammed.                           *)
LEMMA QuietSender ==
  ASSUME ~CanStep, sState = "SendData"
  PROVE  /\ jam \/ snd.retrans = <<>>
         /\ snd.ack <= 0 => snd.retrans # <<>>
         /\ ~(snd.ack > 0 /\ snd.conn <= 0)
<1>1. snd.retrans # <<>> => jam
  <2>1. snd.retrans # <<>> => snd.nextData # {}
    BY DEF CanStep, CanFillNext
  <2>2. snd.nextData # {} => snd.send # {}
    BY DEF CanStep, CanMakeSend
  <2>3. snd.send # {} => jam
    BY DEF CanStep, CanPollSend, SenderEnded
  <2> QED BY <2>1, <2>2, <2>3
<1>2. snd.ack <= 0 => snd.retrans # <<>>
  BY DEF CanStep, CanRequeue
<1>3. s2c = <<>>
  BY DEF CanStep, CanFilterServer, CanReceiveAck, SenderPolls
<1>4. ~(snd.ack > 0 /\ snd.conn <= 0)
  BY <1>3 DEF CanStep, CanSenderTimeOut
<1> QED BY <1>1, <1>2, <1>4

LEMMA TickKeeps ==
  ASSUME SenderInv, ReceiverInv, Tick
  PROVE  SenderInv' /\ ReceiverInv'
<1>1. ReceiverInv'
  BY DEF Tick, ReceiverInv, RcvOK, RcvFields, SplitsInv, RecvBufLasts
<1>2. HistoryOK' /\ (history'.jammed <=> history.jammed \/ jam)
  BY DEF Tick, SenderInv, HistoryOK
<1>3. CASE sState # "SendData"
  <2>1. UNCHANGED <<sState, snd>>
    BY <1>3 DEF Tick
  <2> QED BY <1>1, <1>2, <1>3, <2>1 DEF SenderInv, SndOK, StateInv, WaitsForAnswer, UnreadInv
<1>4. CASE sState = "SendData"
  <2>1. snd' = [snd EXCEPT !.ack = Later(@, 0), !.conn = Later(@, -2),
                    !.unread = IF Unread(snd) /\ @ <= PacketLoss THEN @ + 1 ELSE @]
    BY <1>4 DEF Tick
  <2>2. /\ SndOK'
        /\ snd'.ack = Later(snd.ack, 0)
        /\ snd'.unread \in {snd.unread, snd.unread + 1}
    <3> DEFINE unread == IF Unread(snd) /\ snd.unread <= PacketLoss THEN snd.unread + 1
                         ELSE snd.unread
    <3>1. /\ Later(snd.ack, 0) \in Int /\ Later(snd.conn, -2) \in Int
          /\ unread \in Nat /\ unread \in {snd.unread, snd.unread + 1}
      BY DEF SenderInv, SndOK, SndFields, Later
    <3>2. snd' = [snd EXCEPT !.ack = Later(snd.ack, 0), !.conn = Later(snd.conn, -2),
                             !.unread = unread]
      BY <2>1
    <3> HIDE DEF unread
    <3>3. SndFields(snd)
      BY DEF SenderInv, SndOK
    <3>4. SndFields(snd') /\ snd'.ack = Later(snd.ack, 0) /\ snd'.unread = unread
      BY <3>1, <3>2, <3>3, TimersSet DEF SndFields
    <3> QED BY <3>1, <3>4 DEF SndOK
  <2>3. ~history'.jammed => snd.ack > 0
    BY <1>2, <1>4, QuietSender DEF Tick, SenderInv, SndOK, SndFields
  <2>4. sState' = sState
    BY DEF Tick
  <2>5. UnreadInv'
    <3> SUFFICES ASSUME ~history'.jammed
                 PROVE  snd'.ack >= 0 /\ snd'.ack + snd'.unread <= PacketLoss
      BY <1>4, <2>4 DEF UnreadInv
    <3>1. /\ snd.ack + snd.unread <= PacketLoss /\ snd.ack > 0
          /\ snd.ack \in Int /\ snd.unread \in Nat
      BY <1>2, <1>4, <2>3 DEF SenderInv, UnreadInv, SndOK, SndFields, HistoryOK
    <3>2. snd'.ack = snd.ack - 1
      BY <2>2, <3>1 DEF Later
    <3> QED BY <2>2, <3>1, <3>2, TimersArePositive
  <2> QED BY <1>1, <1>2, <1>4, <2>2, <2>4, <2>5 DEF SenderInv, StateInv, WaitsForAnswer
<1> QED BY <1>3, <1>4

LEMMA EnvironmentKeeps ==
  ASSUME SenderInv, ReceiverInv, Environment
  PROVE  SenderInv' /\ ReceiverInv'
<1>1. UNCHANGED <<rState, rcv>>
  BY DEF Environment, GiveInput, LoseFromClient, LoseFromServer, Lose, Jam, Rerun, ends
<1>2. ReceiverInv'
  BY <1>1, ReceiverStaysUntouched
<1>3. CASE Rerun
  <2>1. sState' = "SendFirstSyn" /\ snd' = StartSender /\ history' = NoHistory /\ jam' = FALSE
    BY <1>3 DEF Rerun
  <2>2. SndOK' /\ HistoryOK'
    BY <2>1, StartFields DEF SndOK, HistoryOK, NoHistory
  <2>3. StateInv' /\ UnreadInv'
    BY <2>1, StartFields DEF StateInv, SenderStates, WaitsForAnswer, UnreadInv
  <2> QED BY <1>2, <2>2, <2>3 DEF SenderInv
<1>4. CASE GiveInput \/ Jam \/ LoseFromClient \/ LoseFromServer
  <2>1. UNCHANGED <<sState, snd>>
    BY <1>4 DEF GiveInput, Jam, LoseFromClient, LoseFromServer, Lose, ends
  <2>2. HistoryOK' /\ history'.jammed = history.jammed
    BY <1>4 DEF GiveInput, Jam, LoseFromClient, LoseFromServer, Lose, SenderInv, HistoryOK
  <2> QED BY <1>2, <2>1, <2>2 DEF SenderInv, SndOK, StateInv, WaitsForAnswer, UnreadInv
<1> QED BY <1>3, <1>4 DEF Environment

LEMMA StartFinEarlyKeeps ==
  ASSUME SenderInv, ReceiverInv, StartFinEarly
  PROVE  SenderInv' /\ ReceiverInv'
<1>1. LeaveForFin /\ jam' = TRUE /\ UNCHANGED <<rState, rcv, history>>
  BY DEF StartFinEarly
<1>2. ReceiverInv'
  BY <1>1, ReceiverStaysUntouched
<1>3. HistoryOK'
  BY <1>1 DEF SenderInv, HistoryOK
<1>4. SndOK' /\ StateInv' /\ UnreadInv'
  BY <1>1, LeftForFin DEF StateInv, SenderStates, WaitsForAnswer, UnreadInv
<1> QED BY <1>2, <1>3, <1>4 DEF SenderInv

LEMMA SenderKeeps ==
  ASSUME SenderInv, SenderStep
  PROVE  SenderInv' /\ UNCHANGED <<rState, rcv>>
<1>1. SenderMoves /\ UNCHANGED <<rState, rcv, env>>
  BY SenderStepMoves DEF SenderInv, UnreadInv
<1>2. HistoryOK' /\ history' = history
  BY <1>1 DEF SenderInv, HistoryOK, env
<1>3. UnreadInv'
  BY <1>1, <1>2, TimersArePositive DEF SenderInv, SenderMoves, UnreadInv, SndOK, SndFields
<1> QED BY <1>1, <1>2, <1>3 DEF SenderInv, SenderMoves

LEMMA NextTimers ==
  ASSUME SenderInv, ReceiverInv, [Next]_vars
  PROVE  SenderInv' /\ ReceiverInv'
<1>1. CASE SenderStep
  BY <1>1, SenderKeeps, ReceiverStaysUntouched
<1>2. CASE ReceiverStep
  <2>1. UNCHANGED <<sState, snd, history, jam>>
    BY <1>2 DEF ReceiverStep, ReceiveSyn, ReceiveFirstAck, KeepEarly, ReceiverRetries,
       AbandonAttempt, ReceiveData, FilterClientPacket, SendAcks, ReceiverTimeout,
       StartFinAck, ReceiveLastAck, ReceiverGivesUp, receiverEnv, env
  <2>2. SenderInv'
    BY <2>1 DEF SenderInv, SndOK, HistoryOK, StateInv, WaitsForAnswer, UnreadInv
  <2> QED BY <1>2, <2>2, ReceiverKeeps
<1>3. CASE Tick
  BY <1>3, TickKeeps
<1>4. CASE Environment
  BY <1>4, EnvironmentKeeps
<1>5. CASE Ended \/ UNCHANGED vars
  <2>1. UNCHANGED <<sState, snd, history, jam, rState, rcv>>
    BY <1>5 DEF Ended, vars, env
  <2>2. SenderInv'
    BY <2>1 DEF SenderInv, SndOK, HistoryOK, StateInv, WaitsForAnswer, UnreadInv
  <2> QED BY <2>1, <2>2, ReceiverStaysUntouched
<1>6. CASE StartFinEarly
  BY <1>6, StartFinEarlyKeeps
<1> QED BY <1>1, <1>2, <1>3, <1>4, <1>5, <1>6 DEF Next, Step, SenderStep, ReceiverStep

LEMMA TimersInvariant == Spec => [](SenderInv /\ ReceiverInv)
<1>1. SenderInv /\ ReceiverInv /\ [Next]_vars => (SenderInv /\ ReceiverInv)'
  BY NextTimers
<1> QED BY <1>1, InitTimers, PTL DEF Spec

(* The receive buffer panics for want of an mtu only after the number of   *)
(* abandoned attempts that uses it up: no other path splits it, and a      *)
(* connection that follows fewer attempts is served to its end.            *)
THEOREM RecvBufServesAttempts == Spec => []RecvBufLasts
<1>1. ReceiverInv => RecvBufLasts
  BY DEF ReceiverInv, SplitsInv
<1> QED BY <1>1, TimersInvariant, PTL

(* Input that comes while nothing wakes the sender's task is read within a *)
(* PACKET_LOSS_TIMEOUT, for every setting of the timers, as long as the    *)
(* socket took packets whenever time passed.                               *)
THEOREM InputDoesNotLieUnread == Spec => []InputIsReadInTime
<1>1. SenderInv => InputIsReadInTime
  BY TimersArePositive
     DEF SenderInv, UnreadInv, InputIsReadInTime, SndOK, SndFields, HistoryOK
<1> QED BY <1>1, TimersInvariant, PTL

(* No step lets the sender's connection timeout go further past while it   *)
(* stays in SendData, unless the socket is jammed with retransmissions     *)
(* queued.                                                                 *)
THEOREM OverdueForAReason == Spec => OverdueOnlyWhileJammed
<1> DEFINE Overdue == snd'.conn < snd.conn /\ snd.conn <= 0 => jam /\ snd.retrans # <<>>
<1>1. ASSUME SenderInv, [Next]_vars
      PROVE  [Overdue]_vars
  <2>1. ASSUME snd'.conn < snd.conn, snd.conn <= 0
        PROVE  jam /\ snd.retrans # <<>>
    <3>1. snd.conn \in Int
      BY <1>1 DEF SenderInv, SndOK, SndFields
    <3>2. ~SenderStep
      BY <1>1, <2>1, <3>1, SenderStepMoves, TimersArePositive
         DEF SenderInv, UnreadInv, SenderMoves
    <3>3. snd' # snd /\ snd' # StartSender /\ ~StartFinEarly
      BY <2>1, <3>1, StartFields, LeftForFin, TimersArePositive DEF StartFinEarly
    <3>4. Tick
      BY <1>1, <3>2, <3>3
         DEF Next, Step, SenderStep, Environment, GiveInput, LoseFromClient,
             LoseFromServer, Lose, Jam, Rerun, Ended, ends, vars, receiverEnv,
             ReceiveSyn, ReceiveFirstAck, KeepEarly, ReceiverRetries, AbandonAttempt,
             ReceiveData, FilterClientPacket, SendAcks, ReceiverTimeout, StartFinAck,
             ReceiveLastAck, ReceiverGivesUp
    <3>5. ~CanStep /\ sState = "SendData"
      BY <3>3, <3>4 DEF Tick
    <3>6. snd.ack \in Int
      BY <1>1 DEF SenderInv, SndOK, SndFields
    <3> QED BY <2>1, <3>5, <3>6, QuietSender
  <2> QED BY <2>1
<1>2. Spec => [](SenderInv /\ ReceiverInv)
  BY TimersInvariant
<1> HIDE DEF Overdue
<1>3. Spec => [][Overdue]_vars
  BY <1>1, <1>2, PTL DEF Spec
<1> QED BY <1>3, PTL DEF OverdueOnlyWhileJammed, Overdue
=============================================================================
