------------------------------ MODULE Datagrams -----------------------------
(***************************************************************************)
(* The datagram mode: ping6-datasend (src/datagrams.rs, the               *)
(* StdinBytesIterator of src/stdin.rs) sends each message in one echo      *)
(* request, ping6-datarecv (src/datagrams.rs, src/util.rs, src/main.rs)    *)
(* prints the messages of the echo requests its raw socket receives.  Both *)
(* processes block in system calls, which signals interrupt.               *)
(*                                                                         *)
(* A payload is a sequence of bytes 0..Base-1; two bytes hold a length.    *)
(***************************************************************************)
EXTENDS Integers, Sequences, SequencesExt

CONSTANTS
  Base,          \* byte values: 256 in the code
  Configs,       \* the options both programs are started with
  Inputs,        \* what the user sends: sequences of messages
  Foreign,       \* packets of others: [type, code, here, payload]
  MaxArrivals,   \* bound: packets that reach the receiver's socket
  MaxSignals     \* bound: signals sent to the processes

ASSUME BaseAssumption == Base \in Nat /\ Base > 1
ASSUME ConfigsAssumption ==
  Configs \subseteq [inline : BOOLEAN, sraw : BOOLEAN, rraw : BOOLEAN,
                      binary : BOOLEAN, bound : BOOLEAN]
ASSUME BoundsAssumption == MaxArrivals \in Nat /\ MaxSignals \in Nat

VARIABLES
  conf,      \* options: inline, sraw (sender); rraw, binary, bound (receiver)
  input,     \* the messages the user gave the sender
  stdin,     \* bytes not read from the standard input
  inline,    \* inline messages not yet processed
  spc, msg,  \* the sender: where it is, and the message at hand
  want,      \* the length StdinBytesIterator read
  split,     \* history: some length was read one byte short
  sent,      \* history: messages sent
  rpc,       \* the receiver: where it is
  queue,     \* its socket's queue: [packet, early], early before the filter
  printed,   \* what it printed: [head, body, from]
  fatal,     \* history: the entry that made it panic, in a set
  arrivals,  \* packets that arrived
  flag,      \* SIGNAL_FLAG of each process
  woken,     \* the signal interrupts the process's system call
  signals,   \* signals sent to each process
  late       \* history: messages a process handled after its first signal

sender   == <<input, stdin, inline, spc, msg, want, split, sent>>
receiver == <<rpc, queue, printed, fatal>>
signal   == <<flag, woken, signals, late>>
vars     == <<conf, sender, receiver, arrivals, signal>>

Processes == {"sender", "receiver"}

-----------------------------------------------------------------------------
(* Payloads.                                                               *)

LengthBytes(n) == <<(n \div Base) % Base, n % Base>>
LengthOf(bytes) == bytes[1] * Base + bytes[2]
MaxLength == Base * Base - 1   \* u16::max_value()

(* ping6_data_checksum: some hash of the length and the bytes.             *)
Checksum(m) == LengthBytes(FoldSeq(LAMBDA x, y : x + y, Len(m), m) + 1)

(* form_checked_payload; a raw sender sends the message itself.            *)
Encode(raw, m) == IF raw THEN m ELSE Checksum(m) \o LengthBytes(Len(m)) \o m

Body(raw, payload) == IF raw THEN payload ELSE SubSeq(payload, 5, Len(payload))

(* validate_payload, of a payload it does not panic on.                    *)
ValidPayload_AnyLength(payload) ==   \* mutant
  SubSeq(payload, 1, 2) = Checksum(Body(FALSE, payload))
ValidPayload(payload) ==
  /\ LengthOf(SubSeq(payload, 3, 4)) = Len(payload) - 4
  /\ SubSeq(payload, 1, 2) = Checksum(Body(FALSE, payload))

(* The bytes a standard input with these messages holds.                   *)
Framed(messages) ==
  FoldLeft(LAMBDA bytes, m : bytes \o LengthBytes(Len(m)) \o m, <<>>, messages)

(* The bytes of the standard input and of the packets of others.           *)
Byte == 0..Base - 1

ASSUME InputsAssumption == \A messages \in Inputs : messages \in Seq(Seq(Byte))
ASSUME ForeignAssumption == \A p \in Foreign : p.payload \in Seq(Byte)

PacketOf(m) == [type |-> "EchoRequest", code |-> 0, here |-> TRUE,
                payload |-> Encode(conf.sraw, m)]

-----------------------------------------------------------------------------
Init ==
  /\ conf \in Configs
  /\ input \in Inputs
  /\ \A i \in DOMAIN input : conf.inline \/ Len(input[i]) <= MaxLength
  /\ stdin = IF conf.inline THEN <<>> ELSE Framed(input)
  /\ inline = IF conf.inline THEN input ELSE <<>>
  /\ spc = "next" /\ msg = <<>> /\ want = 0 /\ split = FALSE /\ sent = <<>>
  /\ rpc = IF conf.bound THEN "unbound" ELSE "unfiltered"
  /\ queue = <<>> /\ printed = <<>> /\ fatal = {} /\ arrivals = 0
  /\ flag = [p \in Processes |-> FALSE] /\ woken = flag
  /\ signals = [p \in Processes |-> 0] /\ late = signals

(* A process's system call returned. *)
Returned(p) ==
  /\ woken' = [woken EXCEPT ![p] = FALSE]
  /\ UNCHANGED <<conf, arrivals, flag, signals>>

(* The process handled a message. *)
Handled(p) == late' = IF signals[p] > 0 THEN [late EXCEPT ![p] = @ + 1] ELSE late

(***************************************************************************)
(* The sender                                                              *)
(***************************************************************************)
NextInline ==
  /\ conf.inline /\ spc = "next"
  /\ IF inline = <<>>
     THEN spc' = "ended" /\ UNCHANGED <<msg, inline>>
     ELSE spc' = "check" /\ msg' = Head(inline) /\ inline' = Tail(inline)
  /\ UNCHANGED <<conf, input, stdin, want, split, sent, receiver, arrivals, signal>>

(* StdinBytesIterator::next, its first read, of k bytes: it may be short,  *)
(* and then the second byte of the length is the zero of the buffer.       *)
ReadLength(k) ==
  /\ ~conf.inline /\ spc = "next"
  /\ k <= Len(stdin) /\ (k = 0 => stdin = <<>>)
  /\ spc' = IF k = 0 THEN "ended" ELSE "payload"
  /\ want' = IF k = 0 THEN 0 ELSE LengthOf(SubSeq(SubSeq(stdin, 1, k) \o <<0>>, 1, 2))
  /\ stdin' = SubSeq(stdin, k + 1, Len(stdin))
  /\ split' = (split \/ k = 1)
  /\ Returned("sender")
  /\ UNCHANGED <<input, inline, msg, sent, receiver, late>>

(* Its second read: a short one is WrongLengthMessage, which ends the      *)
(* program.                                                                *)
ReadPayload(k) ==
  /\ spc = "payload"
  /\ k <= want /\ k <= Len(stdin) /\ (k = 0 => want = 0 \/ stdin = <<>>)
  /\ spc' = IF k = want THEN "check" ELSE "failed"
  /\ msg' = IF k = want THEN SubSeq(stdin, 1, k) ELSE <<>>
  /\ stdin' = SubSeq(stdin, k + 1, Len(stdin))
  /\ want' = 0
  /\ Returned("sender")
  /\ UNCHANGED <<input, inline, split, sent, receiver, late>>

ReadInterrupted ==
  /\ ~conf.inline /\ spc \in {"next", "payload"} /\ woken["sender"]
  /\ spc' = "failed"
  /\ Returned("sender")
  /\ UNCHANGED <<input, stdin, inline, msg, want, split, sent, receiver, late>>

(* Mutant: the flag is not looked at. *)
CheckSignal_Blind ==
  /\ spc = "check"
  /\ spc' = IF ~conf.sraw /\ Len(msg) > MaxLength THEN "failed" ELSE "sending"
  /\ UNCHANGED <<conf, input, stdin, inline, msg, want, split, sent, receiver,
                 arrivals, signal>>

(* process_message, up to the call of sendto. *)
CheckSignal ==
  /\ spc = "check"
  /\ spc' = IF flag["sender"] THEN "ended"
            ELSE IF ~conf.sraw /\ Len(msg) > MaxLength THEN "failed" ELSE "sending"
  /\ flag' = [flag EXCEPT !["sender"] = FALSE]
  /\ UNCHANGED <<conf, input, stdin, inline, msg, want, split, sent, receiver,
                 arrivals, woken, signals, late>>

(* The call of sendto. *)
SendTo ==
  /\ spc = "sending"
  /\ spc' = "next"
  /\ sent' = Append(sent, msg)
  /\ msg' = <<>>
  /\ Returned("sender") /\ Handled("sender")
  /\ UNCHANGED <<input, stdin, inline, want, split, receiver>>

(* Interrupted, it is taken for sent. *)
SendInterrupted ==
  /\ spc = "sending" /\ woken["sender"]
  /\ spc' = "next"
  /\ msg' = <<>>
  /\ Returned("sender")
  /\ UNCHANGED <<input, stdin, inline, want, split, sent, receiver, late>>

SendFails ==
  /\ spc = "sending"
  /\ spc' = "failed"
  /\ msg' = <<>>
  /\ Returned("sender")
  /\ UNCHANGED <<input, stdin, inline, want, split, sent, receiver, late>>

(***************************************************************************)
(* The receiver.  Its socket receives from the moment it is made.          *)
(***************************************************************************)
BindSocket ==
  /\ rpc = "unbound"
  /\ rpc' = "unfiltered"
  /\ UNCHANGED <<conf, sender, queue, printed, fatal, arrivals, signal>>

SetFilter ==
  /\ rpc = "unfiltered"
  /\ rpc' = "check"
  /\ UNCHANGED <<conf, sender, queue, printed, fatal, arrivals, signal>>

LoopTop_Blind ==   \* mutant
  /\ rpc = "check"
  /\ rpc' = "receiving"
  /\ UNCHANGED <<conf, sender, queue, printed, fatal, arrivals, signal>>

LoopTop ==
  /\ rpc = "check"
  /\ rpc' = IF flag["receiver"] THEN "ended" ELSE "receiving"
  /\ flag' = [flag EXCEPT !["receiver"] = FALSE]
  /\ UNCHANGED <<conf, sender, queue, printed, fatal, arrivals, woken, signals, late>>

(* validate_icmpv6: an assertion on the type; the checksum is computed for *)
(* the address the socket is bound to, so a packet for another one fails.  *)
AssertFails(p) == p.type # "EchoRequest"
ValidIcmp(p) == (conf.bound => p.here) /\ p.code = 0

(* validate_payload slices a header off the payload without a look at its  *)
(* length.                                                                 *)
PayloadPanics(payload) == ~conf.rraw /\ Len(payload) < 4

(* binary_print and regular_print: a checked payload's first two bytes are *)
(* its checksum.                                                           *)
HeadPrinted(payload) ==
  IF ~conf.binary THEN <<>>
  ELSE IF conf.rraw THEN LengthBytes(Len(payload))
  ELSE SubSeq(payload, 1, 2)

PrintMessage(p) ==
  /\ printed' = Append(printed, [head |-> HeadPrinted(p.payload),
                                 body |-> Body(conf.rraw, p.payload), from |-> p])
  /\ Handled("receiver")

ReceiveFrom ==
  /\ rpc = "receiving" /\ queue # <<>>
  /\ LET p     == Head(queue).packet
         panic == AssertFails(p) \/ (ValidIcmp(p) /\ PayloadPanics(p.payload))
     IN  /\ rpc' = IF panic THEN "panicked" ELSE "check"
         /\ fatal' = IF panic THEN {Head(queue)} ELSE {}
         /\ IF ~panic /\ ValidIcmp(p) /\ (conf.rraw \/ ValidPayload(p.payload))
            THEN PrintMessage(p)
            ELSE UNCHANGED <<printed, late>>
  /\ queue' = Tail(queue)
  /\ Returned("receiver")
  /\ UNCHANGED sender

(* Mutant: the call is made again at once. *)
ReceiveInterrupted_Retries ==
  /\ rpc = "receiving" /\ woken["receiver"]
  /\ Returned("receiver")
  /\ UNCHANGED <<sender, receiver, late>>

ReceiveInterrupted ==
  /\ rpc = "receiving" /\ woken["receiver"]
  /\ rpc' = "check"
  /\ Returned("receiver")
  /\ UNCHANGED <<sender, queue, printed, fatal, late>>

ReceiveFails ==
  /\ rpc = "receiving"
  /\ rpc' = "failed"
  /\ Returned("receiver")
  /\ UNCHANGED <<sender, queue, printed, fatal, late>>

(***************************************************************************)
(* The environment                                                         *)
(***************************************************************************)

(* The kernel passes what the socket is bound to and its filter lets in.   *)
(* A packet sent may arrive late, more than once, or never.                *)
Passes_NoFilter(p) == rpc = "unbound" \/ (conf.bound => p.here)   \* mutant
Passes(p) ==
  /\ rpc = "unbound" \/ (conf.bound => p.here)
  /\ rpc \in {"unbound", "unfiltered"} \/ p.type = "EchoRequest"

Arrive(p) ==
  /\ arrivals < MaxArrivals
  /\ rpc \notin {"ended", "failed", "panicked"}
  /\ Passes(p)
  /\ queue' = Append(queue, [packet |-> p, early |-> rpc \in {"unbound", "unfiltered"}])
  /\ arrivals' = arrivals + 1
  /\ UNCHANGED <<conf, sender, rpc, printed, fatal, signal>>

(* Where a process may be asleep in a system call. *)
InCall(p) ==
  IF p = "sender" THEN spc = "sending" \/ (~conf.inline /\ spc \in {"next", "payload"})
  ELSE rpc = "receiving"

Running(p) ==
  IF p = "sender" THEN spc \notin {"ended", "failed"}
  ELSE rpc \in {"check", "receiving"}

(* signal_handler; the signal finds the process in the call, or before it. *)
Signal(p, wakes) ==
  /\ signals["sender"] + signals["receiver"] < MaxSignals
  /\ Running(p) /\ (wakes => InCall(p))
  /\ signals' = [signals EXCEPT ![p] = @ + 1]
  /\ flag' = [flag EXCEPT ![p] = TRUE]
  /\ woken' = [woken EXCEPT ![p] = @ \/ wakes]
  /\ UNCHANGED <<conf, sender, receiver, arrivals, late>>

(* Both processes have ended. *)
Done == ~Running("sender") /\ rpc \in {"ended", "failed", "panicked"} /\ UNCHANGED vars

SenderStep ==
  \/ NextInline
  \/ \E k \in 0..2 : ReadLength(k)
  \/ \E k \in 0..MaxLength : ReadPayload(k)
  \/ ReadInterrupted \/ CheckSignal
  \/ SendTo \/ SendInterrupted \/ SendFails

ReceiverStep ==
  \/ BindSocket \/ SetFilter \/ LoopTop
  \/ ReceiveFrom \/ ReceiveInterrupted \/ ReceiveFails

Next ==
  \/ SenderStep \/ ReceiverStep
  \/ \E p \in {PacketOf(sent[i]) : i \in DOMAIN sent} \cup Foreign : Arrive(p)
  \/ \E p \in Processes, wakes \in BOOLEAN : Signal(p, wakes)
  \/ Done

(* A process that is not asleep in a system call runs; one that a signal   *)
(* woke, or a packet, returns from it.                                     *)
Fairness ==
  /\ WF_vars(NextInline) /\ WF_vars(CheckSignal)
  /\ WF_vars(SendInterrupted)
  /\ WF_vars(LoopTop) /\ WF_vars(ReceiveInterrupted) /\ WF_vars(ReceiveFrom)

Spec == Init /\ [][Next]_vars /\ Fairness

-----------------------------------------------------------------------------
(* A message is printed only from a packet that carries it: what the       *)
(* receiver cuts out, framed again as its peer frames it, is the payload.  *)
(* One bound to an address prints nothing addressed elsewhere, although    *)
(* what arrived before bind() is still in its queue.                       *)
PrintedWasCarried ==
  \A i \in DOMAIN printed :
     LET f == printed[i]
     IN  /\ Encode(conf.rraw, f.body) = f.from.payload
         /\ conf.bound => f.from.here

(* The sender sends the user's messages in order and skips none, although  *)
(* it takes an interrupted sendto for a success; unless a read splits the  *)
(* two bytes of a length, after which it sends other messages.             *)
SentInOrder == split \/ IsPrefix(sent, input)

(* After a signal at most one more message is sent or printed, wherever    *)
(* the signal finds the process.                                           *)
OneMoreAfterSignal == \A p \in Processes : late[p] <= 1

(* A receiver panics on a packet of another type only if it arrived before *)
(* the filter was set, and on a short payload only if that was not formed  *)
(* by a sender of the same mode.                                           *)
OnlyEarlyOrShortPanic ==
  \A q \in fatal :
     IF q.packet.type # "EchoRequest" THEN q.early
     ELSE ~conf.rraw /\ (conf.sraw \/ q.packet \in Foreign)

(* The process has yet to look at the flag before it can sleep again; the  *)
(* sender reads its standard input before it looks.  A signal that comes   *)
(* between the look and the call leaves the receiver asleep until the next *)
(* packet.                                                                 *)
Noticed(p) ==
  /\ flag[p]
  /\ IF p = "receiver" THEN rpc = "check" \/ woken[p] \/ queue # <<>>
     ELSE spc = "check" \/ (conf.inline /\ (spc = "next" \/ woken[p]))

(* A signal ends the process that it wakes or finds on its way to look at  *)
(* the flag, and a receiver that missed it at the next packet: whatever    *)
(* comes of that packet, the receiver looks again before it sleeps.        *)
SignalEndsProcess == \A p \in Processes : Noticed(p) ~> ~Running(p)

(* "Outputs only the messages' contents, preceded by 2-byte-BE length".    *)
BinaryHasLengths ==
  \A i \in DOMAIN printed :
     conf.binary => printed[i].head = LengthBytes(Len(printed[i].body))
=============================================================================
