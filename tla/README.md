# A TLA+ development of network_utils

`network_utils` is three programs and two libraries in Rust: `ping6-datasend` and
`ping6-datarecv` carry a stream of bytes, or single datagrams, in ICMPv6 echo
requests; `rsndpproxy` answers IPv6 neighbour solicitations for configured
prefixes; `ping6_datacommon` holds what the first two share and `linux_network`
wraps sockets for tokio. This directory models the stream protocol, from its
data structures up to the composition of its two ends and their timers, the datagram
mode, and the tasks and checks of the neighbour proxy, and says what is left.

## 1. Inventory

| Component | State | Operations | Hard to get right |
|---|---|---|---|
| `RangeTracker` (ping6_datacommon) | ordered set of disjoint ranges, offset | `track_range`, `take_range`, `is_range_tracked`, iteration | merging, renumbering by the offset, `BTreeSet` with an order that panics |
| `TrimmingBuffer` (ping6_datacommon) | ring of bytes, freed ranges | `add`, `take`, `cleanup`, slice drop | slices freed in any order, compaction |
| `TimeoutResultStream` (ping6_datacommon) | stream, deadline | `poll` | an answer racing the time-out |
| `SeqnoTracker` (ping6-datarecv) | a `RangeTracker`, window start | `add`, `take` | wraparound; shared by two tasks |
| `DataOrderer` (ping6-datarecv) | heap of packets over a buffer | `add`, `peek_seqno`, `take` | raw order of wrapping numbers, space |
| `AckWaitlist` (ping6-datasend) | queue of packets, tracker of acknowledged indices | `add`, `remove`, `cleanup`, iteration | indices renumbered under ranges, wraparound |
| Stream sender | a state machine: 7 live states and the fields of `SendData` | one `poll_*` per state | retransmission, window, deadlines, closing |
| Stream receiver | a state machine: 6 live states; ACK task | one `poll_*` per state, `AckSender::poll` | two tasks on one tracker, deadlines, `recv_buf`, closing |
| Datagram mode | a signal flag per process, the socket's queue | a loop per end, `StdinBytesIterator`, `form_checked_payload`, `validate_*` | framing, short reads, interrupted calls, packets that precede the filter |
| Quit broadcast (rsndpproxy) | message, tasks, receiver count, presence flag | `start_send`, `poll`, `clone`, drops | wake-ups against relaxed atomics, servers starting and leaving meanwhile |
| Signals and set-up (rsndpproxy) | signal streams, `to_send`, `fast_quit_sent` | `handle_signals`, `handle_requests` | order of signals, partial failure |
| `Server` (rsndpproxy) | queue counter, statistics, allmulti flag | `new`, `poll`, `drop`, spawned sends | limit, partial set-up, quitting under load |
| Validation of solicitations (rsndpproxy) | none | `parse`, `validate_*` | RFC 4861, prefixes of any length |
| Socket adapters (linux_network) | one `PollEvented` shared by clones | `recvfrom`, `sendto` futures | one waiting task per direction |
| `set_fd_nonblock` (linux_network; not modelled) | file flags | set and restore | restoring what was there |

How they interact: the sender's state machine polls its input, its socket and
two timers in a loop; it keeps what it read in a `TrimmingBuffer`, and each
packet sent in the `AckWaitlist` until it is acknowledged. The receiver's state
machine puts packets in a `DataOrderer` and their numbers in a `SeqnoTracker`,
which the spawned ACK task empties into acknowledgements every third of a
packet-loss time-out. Both programs run a tokio runtime with one core thread,
so tasks of one process interleave only where a `poll` returns. The two
processes share nothing but the network.

`rsndpproxy` starts one `Server` per interface and a task that awaits signals, on
tokio's thread pool, so they run in parallel. The broadcaster connects them: the
signal task holds its sender and every server a receiver. A server turns valid
solicitations into sends, spawned as tasks of their own that share one raw socket
and one counter.

What makes the components correct:

- the tracker is the set of positions it covers, never panics, consumes all of
  a leading run;
- the receiver's tracker knows what arrived, and acknowledges nothing else;
- packets leave the waiting list because an acknowledgement named them, and for
  no other reason;
- a connection survives the losses its timers are there for, no end waits for ever,
  and input does not lie unread;
- a printed message was carried by a packet, what is sent is the input in order, a
  signal ends the process;
- the output is the input, in order, once; what is acknowledged has arrived;
  an end that closes has everything;
- a slice of a buffer sees the same bytes as long as it lives, and every byte is
  given back once;
- a signal stops every server and then the process, whatever is going on;
- no more answers are queued than the limit, and the counter does not drift;
- what is answered is a valid solicitation that crosses the proxy.

## 2. Modules

    RangeOps ── RangeTracker, implements PointTracker (abstract) ──┐
    SeqnoOps                                                       ├── RangeTracker_proofs
       ├── WaitOps ── AckWaitlist, implements Waitlist (abstract) ─┘
       └── IcmpNet ──┬── StreamSender (with WaitOps) ──┐
                     └── StreamReceiver ───────────────┴── PingStream ── PingStream_proofs

    RangeOps ── TrimOps ──┬── TrimmingBuffer ──┬── DataOrderer_proofs
    SeqnoOps ─────────────┴── DataOrderer ─────┘

    StreamTimers ── StreamTimers_proofs      NdpServer ──┬── NdpServer_proofs
    Datagrams ──┬── Datagrams_proofs         NdpFilter ──┴── MCNdpFilter (the filter alone)
                └── MCDatagrams              Broadcast ── Broadcast_proofs

    TrimOps, SeqnoOps ── OpsLemmas, which the proofs about trackers, buffers and stream use

- **RangeOps** is the pure part of `RangeTracker`: `Track` is `track_range`,
  `Take` is `take_range`, `IsRangeTracked` is `is_range_tracked` with the
  early `break` it has, `TrackPanics` says when `BTreeSet::insert` meets two
  ranges `DTRange::cmp` refuses. `Merged`, `MergeLeft` and `MergeRight` are the
  loop that finds the neighbours.
- **RangeTracker** drives it as a state machine under the contract its comments
  state (callers do not add overlapping ranges). **PointTracker** is what it
  promises: a set of positions, from whose front a maximal run is consumed.
- **SeqnoOps** has the `Wrapping<u16>` arithmetic (`SeqMod` stands for 2^16)
  and `SeqnoTracker`'s pure part. The shared object is the variable `seqnos` of
  `DataOrderer`, and a field of `StreamReceiver`.
- **WaitOps** is the waiting list as the sender sees it, a list of entries with
  an `acked` flag; `Selected` has the raw comparisons of
  `remove_non_wrapping`, `SecondPart` the short circuit of `remove`.
  **AckWaitlist** has the code's representation, a queue and a tracker of
  indices, and implements **Waitlist** over `WaitOps`. So the sender may use
  the flagged list.
- **IcmpNet** is the network: two sets of packets that only grow. A receive
  takes any packet ever sent, so packets are lost, duplicated, delayed and
  reordered at will.
- **StreamSender** and **StreamReceiver** are the two `stm.rs`. A state is a
  variant of `StreamMachine`; its fields are the records `snd` and `rcv`. One
  action is one packet or timer consumed in a waiting state, one completed
  send, or one turn of the loop in `poll_send_data` and `poll_receive_packets`:
  `SendData` and `ReceiveTurn` call, in order, one function per `poll_*` or
  `fill_*` helper, and what the environment has ready (bytes on the input, a
  writable socket, a received packet, an expired timer) are their parameters.
  The receiver's ACK task is `SpawnAckSender`, `TakeAcks` and `SendAckRange`.
- **PingStream** composes the two and states what the protocol is for.
- **TrimOps** is the pure part of `TrimmingBuffer`: a ring with its memory, so that
  a slice is a cell and a length as in the code, where it is a raw pointer.
  `HandOut` is `take_range`, `PositionOf` is `slice_to_range`. A cell of `mem` holds
  the number of the byte in it, which tells whether a slice still sees its bytes.
- **TrimmingBuffer** drives it the way one of its two users does (`user`): the
  sender's read buffer adds and takes, the receiver's order buffer adds and
  slices at once. **DataOrderer** is that second user with everything around it: the
  sequence number tracker, with the state machine adding and the ACK task taking, the
  heap, the packet being written and `clean_and_get_space`. It uses the steps of
  `poll_receive_packets` a packet goes through, so it has the byte-level part of what
  `StreamReceiver` abstracts.
- **StreamTimers** is the two state machines again, with less of the data and all of
  the time. `NewTimed`, `Yield` and `Aged` are `TimeoutResultStream` inside its
  `take(RETRANSMISSIONS_NUMBER)`; `snd.ack` and `snd.conn` are `ack_timer` and
  `connection_timeout`, `rcv.conn` and `rcv.acks` the receiver's timeout and the
  interval of `TimedAckSeqnoGenerator`. `Polled` is what a poll of `SendData` does
  besides: it reads the input, which cannot wake the task. `EnterWithStream` is
  `make_recv_packets_stream`'s `split_to`. `Rerun` starts the sender again, against a
  receiver that has abandoned an attempt. The condition under which each step can be
  done is an operator of its own (`CanRequeue`, `CanSenderTimeOut` and so on), and
  `CanStep` their disjunction. `StartFinEarly` is the FIN of section 4 that leaves input
  behind: it takes a socket that jams in that very turn, hence a fault.
- **Datagrams** is both programs in the datagram mode: `ReadLength` and `ReadPayload`
  are `StdinBytesIterator::next`, `CheckSignal` and `SendTo` `process_message`,
  `LoopTop` and `ReceiveFrom` the receiver's loop with its checks, `BindSocket` and
  `SetFilter` the end of its `init`. A system call returns, fails, or is interrupted
  by a signal (`Signal` with `wakes`); one that comes before the call only sets
  `flag`. **MCDatagrams** gives it options, inputs and packets of others.
- **Broadcast** is `broadcast.rs` with its users: `handle_signals` (the record
  `signals`, with a place for every lock or atomic it touches), `handle_requests`
  (`StartServer`, `SkipFailed`) and, of each server, what concerns its receiver.
- **NdpServer** is one server and its sends: `New`, the turns of `Server::poll`,
  `Server::drop`, and `PollSend`, the poll of a send future over the shared
  `PollEvented`, whose one place for a waiting writer is the variable `writer`.
- **OpsLemmas** has what the proofs need to know of the operators of `RangeOps`,
  `SeqnoOps` and `TrimOps`. Each module `X_proofs` has the theorems about `X`;
  `RangeTracker_proofs` also those about `AckWaitlist`, `DataOrderer_proofs` about
  `TrimmingBuffer` and `NdpServer_proofs` about `NdpFilter`. A module whose theorems
  share a file with another's has names of its own for its variables and its formulas
  (`WaitlistSpec`, `BufferInit`, `filterVars`).
- **NdpFilter** is the validation of solicitations as functions of a packet and a
  list of prefixes; **MCNdpFilter** gives it packets and configurations.

Operators named with a suffix, such as `Take_KeepsRange`, are mutants: a
plausible mistake in the definition that follows them, which the property it is
listed with in `PROJECT.json` catches.

### Abstractions

- *Data.* The input is cells numbered from 1. `Mtu`, `HeaderLen`, buffer sizes
  are in cells. Checksums and parsing either reject a packet, which is a loss,
  or give the record modelled.
- *Time.* In `PingStream` a timer fires whenever the model likes, which includes the
  behaviours of every setting of the time-outs, and the safety it checks holds for all
  of them. `Tries` is `RETRANSMISSIONS_NUMBER`: the timed streams end after that many
  items (`take`), so the wait after the last retransmission is already over when the
  stream ends. In `StreamTimers` time passes in ticks of `ACK_SEND_PERIOD`, and only
  when neither end has anything to do (`~CanStep`): the programs are fast against their
  delays.
  There the network keeps the order and loses packets; duplication, reordering,
  windows and wraparound are `PingStream`'s.
- *Turns.* Between two turns of one `poll` the code lets no other task run; the
  model lets the ACK task run there. It has more interleavings, not fewer.
- *Buffers.* In `StreamReceiver` the order buffer is the bag of packets in it.
  Whether there is room depends on bytes already written and not yet given back,
  which `DataOrderer` has; here `MaxOrdered` bounds the packets kept while data is
  received, and `OrderCapacity` is the size against which the packets that come
  before the first ACK are checked (nothing is given back in that state). The
  sender's `read_buf` gives up cells in front of the first one a slice still holds;
  slices copied because they straddle the ring's end are treated like the others. `ack_wait`'s capacity is a constant no smaller
  than the window (the code reserves `window_size * mtu`).
- *One client.* The receiver accepts packets from any address; with one sender
  on the network this makes no difference. In `StreamTimers` senders follow one another.
- *Bytes.* `Datagrams` has bytes 0 and 1 (`Base`), so that a length of two bytes is at
  most 3 and a message can be too long; the checksum is a hash of length and bytes.
- *Errors.* In the stream mode an I/O error ends the process: the same as never acting
  again. In `Datagrams`, `Broadcast` and `NdpServer` they are steps (`SendFails`,
  `ReadInterrupted`, `StreamFails`, `InputFails`, a failed `New`, a send that ends with
  an error), except that clearing allmulti on drop succeeds.
- *Relaxed atomics.* `rx_count` and `tx_present` are relaxed. Each access is ordered
  by a lock that both sides take: the last receiver decrements and then takes
  `tx_task`'s lock, the sender takes it and then loads; the sender stores
  `tx_present` and then takes `rx_tasks`' lock, a receiver takes it and then loads.
  One of the two sees the other's access, which is what interleaved steps give.
- *Left out of rsndpproxy:* `PacketStats` (only printed), the numbering of receivers
  (each has a place of its own), `is_sender_present` (not called).
- The states `SendFinAck` and `WaitForLastAck` of the sender, and `SendFin`,
  `WaitForFinAck` and `SendLastAck` of the receiver (a termination by the
  server) are `unimplemented!()` in the code and unreachable.

## 3. Runs

| Configuration | Instance | Result |
|---|---|---|
| `RangeTracker.cfg` | positions 0..5, offset up to 6 | pass |
| `AckWaitlist.cfg` | 8 numbers from 3, 7 packets of which the sixth wraps, window 4 | pass |
| `PingStream.cfg` | window 2, 3 cells of input in packets of 1, two tries, numbers from 3 or from 13 of 16, which wrap between the first and the second data packet | pass |
| `PingStream_premature_fin.cfg` | 2 cells, packets of 1, numbers from 3 | violated |
| `TrimmingBuffer.cfg` | ring of 8 cells, capacity 7, 14 bytes | pass |
| `DataOrderer.cfg` | ring of 8 cells, window 4, packets of 1 or 2 bytes with an mtu of 2, 6 packets numbered from 3 or from 13 of 16, up to 5 behind the window's start | pass |
| `StreamTimers.cfg` | `PACKET_LOSS_TIMEOUT` 3 ticks, `CONNECTION_LOSS_TIMEOUT` 12, three tries, 2 data packets, 2 faults, 2 runs of the sender, `recv_buf` of 5 mtus | pass |
| `Datagrams.cfg` | 8 mixes of options, 3 inputs, 2 arrivals, 1 signal | pass |
| `Datagrams_binary_length.cfg` | the same | violated |
| `Broadcast.cfg` | 2 interfaces | pass |
| `NdpServer.cfg` | 4 sends, limit 3, room for 2 packets in the kernel | pass |
| `NdpFilter.cfg` | 20,000 packets, 5 lists of prefixes | pass |

Every configuration names the properties that matter for its question. The type
invariants of the modules with proofs are proved and not run; what only says what a
variable holds is stated nowhere else.

*RangeTracker.* `Normalised` (between two ranges there is a gap), `NeverPanics` and
the refinement `ImplementsPoints`. Six positions are enough for a range with a
neighbour on both sides and a third range apart; the offset bound lets a take follow
a take. The run stops at the bounds, hence no deadlock check.

*AckWaitlist.* `NamedAreAckedUntilTheWrap` relates the flags to the acknowledgements
received so far, as long as the numbers have not gone round; after that it fails, since
`remove` compares raw numbers. The refinement `ImplementsWaitlist` is checked in the
same instance, two packets past the wraparound.

*PingStream.* `DeliveredInOrder`; `AckedWasReceived` (what the sender will not send
again has arrived); `ClosedMeansDelivered` (an end that is closing has all that was
taken from the read buffer); `NewDataIsInWindow` (the receiver's filter never drops
data that is new); `WaitlistHasRoom` (the assertion in `AckWaitlist::add`). A window
of two with three cells makes the sender wait for the window, and retransmissions,
old acknowledgements and the FIN overtake one another; two tries let each handshake
time out once and then succeed, or fail. Deadlock is checked: a process that ended is
the `Ended` step. After a wraparound
(`Wrapped`) `AckedWasReceived`, `ClosedMeansDelivered` and `NewDataIsInWindow` say
nothing, because of the raw comparison; the other two are checked there too. At most one
packet may lie in the order buffer when another is received (`MaxOrdered`), which
is what a window of two needs.

*TrimmingBuffer.* `SlicesKeepTheirBytes` is the safety of the raw pointers;
`EveryByteIsAccountedFor` that handed-out bytes are under one live slice or tracked as
deleted, so that nothing is freed twice, and that `slice_to_range` finds a dropped
slice in the half and at the position its bytes have by then. A `VecDeque` of the code's
time has 2^k cells and a capacity of 2^k - 1, which is the ring here; today's has as many
cells as its capacity, which is the ring of `DataOrderer.cfg`. 14 bytes go around almost
twice, so that slices meet the end of the memory, which the code copies instead.

*DataOrderer.* `Receive` takes any position the peer may have sent that passes the
window filter, so duplicates and gaps are the normal case; with 6 packets `MaxLate` of 5
lets each of them arrive at any time. `PacketsKeepTheirBytes`: what
the heap holds can be read. `RoomIsHeldOrInTheGap` says why the receiver may stop
reading: a packet not yet written holds the oldest bytes, or the room left lies between
`mtu - header` and `mtu`, where it neither cleans up nor reads.
`TracksExactlyReceived` ties tracker, window start and what is reported to the history
of arrivals, across the end of the numbers too; `OnlyDuplicatesPanic` says that the
insertion panics for nothing but a duplicate behind a gap. A window
of 4 holds two ranges and a gap, the smallest case in which a duplicate is not
recognised; the run stops where the code panics or the peer has nothing left to send,
hence no deadlock check.

*StreamTimers.* `TimesOutForAReason` names the losses nothing repairs: an end times out
only after a SYN+ACK, the first ACK, the ACK of the last data, the FIN or the last ACK
was lost, or the input paused, or the socket was jammed; the loss of a SYN, of a data
packet, of a FIN+ACK or of another ACK is made good. `InputIsReadInTime`: input that
wakes nobody is read within a `PACKET_LOSS_TIMEOUT`, since the ack timer runs even when
nothing waits. `OverdueOnlyWhileJammed`: the connection timeout is late only while an
expired ack timer hides it, which takes a jammed socket with retransmissions queued.
`RecvBufLasts` bounds the panic on an exhausted `recv_buf` by the attempts abandoned.
`EndsStopWaiting`: with `WF` on the steps of the programs (tokio polls what is ready) and
on `Tick` (time passes) both ends end or the receiver waits for a new connection,
unless the socket is jammed for good. The ratio of the time-outs is the code's except
the connection's, 12 ticks here and 45 in the code: more than the three packet losses a
handshake takes, which is what the module assumes. Two faults let a loss meet a jam, or two
losses in one exchange, and are fewer than the tries, which `TimesOutForAReason` needs (as
it needs a `Patience` well below the connection's timeout); two runs and a `recv_buf` of
5 mtus let an attempt be abandoned and the next one panic. The sender splits its own `recv_buf` three times, which always
suffices here and is left out. Deadlock is checked, with `Ended`.

*Datagrams.* `PrintedWasCarried` is the framing and its inverse across two processes
with any options; `SentInOrder` that nothing is skipped or reordered, unless a read
splits the bytes of a length; `OneMoreAfterSignal` and `SignalEndsProcess` what a
signal does at every point, `OnlyEarlyOrShortPanic` which packets make the receiver
panic. `SignalEndsProcess` assumes `WF` on the steps of a process that is not asleep in
a call, on the return of an interrupted call and on that of a `recvfrom` with a packet in
the queue; a read of the standard input, a `sendto`, or a `recvfrom` with nothing to
receive may block for ever. So a signal that falls between the look at the flag and a
`recvfrom` is acted on at the next packet, and the property says so from that packet on. The lengths
0 to 4 with a largest of 3 give the empty, the longest and a too long message, and both bytes of a length set;
two arrivals let a packet that precedes the filter come before a proper one.
Deadlock is checked, with `Done`.

*Broadcast.* `NoQuitMissed` and `NoDepartureMissed` (no lost
wake-up in either direction), `NoServerPanics` (`expect("a quit signal")` fails only
after a signal stream has), and with fairness `SignalStopsServers` and
`SignalTaskEnds`. Two servers are enough for one to leave while the other
starts, or while it is the last. `WF` on the steps of each server, of the set-up and
of the signal task: tokio polls a task that was woken, and a task that runs is not
stopped half-way. Nothing is assumed of signals, packets and errors. Deadlock is
checked: the end of the process is the `Ended` step.

*NdpServer.* `QueueIsBounded`, `CountsSends`; `AllmultiRestored`, of servers that were
created (an error later in `Server::new` leaves the flag set, as `New` has it);
`OnlyDisplacedAreStranded` states the one way a send is lost at the reactor (TODO:26
knows of it); `QuitEndsServer` and `QueuedSendsEnd` with `WF` on the server's own
steps, on each send's poll and end, and on the kernel sending what it took.
`QueuedSendsEnd` speaks of the time after the server has quit: before, a newer send
may take the room for which an older one was woken. The limit of 3 with room for 2
lets two sends wait, so that one displaces the other, and a fourth name lets a
limit that is off by one show.

*NdpFilter.* `AnswersOnlyAcross` relates the answer to RFC 4861's rules, but for those
on the hop limit and the lengths of options, and to the prefixes;
`ResolutionsAreAnswered` says that a well-formed address resolution for an
address of the prefix, from outside, is answered. The prefixes include one of /123,
for which the low bits are compared, one of /120 around it, in both orders, and one of
/64; sources, targets and destinations are inside, outside and at the edges.

Only the six liveness properties named with `WF` above (`SignalStopsServers`,
`SignalTaskEnds`, `QuitEndsServer`, `QueuedSendsEnd`, `EndsStopWaiting`,
`SignalEndsProcess`) assume fairness; the others are safety properties.

## 4. Findings

Each is a violation run; `PROJECT.json` quotes the lines.

1. The sender sends its FIN with input left in the read buffer
   (`PingStream_premature_fin`): the last turn of the loop took a
   retransmission instead of input, the socket was not writable, and everything
   sent had been acknowledged.
2. The binary output of checked messages is preceded by their checksum, not by their
   length (`Datagrams_binary_length`).

Other divergences. The models follow the code in them, without a run that singles them
out:

- `is_range_tracked` stops at the first range left of the one it looks for, so a
  duplicate behind a gap counts as new (`OnlyDuplicatesPanic` bounds the harm);
- `AckWaitlist::remove` compares raw numbers: at a wraparound, an acknowledgement of
  65535 flags 0 as well, and the sender will not send it again (`Selected`). Its window
  may then move past the packet, and the receiver's filter drop new data (four cells
  show it);
- the receiver leaves `ReceivePackets` when its order is empty, without a look at the
  write in progress: the last packet's future is dropped (`Finished`);
- a FIN that is not answered is retransmitted as a SYN (`FinTimeout`, `SenderRetries`);
- no code checks that a solicitation's hop limit is 255, which RFC 4861, section 7.1.1,
  requires (`RfcValid` leaves it out): the packet filter and `Solicitation::parse` do not
  look at it, and the comment in `parse` names section 6.1.1;
- an error in `Server::new` after `set_allmulti` leaves the interface's flag set (`New`);
- a message whose `sendto` a signal interrupts is lost (`SendInterrupted`), and a short
  read of a length is taken for the length (`ReadLength`);
- a SYN that arrives again before the first ACK is kept as data (`KeepEarly`), and its
  number, before the next one to write, stays at the head of the heap;
- `Solicitation::parse` drops every solicitation from the unspecified address, valid
  duplicate address detection included, so that the warning about it cannot be given
  (`Parses`); `is_solicited_node_multicast` has `||` between its conditions;
- the receiver's check of `--window-size` (`ws < 1 && ws > 65536`) is never true (not
  modelled);
- `set_fd_nonblock(No)` keeps the one bit that it should clear and clears all others
  (`functions.rs:209`, not modelled). So the standard output stays nonblocking after
  `StdoutBytesWriter`, whose drop means to restore it (`drop_nonblock`, "unable to drop
  the nonblock flag on stdout"), and loses flags such as `O_APPEND`. Corrected there alone
  it would do harm: the writer of every packet is a clone, whose drop restores the flags
  too, and from the first finished write on the descriptor would block the one thread
  that runs everything.

## 5. Proofs

`RangeTracker_proofs` proves for every `MaxIndex` and `MaxOffset`:

- `TrackerInvariant`: `Spec => [](TypeOK /\ Normalised /\ AheadOfOffset)`;
- `TrackerNeverPanics`: `Spec => []NeverPanics`;
- `TrackerImplementsPoints`: `Spec => ImplementsPoints`.

The conjunction `TypeOK /\ Normalised /\ AheadOfOffset` is inductive: none of its
parts is alone. Merging needs a gap between stored ranges (`Normalised`) to know
that at most one range ends at `l - 1` and one begins at `r + 1`; `AheadOfOffset`
of a step that takes needs `Normalised` to know that every other range begins after
the one taken, and the next `Normalised` needs the caller's contract. The lemmas follow the
code: `FirstIsLeast` (the least range exists), `MergedRange` (what the union
of the new range and its neighbours is), `InsertFacts` (what is stored after an
insertion, what it covers, and that it meets nothing it cannot order),
`TrackRangeStep` and `TakeRangeStep` (one per action). The refinement maps
`points` to the positions covered and `base` to the offset. Assumptions: the two
bounds are natural numbers.

About `AckWaitlist`, for every size of the numbers, first number, count of packets and
window smaller than the numbers, it proves:

- `QueueImplementsFlaggedList`: `WaitlistSpec => ImplementsWaitlist`. An entry of the
  abstract list is flagged when the tracker covers its index. An acknowledgement flags
  in the list exactly the indices that `remove` tracks in its two parts, one after
  another (`tracked_i` is a fold); `cleanup`, which takes the leading run of the tracker
  and drains as many entries, is the removal of the leading flagged ones, and the
  indices after it are renumbered under the ranges that are left.
- `ExactlyTheNamedStopWaiting`: `NamedAreAckedUntilTheWrap`.

The invariant is `WaitInv`. Its part `ListOK` says that index i of the queue has the
number of the (offset + i)-th packet, that what is tracked lies in the queue and is
normalised, and that a packet not acknowledged is less than a window from the end: so
the raw comparisons select neighbours, and a cleanup of a full queue makes room. Its
part `NamedInv` is the history: until the numbers go round, the named packets are the
drained and the tracked ones.

`NdpServer_proofs`, for every limit, finite set of sends and room in the kernel:

- `QueueLimit`, `QueueCount`, `ServerTypes`: `QueueIsBounded`, `CountsSends`, `TypeOK`.
  `QueueInv` joins the count with the bound, which is not inductive alone: a place is
  taken before the limit is looked at and the send is spawned in a later step, so it
  also says that there is room for one more in flight when a send is to be spawned.
- `NoOtherStranded`: `OnlyDisplacedAreStranded`. The place of the waiting writer is
  the only one, so each step that takes it must put its holder into `displaced`.
- `FlagRestored`: `AllmultiRestored`, from what `drop_allmulti` remembers.

About `NdpFilter`, for any set of packets and lists of prefixes of any length:

- `OnlyAcrossIsAnswered`: `AnswersOnlyAcross`; what `parse` accepts is valid, and the
  answer is by a prefix with the target inside and the source outside.
- `EveryResolutionIsAnswered`: `ResolutionsAreAnswered`. The work is arithmetic: if a
  prefix holds the target, the low bits `is_solicited_node_multicast` compares, masked
  and shifted in two 16-bit segments, are those of the target's solicited-node address
  (`SeventhAgrees`, `EighthAgrees`), for each length from 0 to 128.

`NdpFilterAssumption` only says that targets and prefixes are addresses of eight
segments and lengths up to 128.

`Broadcast_proofs`, for every number of interfaces:

- `ReceiversCounted` (`CountInv`): the holders of receivers, the original one
  included, as a finite set whose size each step changes with `rx_count`.
- `QuitReachesServers` (`QuitInv`): besides the property, that an idle server is due
  to run or has its task stored, and that one that is about to read the message has:
  a message stored after that read finds the task.
- `DepartureReachesSender` (`SenderInv`): the sender's task is stored whenever it
  waits, and a count of zero is still to be told.
- `FastStaysFast` (`FastInv`): after a fast quit `fast_quit_sent` holds and nothing
  but that quit is to be sent.
- `ServersDoNotPanic` (`PanicInv`): with `CountInv`, that the signal task leaves only
  at a count of zero, and that no server is left to start then, since the servers
  start in order and the last takes the original receiver.

Each invariant is proved one action, or one group of actions, at a time. The
assumptions are those of the modules: at least one interface; natural numbers, and
as many send names as the limit.

`DataOrderer_proofs`, for every buffer, window, mtu and lengths of packets:

- `OrderedPacketsStayGood`: `PacketsKeepTheirBytes`, from the buffer invariant below for
  the slices of the heap and of the packet being written (`BytesInv`).
- `RoomReasons`: `RoomIsHeldOrInTheGap`. After a cleanup the oldest stored byte, if there
  is one, is under a slice (`CleanUpFacts`), and an empty buffer has room.
- `TrackerIsExact`, `NewPacketsDoNotPanic`: `TracksExactlyReceived` and
  `OnlyDuplicatesPanic`. `SeqnosInv` says that the window starts at the number of the
  tracker's offset, that what is tracked is what arrived and that it lies in the window.
  They assume `WindowOK`, `MaxLate + Window <= SeqMod`: a packet so late that its number
  is in the window again would be taken for a new one, which no check of the code
  prevents. In the code it takes a packet delayed until 65536 others less a window
  have been sent.

About `TrimmingBuffer` it proves, for every ring and capacity:

- `LiveSlicesStayGood`, `NoByteFreedTwiceOrLost`: `SlicesKeepTheirBytes` and
  `EveryByteIsAccountedFor`. The invariant (`BufferOK`, `SlicesOK` of `OpsLemmas`) ties
  the cells to the numbers of the bytes in them: byte number n of the stored ones lies in
  cell n modulo the ring, a slice starts at the cell of its first byte, slices are
  disjoint and none meets the deleted ranges. `AddFacts`, `HandOutFacts`, `DropFacts` and
  `CleanUpFacts` say that each operation keeps it, around the end of the ring too.

`PingStream_proofs`, for windows, packets, buffers, inputs and numbers of tries of any
size, on the network that loses, repeats, delays and reorders at will:

- `EveryPacketHasRoom`: `WaitlistHasRoom`. The packets waiting carry consecutive numbers
  up to the next one, and those not acknowledged, with the one about to be sent, are no
  more than a window (`WaitOK`); so a cleanup of a full list always drops something. The
  hypothesis `WindowIsSmaller` (`SenderWindow < SeqMod`) leaves out the window of all
  65536 numbers, for which the window is never found full (section 7).
- `InputIsWrittenInOrder`: `DeliveredInOrder`. `Numbering` says that there are a first
  number, a number of data packets made so far and the places where the input was cut,
  such that every packet on the network, to be sent, waiting, or queued again has the
  cells its number says, and the receiver has written those of a first few packets.
  These are quantified and not variables: the program does not keep them. A step of the
  sender may make one more packet (`NumberedSends`), a step of the receiver writes the
  packet with the next number, which only that packet has (`ReachesNext`). The hypothesis
  `ConnectionIsShort` (`InputLen + 3 < SeqMod`) says that the numbers do not go round:
  the model's network keeps every packet for ever, and after a round a copy of an
  old one is taken for new, as the code would take it.
- `AckedDataWasReceived`: `AckedWasReceived`; `ClosingWaitsForDelivery`:
  `ClosedMeansDelivered`; `NewDataPassesTheFilter`: `NewDataIsInWindow`. The invariant
  `FlowInv` joins to `Numbering` what each end knows of the other:
  - `TrackInv`: from the answer to the SYN on, the receiver's tracker holds positions of
    packets that arrived, and its window starts at the number of the tracker's offset;
  - `AckInv`: the ACK sending task and every ACK on the network name only numbers in
    `Reported`, those tracked that are not the window's start, and one with WS names all
    from the first on. `Reported` only grows, so old and repeated ACKs stay true;
  - `SendInv`: until the numbers go round, a packet made is in `Reported` or waiting, for
    the raw comparisons of `remove` and of the WS flag select, then, only what the ACK
    names (`SyncedIsNamed`); packets more than a window back are in `Reported`;
  - `FinInv`: the receiver knows of a FIN only if the sender has closed, and once it
    answers, its order buffer is empty; the sender takes only that for an answer.

  No part is inductive alone: that the sender's list lost nothing needs the ACKs to be
  true, these need the tracker, and that no packet has the number of the window's start
  needs `Numbering`. All three assume `ConnectionIsShort`, and the properties' own
  `~Wrapped` is where the raw comparisons are right (`FlatUntilWrapped`); the last also
  assumes `WindowFits`, `SenderWindow <= ReceiverWindow`. Each program has an option for
  its window and nothing compares them; the defaults are equal. With a larger window at
  the sender the receiver drops what lies beyond its own, to be sent again.

A turn of the sender's loop is too large for one step of a proof: `SendDataIsATurn`
splits `SendData` into the seven functions it composes, and what each of them may do
(`Keeps`, `Fills`, `Sends`, `Flushes`, `Acks`, `Requeues`) is all that the later proofs
see of it.

`Datagrams_proofs`, for all options, inputs and packets of other programs:

- `SignalStopsProcess`: `OneMoreAfterSignal`; `PrintsOnlyMessages`: `PrintedWasCarried`;
  `PanicsHaveACause`: `OnlyEarlyOrShortPanic`. `SignalInv` says in which places of the
  loops a flag that is set has not been looked at yet, `DatagramInv` what a queued packet
  may be before and after the filter is set. The assumptions `InputsAssumption` and
  `ForeignAssumption` say that inputs and packets are sequences of bytes.
- `MessagesGoOutInOrder`: `SentInOrder`. The invariant `OrderInv` says where in the
  input the sender is: what is sent is the first messages of the input, and for some j
  what is left on the standard input is the framing of the messages after the j-th
  (`AtMessage`), of which the one at hand is read, checked or being sent. A `sendto`
  that a signal interrupts loses its message and reports success, so that the prefix is
  one short (`SentUpTo`); what saves the order is that the flag is up by then and the
  next message is not sent: a sender woken by a signal has its flag up. The lengths
  read are the ones written because both bytes come together (`LengthReadIsWhole`)
  unless `split` says otherwise.

The framed input is a fold over the messages, and what a fold computes would need
induction. The proof goes down instead: if some prefix of the messages had no framing of
the form wanted, there would be a shortest one (`LeastNat`), and one message less would
have it (`FramingIterates`, `PartsExist`, `RestsExist`).

`StreamTimers_proofs`, for every setting of the timers in which the connection's timeout
is longer than the tries of a handshake, and any numbers of packets, faults and runs:

- `RecvBufServesAttempts`: `RecvBufLasts`. `SplitsInv` counts, per state of the receiver,
  the mtus that the state and the attempts before it have split off `recv_buf`: a
  connection takes four, an attempt abandoned in `WaitForAck` two.
- `InputDoesNotLieUnread`: `InputIsReadInTime`. `UnreadInv` says that, as long as the
  socket was not jammed, input has lain unread for no longer than the ack timer has run:
  every step that sets that timer again polls `SendData`, which reads the input.
- `OverdueForAReason`: `OverdueOnlyWhileJammed`, an action property. Time passes only
  when no step can be done; with the connection's timeout expired and nothing
  jammed, `CanSenderTimeOut` or a step before it in the order of `poll_timeout` can.

What is only model-checked, and why:

- the six liveness properties: fairness is not in the prover's reach;
- `TimesOutForAReason` of `StreamTimers`: it holds with fewer faults than tries and
  with a `Patience`, from which a pause of the input counts as a reason, well below the
  connection's timeout, as in the instance. Without these
  bounds, losses that are repaired one by one may add up to a timeout. With them, its
  proof needs the time left at each end as a function of every packet in flight,
  through all pairs of states.

## 6. Plan

Done: the data structures, the two ends of the stream, their composition and their
timers, the buffers, the standard streams, the datagram mode, the broadcast, the
proxy's server and filter, the proofs of section 5, which leave of the safety properties
one that the runs alone check. Next:

1. *Larger instances:* packets of several sizes in the composition.
2. *Proofs:* `TimesOutForAReason`, under a bound on the faults.

## 7. Not modelled

- *A window of all 65536 numbers,* for which the equality in the window check is never
  met: an instance needs as many packets as numbers, beyond what TLC can explore with
  the rest of the protocol.
- *The result of `AckWaitlist::remove` when a wrapping range misses its first part:* it
  only resets timers; `PingStream`, which wraps, lets them fire at will, `StreamTimers`
  does not wrap.
- *Command lines, configuration files, capabilities, seccomp, the pid file,
  daemonising, name resolution:* sequential code that runs once, in order, and keeps no
  state.
- *Wrappers of single system calls and kernel structures* (`linux_network`'s `bpf`,
  `structs`, `constants` and most of `functions`), `SendBox`, error types: no behaviour
  of their own. What the models use of them is part of the action that calls them.
- *The flags of the standard output's descriptor:* they change in one function, whose
  mistake (section 4) is all that could be said of them; the models write any number of
  bytes at any time, and never block in it, which is what the code has because of it.
- *The flush of the standard output's line buffer at exit,* and whatever the kernel does
  with bytes once written.
- *Code nothing calls:* `request_timeless`, `is_sender_present`, and the states that
  are `unimplemented!()`.
