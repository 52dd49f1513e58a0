------------------------------ MODULE NdpServer -----------------------------
(***************************************************************************)
(* One Server of rsndpproxy (src/server.rs) and the sends it spawns: the   *)
(* loop that answers solicitations until it is told to quit, the counter   *)
(* that limits the answers queued, and the tasks that send them, which     *)
(* share one raw socket (linux_network's IPv6RawSocketAdapter) and run on  *)
(* tokio's thread pool in parallel with the server and each other.         *)
(*                                                                         *)
(* PacketStats is left out: its counters are only ever printed.            *)
(***************************************************************************)
EXTENDS Integers, FiniteSets

CONSTANTS
  Sends,        \* names for send tasks, reused once a task is over
  MaxQueued,    \* max_queued of the interface's configuration
  KernelRoom    \* packets the socket's send buffer holds

ASSUME NdpServerAssumption ==
  /\ MaxQueued \in Nat /\ KernelRoom \in Nat \ {0}
  /\ IsFiniteSet(Sends) /\ Cardinality(Sends) >= MaxQueued

VARIABLES
  server,       \* where the server's task is
  quit,         \* the receiver has a message
  allmulti,     \* external: the interface's IFF_ALLMULTI
  drop,         \* drop_allmulti
  queued,       \* queued_sends
  send,         \* where each send task is
  runnable,     \* external: the send tasks tokio has been told to poll
  ready,        \* external: PollEvented's write readiness, cached or new
  writer,       \* external: the one task the reactor wakes, in a set, or none
  room,         \* external: packets the kernel still takes
  wasAllmulti,  \* history: allmulti when the server was created
  displaced     \* history: sends whose place as writer another one took

sockVars == <<ready, writer, room, displaced>>
taskVars == <<send, runnable>>
flagVars == <<allmulti, drop, wasAllmulti>>
vars == <<server, quit, queued, sockVars, taskVars, flagVars>>

NoWriter == {}

Init ==
  /\ server = "new"
  /\ quit = FALSE
  /\ allmulti \in BOOLEAN /\ wasAllmulti = allmulti
  /\ drop = FALSE
  /\ queued = 0
  /\ send = [t \in Sends |-> "free"]
  /\ runnable = {}
  /\ ready = TRUE
  /\ writer = NoWriter
  /\ room = KernelRoom
  /\ displaced = {}

Live == {t \in Sends : send[t] # "free"}

-----------------------------------------------------------------------------
(* Server::new: setup_recv_socket turns allmulti on and notes whether it   *)
(* was off.  A call before that or after it may fail, and then there is no *)
(* Server to drop.                                                         *)
New ==
  /\ server = "new"
  /\ \/ server' = "idle" /\ allmulti' = TRUE /\ drop' = ~allmulti
     \/ server' = "failed" /\ allmulti' \in {allmulti, TRUE} /\ UNCHANGED drop
  /\ UNCHANGED <<quit, queued, wasAllmulti, sockVars, taskVars>>

(* Server::drop. *)
DropServer_Always ==   \* mutant: allmulti dropped whoever set it
  /\ server' = "gone"
  /\ allmulti' = FALSE
  /\ UNCHANGED <<queued, drop, wasAllmulti, sockVars, taskVars, quit>>

DropServer ==
  /\ server' = "gone"
  /\ allmulti' = IF drop THEN FALSE ELSE allmulti
  /\ UNCHANGED <<queued, drop, wasAllmulti, sockVars, taskVars, quit>>

(* A turn of Server::poll's loop looks at quit first, then at the input.   *)
QuitServer == server = "idle" /\ quit /\ DropServer

InputFails == server = "idle" /\ ~quit /\ DropServer

(* A solicitation passes the filters: fetch_add, which returns the count   *)
(* before it.                                                              *)
CountSend_OneMore ==   \* mutant: > for >=
  /\ server = "idle" /\ ~quit
  /\ queued' = queued + 1
  /\ server' = IF queued > MaxQueued THEN "reject" ELSE "spawn"
  /\ UNCHANGED <<quit, sockVars, taskVars, flagVars>>

CountSend_InputFirst ==   \* mutant: the input is looked at before quit
  /\ server = "idle"
  /\ queued' = queued + 1
  /\ server' = IF queued >= MaxQueued THEN "reject" ELSE "spawn"
  /\ UNCHANGED <<quit, sockVars, taskVars, flagVars>>

CountSend ==
  /\ server = "idle" /\ ~quit
  /\ queued' = queued + 1
  /\ server' = IF queued >= MaxQueued THEN "reject" ELSE "spawn"
  /\ UNCHANGED <<quit, sockVars, taskVars, flagVars>>

RejectSend ==
  /\ server = "reject"
  /\ queued' = queued - 1
  /\ server' = "idle"
  /\ UNCHANGED <<quit, sockVars, taskVars, flagVars>>

SpawnSend(t) ==
  /\ server = "spawn" /\ send[t] = "free"
  /\ send' = [send EXCEPT ![t] = "sending"]
  /\ runnable' = runnable \cup {t}
  /\ server' = "idle"
  /\ UNCHANGED <<quit, queued, sockVars, flagVars>>

-----------------------------------------------------------------------------
(* A poll of IPv6RawSocketSendtoFuture: sendto_direct under write_lock.    *)

(* poll_write_ready: a task that has to wait is the one to be woken, in    *)
(* the place of the one that was.                                          *)
Wait(t) ==
  /\ writer' = {t}
  /\ displaced' = (displaced \cup writer) \ {t}
  /\ UNCHANGED <<send, room>>

PollNotReady(t) == ~ready /\ Wait(t) /\ UNCHANGED ready

(* EAGAIN: clear_write_ready, which polls the readiness again.             *)
PollWouldBlock_NoWait(t) ==   \* mutant: readiness cleared, nobody to wake
  /\ ready /\ room = 0
  /\ ready' = FALSE
  /\ UNCHANGED <<send, room, writer, displaced>>

PollWouldBlock(t) == ready /\ room = 0 /\ ready' = FALSE /\ Wait(t)

(* Sent, or an error that is logged: either way the future is over.        *)
PollDone(t) ==
  /\ ready
  /\ send' = [send EXCEPT ![t] = "sent"]
  /\ room' \in {room} \cup (IF room > 0 THEN {room - 1} ELSE {})
  /\ displaced' = displaced \ {t}
  /\ UNCHANGED <<ready, writer>>

PollSend(t) ==
  /\ t \in runnable /\ send[t] = "sending"
  /\ runnable' = runnable \ {t}
  /\ PollNotReady(t) \/ PollWouldBlock(t) \/ PollDone(t)
  /\ UNCHANGED <<server, quit, queued, flagVars>>

(* .then(): the place in the queue is given back.                          *)
Uncount_Forgotten(t) ==   \* mutant: the place is kept
  /\ send[t] = "sent"
  /\ send' = [send EXCEPT ![t] = "free"]
  /\ UNCHANGED <<server, quit, queued, runnable, sockVars, flagVars>>

Uncount(t) ==
  /\ send[t] = "sent"
  /\ queued' = queued - 1
  /\ send' = [send EXCEPT ![t] = "free"]
  /\ UNCHANGED <<server, quit, runnable, sockVars, flagVars>>

-----------------------------------------------------------------------------
(* The kernel sends a packet: the socket is writable again and the reactor *)
(* wakes the one task it has.                                              *)
Drain ==
  /\ room < KernelRoom
  /\ room' = room + 1
  /\ ready' = TRUE
  /\ runnable' = runnable \cup writer
  /\ writer' = NoWriter
  /\ UNCHANGED <<server, quit, queued, send, displaced, flagVars>>

ReceiveQuit ==
  /\ ~quit
  /\ quit' = TRUE
  /\ UNCHANGED <<server, queued, sockVars, taskVars, flagVars>>

(* Nothing is left to run: the process is over unless a send still waits.  *)
Ended ==
  /\ server \in {"gone", "failed"} /\ quit
  /\ room = KernelRoom /\ runnable = {} /\ \A t \in Live : send[t] = "sending"

ServerStep ==
  New \/ QuitServer \/ RejectSend \/ \E t \in Sends : SpawnSend(t)

Next ==
  \/ ServerStep \/ InputFails \/ CountSend
  \/ \E t \in Sends : PollSend(t) \/ Uncount(t)
  \/ Drain \/ ReceiveQuit
  \/ Ended /\ UNCHANGED vars

(* tokio runs what it was told to, and the kernel sends what it took; no   *)
(* packet or signal need come.                                             *)
Fairness ==
  /\ WF_vars(ServerStep)
  /\ \A t \in Sends : WF_vars(PollSend(t)) /\ WF_vars(Uncount(t))
  /\ WF_vars(Drain)

Spec == Init /\ [][Next]_vars /\ Fairness

-----------------------------------------------------------------------------
TypeOK ==
  /\ server \in {"new", "failed", "idle", "reject", "spawn", "gone"}
  /\ {quit, allmulti, drop, ready, wasAllmulti} \subseteq BOOLEAN
  /\ queued \in 0..MaxQueued + 1
  /\ send \in [Sends -> {"free", "sending", "sent"}]
  /\ runnable \subseteq Sends /\ displaced \subseteq Sends
  /\ writer \subseteq Sends /\ Cardinality(writer) <= 1
  /\ room \in 0..KernelRoom

(* The limit holds although the counter is raised before it is looked at:  *)
(* there are never more answers in flight than max_queued.                 *)
QueueIsBounded == Cardinality(Live) <= MaxQueued

(* queued_sends is the number of answers in flight and the one being       *)
(* counted: a place that leaked would be lost until the process ends.      *)
CountsSends ==
  queued = Cardinality(Live) + (IF server \in {"reject", "spawn"} THEN 1 ELSE 0)

(* A send that waits will be woken, unless another one took its place at   *)
(* the reactor: the only way one is stranded.                              *)
OnlyDisplacedAreStranded ==
  \A t \in Sends :
     send[t] = "sending" => t \in runnable \cup writer \cup displaced

(* Server::drop returns the interface's allmulti flag to the state         *)
(* Server::new found it in.  It is about servers that were created: an     *)
(* error later in Server::new leaves the flag set (New).                   *)
AllmultiRestored == server = "gone" => allmulti = wasAllmulti

(* A quit ends the server however many solicitations keep coming and       *)
(* whatever the sends are doing.                                           *)
QuitEndsServer == quit /\ server \notin {"new", "failed"} ~> server = "gone"

(* Once the server is gone the answers it queued are sent, or fail, and    *)
(* the process can end: all but the displaced.  While solicitations keep   *)
(* coming, a newer answer may take the room a woken one waited for.        *)
QueuedSendsEnd ==
  \A t \in Sends :
     server = "gone" /\ send[t] = "sending" ~> send[t] = "free" \/ t \in displaced
=============================================================================
