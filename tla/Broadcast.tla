------------------------------ MODULE Broadcast -----------------------------
(***************************************************************************)
(* How rsndpproxy quits: the broadcaster of src/broadcast.rs, its sender,  *)
(* held by the task that awaits the signals (handle_signals of main.rs),   *)
(* and its receivers, each moved into a Server that handle_requests        *)
(* starts.  All of them run on tokio's thread pool, in parallel: an action *)
(* is what one task does under one lock or with one atomic.                *)
(*                                                                         *)
(* Every lock is held by a single step and every relaxed load is followed  *)
(* or preceded by a lock the matching store's thread takes too, so the     *)
(* interleavings of these steps are those of the code.                     *)
(***************************************************************************)
EXTENDS Integers, FiniteSets

CONSTANT NumInterfaces   \* config.interfaces.len(), which is not zero

ASSUME NumInterfacesAssumption == NumInterfaces \in Nat \ {0}

VARIABLES
  message,     \* message: the last quit kind sent, "None" before
  rxTasks,     \* rx_tasks: the receivers whose task is stored
  txTask,      \* tx_task: the sender's task is stored
  rxCount,     \* rx_count
  txPresent,   \* tx_present
  runnable,    \* external: the tasks tokio has been told to poll
  delivered,   \* external: signals not yet taken from their streams
  started,     \* handle_requests: interfaces it is done with
  server,      \* where each server's task is
  panicked,    \* servers whose poll panicked
  signals      \* the fields of the signal task and where it is

vars == <<message, rxTasks, txTask, rxCount, txPresent, runnable, delivered,
          started, server, panicked, signals>>

inner == <<message, rxTasks, txTask, rxCount, txPresent>>

Server == 1..NumInterfaces
SignalTask == 0

(* A server before its receiver is dropped, and while it is.               *)
Alive == {"idle", "check", "read"}
Counted == Alive \cup {"dropping", "leaving"}

(* The original receiver is kept for the last interface; the sender's task *)
(* has been spawned.                                                       *)
Init ==
  /\ message = "None"
  /\ rxTasks = {}
  /\ txTask = FALSE
  /\ rxCount = 1
  /\ txPresent = TRUE
  /\ runnable = {SignalTask}
  /\ delivered = {}
  /\ started = 0
  /\ server = [i \in Server |-> "unborn"]
  /\ panicked = {}
  /\ signals = [at |-> "send", toSend |-> "None", fastSent |-> FALSE,
                active |-> FALSE, failed |-> FALSE]

Goto(i, place) == server' = [server EXCEPT ![i] = place]

-----------------------------------------------------------------------------
(* handle_requests: a receiver for the next interface, then its server; if *)
(* Server::new fails, the receiver it was given is dropped on the spot.    *)

StartServer_NoCount(i) ==   \* mutant: a clone that is not counted
  /\ i = started + 1
  /\ server[i] = "unborn"
  /\ \/ Goto(i, "idle") /\ runnable' = runnable \cup {i} /\ started' = i
     \/ Goto(i, "dropping") /\ UNCHANGED <<runnable, started>>
  /\ UNCHANGED <<inner, delivered, panicked, signals>>

StartServer(i) ==
  /\ i = started + 1
  /\ server[i] = "unborn"
  /\ rxCount' = IF i < NumInterfaces THEN rxCount + 1 ELSE rxCount
  /\ \/ Goto(i, "idle") /\ runnable' = runnable \cup {i} /\ started' = i
     \/ Goto(i, "dropping") /\ UNCHANGED <<runnable, started>>
  /\ UNCHANGED <<message, rxTasks, txTask, txPresent, delivered, panicked, signals>>

SkipFailed(i) ==
  /\ i = started + 1
  /\ server[i] = "gone"
  /\ started' = i
  /\ UNCHANGED <<inner, runnable, delivered, server, panicked, signals>>

-----------------------------------------------------------------------------
(* Server::poll, as far as the receiver goes: Receiver::poll, then what    *)
(* the server does with the answer.                                        *)

PollServer_NoTask(i) ==   \* mutant: the task is not stored
  /\ i \in runnable /\ server[i] = "idle"
  /\ runnable' = runnable \ {i}
  /\ Goto(i, "check")
  /\ UNCHANGED <<inner, delivered, started, panicked, signals>>

PollServer(i) ==
  /\ i \in runnable /\ server[i] = "idle"
  /\ runnable' = runnable \ {i}
  /\ rxTasks' = rxTasks \cup {i}
  /\ Goto(i, "check")
  /\ UNCHANGED <<message, txTask, rxCount, txPresent, delivered, started, panicked, signals>>

(* tx_present is false: Ready(None), and qk.expect("a quit signal") panics *)
(* in the server, whose task tokio then drops.                             *)
CheckSender(i) ==
  /\ server[i] = "check"
  /\ IF txPresent
     THEN Goto(i, "read") /\ UNCHANGED panicked
     ELSE Goto(i, "dropping") /\ panicked' = panicked \cup {i}
  /\ UNCHANGED <<inner, runnable, delivered, started, signals>>

(* With a message the server is Ready and is dropped; without, it goes on  *)
(* to its input, and ends there if that fails.                             *)
ReadMessage(i) ==
  /\ server[i] = "read"
  /\ \/ message # "None" /\ Goto(i, "dropping")
     \/ message = "None" /\ \E place \in {"idle", "dropping"} : Goto(i, place)
  /\ UNCHANGED <<inner, runnable, delivered, started, panicked, signals>>

(* A solicitation has arrived: tokio polls the server's task again.        *)
InputReady(i) ==
  /\ server[i] \in Alive
  /\ runnable' = runnable \cup {i}
  /\ UNCHANGED <<inner, delivered, started, server, panicked, signals>>

(* Receiver::drop: its task taken out, the count decremented, and the last *)
(* one wakes the sender.                                                   *)
Deregister(i) ==
  /\ server[i] = "dropping"
  /\ rxTasks' = rxTasks \ {i}
  /\ Goto(i, "leaving")
  /\ UNCHANGED <<message, txTask, rxCount, txPresent, runnable, delivered, started,
                 panicked, signals>>

Leave_NoNotify(i) ==   \* mutant: the last receiver leaves in silence
  /\ server[i] = "leaving"
  /\ rxCount' = rxCount - 1
  /\ Goto(i, "gone")
  /\ UNCHANGED <<message, rxTasks, txTask, txPresent, runnable, delivered, started,
                 panicked, signals>>

Leave(i) ==
  /\ server[i] = "leaving"
  /\ rxCount' = rxCount - 1
  /\ Goto(i, IF rxCount = 1 THEN "notifying" ELSE "gone")
  /\ UNCHANGED <<message, rxTasks, txTask, txPresent, runnable, delivered, started,
                 panicked, signals>>

NotifySender(i) ==
  /\ server[i] = "notifying"
  /\ runnable' = IF txTask THEN runnable \cup {SignalTask} ELSE runnable
  /\ Goto(i, "gone")
  /\ UNCHANGED <<inner, delivered, started, panicked, signals>>

-----------------------------------------------------------------------------
(* The signal task: a turn of handle_signals' loop sends what is to be     *)
(* sent, takes the signals, and looks whether anyone still listens.        *)

At(place) == signals.at = place
Moved(place) == [signals EXCEPT !.at = place]

PollSignalTask ==
  /\ SignalTask \in runnable /\ At("idle")
  /\ runnable' = runnable \ {SignalTask}
  /\ signals' = Moved("send")
  /\ UNCHANGED <<inner, delivered, started, server, panicked>>

(* Sender::start_send: the message is replaced, then the receivers woken.  *)
StartSend ==
  /\ At("send") /\ signals.toSend # "None"
  /\ txTask' = TRUE
  /\ message' = signals.toSend
  /\ signals' = [Moved("notify") EXCEPT !.toSend = "None"]
  /\ UNCHANGED <<rxTasks, rxCount, txPresent, runnable, delivered, started, server, panicked>>

NothingToSend ==
  /\ At("send") /\ signals.toSend = "None"
  /\ signals' = [Moved("poll") EXCEPT !.active = FALSE]
  /\ UNCHANGED <<inner, runnable, delivered, started, server, panicked>>

NotifyReceivers ==
  /\ At("notify")
  /\ runnable' = runnable \cup rxTasks
  /\ signals' = [Moved("poll") EXCEPT !.active = TRUE]
  /\ UNCHANGED <<inner, delivered, started, server, panicked>>

(* SIGINT is polled first, SIGTERM overrides it and is the last taken.     *)
Quit(taken) == IF "SIGTERM" \in taken THEN "Fast" ELSE "Normal"

PollStreams ==
  /\ At("poll") /\ ~signals.fastSent /\ delivered # {}
  /\ delivered' = {}
  /\ signals' = [Moved("fill") EXCEPT !.active = TRUE, !.toSend = Quit(delivered),
                                      !.fastSent = "SIGTERM" \in delivered]
  /\ UNCHANGED <<inner, runnable, started, server, panicked>>

NothingDelivered ==
  /\ At("poll") /\ (signals.fastSent \/ delivered = {})
  /\ signals' = Moved("fill")
  /\ UNCHANGED <<inner, runnable, delivered, started, server, panicked>>

(* Error::SignalIOError: the task ends and the sender is dropped.          *)
StreamFails ==
  /\ At("poll") /\ ~signals.fastSent
  /\ signals' = [Moved("drop") EXCEPT !.failed = TRUE]
  /\ UNCHANGED <<inner, runnable, delivered, started, server, panicked>>

(* Sender::are_receivers_present: the task is stored before the count is   *)
(* looked at.                                                              *)
StoreSenderTask ==
  /\ At("fill")
  /\ txTask' = TRUE
  /\ signals' = Moved("count")
  /\ UNCHANGED <<message, rxTasks, rxCount, txPresent, runnable, delivered, started,
                 server, panicked>>

CountReceivers ==
  /\ At("count")
  /\ signals' = Moved(IF rxCount = 0 THEN "drop"
                      ELSE IF signals.active THEN "send" ELSE "idle")
  /\ UNCHANGED <<inner, runnable, delivered, started, server, panicked>>

(* Sender::drop. *)
TakeMessage ==
  /\ At("drop")
  /\ txTask' = FALSE
  /\ message' = "None"
  /\ signals' = Moved("absent")
  /\ UNCHANGED <<rxTasks, rxCount, txPresent, runnable, delivered, started, server, panicked>>

MarkAbsent ==
  /\ At("absent")
  /\ txPresent' = FALSE
  /\ signals' = Moved("last")
  /\ UNCHANGED <<message, rxTasks, txTask, rxCount, runnable, delivered, started, server,
                 panicked>>

LastNotify ==
  /\ At("last")
  /\ runnable' = runnable \cup rxTasks
  /\ signals' = Moved("done")
  /\ UNCHANGED <<inner, delivered, started, server, panicked>>

(* A signal arrives; the stream wakes the task.                            *)
Deliver(s) ==
  /\ ~At("done")
  /\ delivered' = delivered \cup {s}
  /\ runnable' = runnable \cup {SignalTask}
  /\ UNCHANGED <<inner, started, server, panicked, signals>>

-----------------------------------------------------------------------------
SetUp(i) == StartServer(i) \/ SkipFailed(i)

ServerStep(i) ==
  \/ PollServer(i) \/ CheckSender(i) \/ ReadMessage(i)
  \/ Deregister(i) \/ Leave(i) \/ NotifySender(i)

SignalStep ==
  \/ PollSignalTask \/ StartSend \/ NothingToSend \/ NotifyReceivers
  \/ PollStreams \/ NothingDelivered \/ StreamFails
  \/ StoreSenderTask \/ CountReceivers
  \/ TakeMessage \/ MarkAbsent \/ LastNotify

(* The process ends when every task has.                                   *)
Ended == signals.at = "done" /\ \A i \in Server : server[i] = "gone"

Next ==
  \/ \E i \in Server : SetUp(i) \/ ServerStep(i) \/ InputReady(i)
  \/ SignalStep
  \/ \E s \in {"SIGINT", "SIGTERM"} : Deliver(s)
  \/ Ended /\ UNCHANGED vars

(* tokio polls every task it was told to, and a task that runs goes on     *)
(* running; nobody need send a signal or a packet.                         *)
Fairness ==
  /\ \A i \in Server : WF_vars(SetUp(i)) /\ WF_vars(ServerStep(i))
  /\ WF_vars(SignalStep)

Spec == Init /\ [][Next]_vars /\ Fairness

-----------------------------------------------------------------------------
(* rx_count is the number of receivers there are, the original one that    *)
(* handle_requests still holds included: the sender relies on it to end,   *)
(* and a count that is wrong ends it early or never.                       *)
CountsReceivers ==
  rxCount = Cardinality({i \in Server : server[i] \in Counted})
              + (IF server[NumInterfaces] = "unborn" THEN 1 ELSE 0)

(* No lost wake-up towards a server: one that waits while a quit message   *)
(* is there has been, or is just being, told to look.                      *)
NoQuitMissed ==
  \A i \in Server :
     server[i] = "idle" /\ message # "None" => i \in runnable \/ At("notify")

(* No lost wake-up towards the sender: it never waits when the last        *)
(* receiver has left, unless that one is about to wake it.                 *)
NoDepartureMissed ==
  rxCount = 0 /\ At("idle") =>
    SignalTask \in runnable \/ \E i \in Server : server[i] = "notifying"

(* expect("a quit signal") holds as long as the signal streams work: no    *)
(* server looks for a message after the sender has gone.                   *)
NoServerPanics == panicked # {} => signals.failed

(* handle_signals stops listening after a SIGTERM: a fast quit is never    *)
(* turned into a normal one.                                               *)
FastIsFinal == [][message = "Fast" => message' # "Normal"]_vars

(* Every delivered signal stops every server, those not yet started        *)
(* included.                                                               *)
SignalStopsServers == delivered # {} ~> \A i \in Server : server[i] = "gone"

(* When the last server is gone the signal task ends, and with it the      *)
(* process.                                                                *)
SignalTaskEnds == (\A i \in Server : server[i] = "gone") ~> signals.at = "done"
=============================================================================
