--------------------------- MODULE Broadcast_proofs --------------------------
(***************************************************************************)
(* Proofs about the broadcast of module Broadcast, for any number of       *)
(* interfaces: the count of receivers, and the wake-ups in both            *)
(* directions.                                                             *)
(***************************************************************************)
EXTENDS Broadcast, FiniteSetTheorems, TLAPS

Holders == {i \in Server : server[i] \in Counted}
Original == IF server[NumInterfaces] = "unborn" THEN 1 ELSE 0

-----------------------------------------------------------------------------
(* The count of receivers.                                                 *)

Places == {"unborn", "notifying", "gone"} \cup Counted

CountInv ==
  /\ server \in [Server -> Places]
  /\ rxCount \in Nat
  /\ rxCount = Cardinality(Holders) + Original

(* Holders is a finite set. *)
LEMMA HoldersFinite == IsFiniteSet(Holders) /\ Cardinality(Holders) \in Nat
<1>1. IsFiniteSet(Server)
  BY FS_Interval, NumInterfacesAssumption DEF Server
<1>2. IsFiniteSet(Holders)
  BY <1>1, FS_Subset DEF Holders
<1> QED
  BY <1>2, FS_CardinalityType

(* A server that moves between places where it holds a receiver, or        *)
(* between others, changes neither part of the count.                      *)
LEMMA Moves ==
  ASSUME CountInv, NEW i \in Server, NEW place \in Places \ {"unborn"},
         server[i] # "unborn", Goto(i, place), rxCount' = rxCount,
         server[i] \in Counted <=> place \in Counted
  PROVE  CountInv'
<1>1. server' \in [Server -> Places] /\ \A j \in Server : j # i => server'[j] = server[j]
  BY DEF Goto, CountInv
<1>2. server'[i] = place
  BY DEF Goto, CountInv
<1>3. Holders' = Holders
  BY <1>1, <1>2 DEF Holders
<1>4. Original' = Original
  BY <1>1, <1>2, NumInterfacesAssumption DEF Original, Server, Places
<1> QED
  BY <1>1, <1>3, <1>4 DEF CountInv

(* Steps that leave the servers and the count alone. *)
LEMMA Stays ==
  ASSUME CountInv, server' = server, rxCount' = rxCount PROVE CountInv'
BY DEF CountInv, Holders, Original

(* A new server: its receiver is a clone, or, for the last, the original.  *)
LEMMA Starts ==
  ASSUME CountInv, NEW i \in Server, StartServer(i) PROVE CountInv'
<1>1. PICK place \in {"idle", "dropping"} : Goto(i, place)
  BY DEF StartServer
<1>2. /\ server' \in [Server -> Places]
      /\ server'[i] = place
      /\ \A j \in Server : j # i => server'[j] = server[j]
  BY <1>1 DEF Goto, CountInv, Places, Counted, Alive
<1>3. Holders' = Holders \cup {i} /\ i \notin Holders
  BY <1>2 DEF Holders, Counted, Alive, StartServer
<1>4. Cardinality(Holders') = Cardinality(Holders) + 1
  BY <1>3, HoldersFinite, FS_AddElement
<1>5. CASE i < NumInterfaces
  <2>1. Original' = Original
    BY <1>2, <1>5, NumInterfacesAssumption DEF Original, Server
  <2>2. rxCount' = rxCount + 1
    BY <1>5 DEF StartServer
  <2> QED
    BY <1>2, <1>4, <2>1, <2>2, HoldersFinite DEF CountInv, Original
<1>6. CASE ~(i < NumInterfaces)
  <2>1. i = NumInterfaces
    BY <1>6, NumInterfacesAssumption DEF Server
  <2>2. Original = 1 /\ Original' = 0
    BY <1>2, <2>1 DEF Original, StartServer
  <2>3. rxCount' = rxCount
    BY <1>6 DEF StartServer
  <2> QED
    BY <1>2, <1>4, <2>2, <2>3, HoldersFinite DEF CountInv
<1> QED
  BY <1>5, <1>6

(* A receiver that is dropped takes itself out of the count. *)
LEMMA Leaves ==
  ASSUME CountInv, NEW i \in Server, Leave(i) PROVE CountInv'
<1>1. PICK place \in {"notifying", "gone"} : Goto(i, place)
  BY DEF Leave
<1>2. /\ server' \in [Server -> Places]
      /\ server'[i] = place
      /\ \A j \in Server : j # i => server'[j] = server[j]
  BY <1>1 DEF Goto, CountInv, Places
<1>3. Holders' = Holders \ {i} /\ i \in Holders
  BY <1>2 DEF Holders, Counted, Alive, Leave
<1>4. Cardinality(Holders') = Cardinality(Holders) - 1
  BY <1>3, HoldersFinite, FS_RemoveElement
<1>5. Original' = Original
  BY <1>2, NumInterfacesAssumption DEF Original, Server, Leave
<1>6. Cardinality(Holders) # 0
  BY <1>3, HoldersFinite, FS_EmptySet
<1>7. Original \in Nat /\ rxCount' = rxCount - 1
  BY DEF Original, Leave
<1> QED
  BY <1>2, <1>4, <1>5, <1>6, <1>7, HoldersFinite DEF CountInv

(* One receiver exists when the process starts: the original. *)
LEMMA CountInit == Init => CountInv
<1> SUFFICES ASSUME Init PROVE CountInv
  OBVIOUS
<1>1. server = [i \in Server |-> "unborn"] /\ rxCount = 1
  BY DEF Init
<1>2. Holders = {}
  BY <1>1 DEF Holders, Counted, Alive
<1>3. Original = 1
  BY <1>1, NumInterfacesAssumption DEF Original, Server
<1>4. Cardinality(Holders) = 0
  BY <1>2, FS_EmptySet
<1> QED
  BY <1>1, <1>3, <1>4 DEF CountInv, Places

(* Every step keeps the count right. *)
LEMMA CountStep == CountInv /\ [Next]_vars => CountInv'
<1> SUFFICES ASSUME CountInv, [Next]_vars PROVE CountInv'
  OBVIOUS
<1> USE DEF inner
<1>1. ASSUME NEW i \in Server, SetUp(i) PROVE CountInv'
  BY <1>1, Starts, Stays DEF SetUp, SkipFailed
<1>2. ASSUME NEW i \in Server, ServerStep(i) PROVE CountInv'
  <2> USE DEF Places, Counted, Alive
  <2>1. CASE PollServer(i)
    BY <2>1, Moves DEF PollServer
  <2>2. CASE CheckSender(i)
    BY <2>2, Moves DEF CheckSender
  <2>3. CASE ReadMessage(i)
    BY <2>3, Moves DEF ReadMessage
  <2>4. CASE Deregister(i)
    BY <2>4, Moves DEF Deregister
  <2>5. CASE Leave(i)
    BY <2>5, Leaves
  <2>6. CASE NotifySender(i)
    BY <2>6, Moves DEF NotifySender
  <2> QED
    BY <1>2, <2>1, <2>2, <2>3, <2>4, <2>5, <2>6 DEF ServerStep
<1>3. CASE \E i \in Server : InputReady(i)
  BY <1>3, Stays DEF InputReady
<1>4. CASE SignalStep
  BY <1>4, Stays
  DEF SignalStep, PollSignalTask, StartSend, NothingToSend, NotifyReceivers, PollStreams,
      NothingDelivered, StreamFails, StoreSenderTask, CountReceivers, TakeMessage,
      MarkAbsent, LastNotify
<1>5. CASE \E s \in {"SIGINT", "SIGTERM"} : Deliver(s)
  BY <1>5, Stays DEF Deliver
<1>6. CASE UNCHANGED vars
  BY <1>6, Stays DEF vars
<1> QED
  BY <1>1, <1>2, <1>3, <1>4, <1>5, <1>6 DEF Next

(* rx_count is always the number of receivers there are, whatever servers  *)
(* start, fail to start and leave in parallel.                             *)
THEOREM ReceiversCounted == Spec => []CountsReceivers
<1>1. CountInv => CountsReceivers
  BY DEF CountInv, CountsReceivers, Holders, Original
<1> QED
  BY <1>1, CountInit, CountStep, PTL DEF Spec

-----------------------------------------------------------------------------
(* No lost wake-up towards a server.  A receiver's task is stored before   *)
(* the message is looked at, so a message that comes after the look finds  *)
(* the task.                                                               *)

QuitInv ==
  /\ server \in [Server -> Places]
  /\ \A i \in Server :
       /\ server[i] = "idle" => i \in runnable \cup rxTasks
       /\ server[i] \in {"check", "read"} => i \in rxTasks
  /\ NoQuitMissed

(* A step of one server keeps it for that server and for the others. *)
LEMMA QuitServerStep ==
  ASSUME QuitInv, NEW i \in Server, ServerStep(i) PROVE QuitInv'
<1> USE DEF QuitInv, NoQuitMissed, Goto, At, Places, Counted, Alive, inner
<1>1. CASE PollServer(i)
  BY <1>1 DEF PollServer
<1>2. CASE CheckSender(i)
  BY <1>2 DEF CheckSender
<1>3. CASE ReadMessage(i)
  BY <1>3 DEF ReadMessage
<1>4. CASE Deregister(i)
  BY <1>4 DEF Deregister
<1>5. CASE Leave(i)
  BY <1>5 DEF Leave
<1>6. CASE NotifySender(i)
  BY <1>6 DEF NotifySender
<1> QED
  BY <1>1, <1>2, <1>3, <1>4, <1>5, <1>6 DEF ServerStep

(* A step of the signal task keeps it: a new message is followed by the    *)
(* wake-up of every stored task.                                           *)
LEMMA QuitSignalStep == ASSUME QuitInv, SignalStep PROVE QuitInv'
<1> USE DEF QuitInv, NoQuitMissed, At, Moved, inner
<1>1. CASE PollSignalTask
  BY <1>1 DEF PollSignalTask, SignalTask, Server
<1>2. CASE StartSend
  BY <1>2 DEF StartSend
<1>3. CASE NothingToSend
  BY <1>3 DEF NothingToSend
<1>4. CASE NotifyReceivers
  BY <1>4 DEF NotifyReceivers
<1>5. CASE PollStreams \/ NothingDelivered \/ StreamFails
  BY <1>5 DEF PollStreams, NothingDelivered, StreamFails
<1>6. CASE StoreSenderTask \/ CountReceivers
  BY <1>6 DEF StoreSenderTask, CountReceivers
<1>7. CASE TakeMessage
  BY <1>7 DEF TakeMessage
<1>8. CASE MarkAbsent \/ LastNotify
  BY <1>8 DEF MarkAbsent, LastNotify
<1> QED
  BY <1>1, <1>2, <1>3, <1>4, <1>5, <1>6, <1>7, <1>8 DEF SignalStep

(* So does every other step. *)
LEMMA QuitStep == QuitInv /\ [Next]_vars => QuitInv'
<1> SUFFICES ASSUME QuitInv, [Next]_vars PROVE QuitInv'
  OBVIOUS
<1>1. ASSUME NEW i \in Server, SetUp(i) PROVE QuitInv'
  BY <1>1 DEF QuitInv, NoQuitMissed, Goto, At, Places, Counted, Alive, SetUp,
              StartServer, SkipFailed, inner
<1>2. ASSUME NEW i \in Server, InputReady(i) PROVE QuitInv'
  BY <1>2 DEF QuitInv, NoQuitMissed, At, InputReady, inner
<1>3. ASSUME NEW s, Deliver(s) PROVE QuitInv'
  BY <1>3 DEF QuitInv, NoQuitMissed, At, Deliver, inner
<1>4. CASE UNCHANGED vars
  BY <1>4 DEF QuitInv, NoQuitMissed, At, vars, inner
<1> QED
  BY <1>1, <1>2, <1>3, <1>4, QuitServerStep, QuitSignalStep DEF Next

(* A server that waits while there is a quit message has been told to look *)
(* or is just being told, however the polls and the sends interleave.      *)
THEOREM QuitReachesServers == Spec => []NoQuitMissed
<1>1. Init => QuitInv
  BY DEF Init, QuitInv, NoQuitMissed, Places
<1>2. QuitInv => NoQuitMissed
  BY DEF QuitInv
<1> QED
  BY <1>1, <1>2, QuitStep, PTL DEF Spec

-----------------------------------------------------------------------------
(* No lost wake-up towards the sender: its task is stored before the count *)
(* is looked at, and the receiver that brings it to zero looks for it      *)
(* afterwards.                                                             *)

SignalsType ==
  signals \in [at : {"idle", "send", "notify", "poll", "fill", "count",
                     "drop", "absent", "last", "done"},
               toSend : {"None", "Normal", "Fast"},
               fastSent : BOOLEAN, active : BOOLEAN, failed : BOOLEAN]

(* What the streams yield: a fast quit if there was a SIGTERM, and a       *)
(* normal one otherwise.                                                   *)
LEMMA Yields ==
  ASSUME PollStreams
  PROVE  \/ signals' = [Moved("fill") EXCEPT !.active = TRUE, !.toSend = "Fast",
                                             !.fastSent = TRUE]
         \/ signals' = [Moved("fill") EXCEPT !.active = TRUE, !.toSend = "Normal",
                                             !.fastSent = FALSE]
<1>1. signals' = [Moved("fill") EXCEPT !.active = TRUE, !.toSend = Quit(delivered),
                                       !.fastSent = "SIGTERM" \in delivered]
  BY Zenon DEF PollStreams
<1>2. CASE "SIGTERM" \in delivered
  <2>1. Quit(delivered) = "Fast"
    BY <1>2 DEF Quit
  <2>2. ("SIGTERM" \in delivered) = TRUE
    BY <1>2
  <2> QED
    BY <1>1, <2>1, <2>2, Zenon
<1>3. CASE "SIGTERM" \notin delivered
  <2>1. Quit(delivered) = "Normal"
    BY <1>3 DEF Quit
  <2>2. ("SIGTERM" \in delivered) = FALSE
    BY <1>3
  <2> QED
    BY <1>1, <2>1, <2>2, Zenon
<1> QED
  BY <1>2, <1>3

(* The signal task's fields keep their types. *)
LEMMA SignalsStep == SignalsType /\ [Next]_vars => SignalsType'
<1> SUFFICES ASSUME SignalsType, [Next]_vars PROVE SignalsType'
  OBVIOUS
<1> USE DEF SignalsType, At, Moved
<1>1. CASE PollSignalTask \/ NothingToSend \/ NotifyReceivers
  BY <1>1 DEF PollSignalTask, NothingToSend, NotifyReceivers
<1>2. CASE StartSend
  BY <1>2 DEF StartSend
<1>3. CASE PollStreams
  BY <1>3, Yields DEF PollStreams
<1>4. CASE NothingDelivered \/ StreamFails
  BY <1>4 DEF NothingDelivered, StreamFails
<1>5. CASE StoreSenderTask \/ CountReceivers
  BY <1>5 DEF StoreSenderTask, CountReceivers
<1>6. CASE TakeMessage \/ MarkAbsent \/ LastNotify
  BY <1>6 DEF TakeMessage, MarkAbsent, LastNotify
<1>7. CASE signals' = signals
  BY <1>7
<1>8. ASSUME NEW i \in Server, SetUp(i) \/ ServerStep(i) \/ InputReady(i)
      PROVE  signals' = signals
  BY <1>8 DEF SetUp, StartServer, SkipFailed, ServerStep, PollServer, CheckSender,
              ReadMessage, Deregister, Leave, NotifySender, InputReady
<1>9. ASSUME NEW s, Deliver(s) PROVE signals' = signals
  BY <1>9 DEF Deliver
<1>10. CASE UNCHANGED vars
  BY <1>7, <1>10 DEF vars
<1> QED
  BY <1>1, <1>2, <1>3, <1>4, <1>5, <1>6, <1>7, <1>8, <1>9, <1>10 DEF Next, SignalStep

SenderInv ==
  /\ CountInv
  /\ SignalsType
  /\ At("count") \/ At("idle") => txTask = TRUE
  /\ NoDepartureMissed

(* A step of a server: only the last to leave empties the count. *)
LEMMA SenderServerStep ==
  ASSUME SenderInv, NEW i \in Server, ServerStep(i) PROVE SenderInv'
<1>1. CountInv' /\ server' \in [Server -> Places] /\ SignalsType'
  <2>1. [Next]_vars
    BY DEF Next
  <2> QED
    BY <2>1, CountStep, SignalsStep DEF SenderInv, CountInv
<1> USE DEF SenderInv, CountInv, NoDepartureMissed, Goto, At, inner
<1>2. CASE PollServer(i)
  BY <1>1, <1>2 DEF PollServer, SignalTask, Server
<1>3. CASE CheckSender(i)
  BY <1>1, <1>3 DEF CheckSender
<1>4. CASE ReadMessage(i)
  BY <1>1, <1>4 DEF ReadMessage
<1>5. CASE Deregister(i)
  BY <1>1, <1>5 DEF Deregister
<1>6. CASE Leave(i)
  BY <1>1, <1>6 DEF Leave
<1>7. CASE NotifySender(i)
  BY <1>1, <1>7 DEF NotifySender
<1> QED
  BY <1>2, <1>3, <1>4, <1>5, <1>6, <1>7 DEF ServerStep

(* A step of the signal task: it waits only after it has seen a receiver.  *)
LEMMA SenderSignalStep == ASSUME SenderInv, SignalStep PROVE SenderInv'
<1>1. CountInv' /\ SignalsType'
  <2>1. [Next]_vars
    BY DEF Next
  <2> QED
    BY <2>1, CountStep, SignalsStep DEF SenderInv
<1> USE DEF SenderInv, SignalsType, NoDepartureMissed, At, Moved, inner
<1>2. CASE PollSignalTask \/ NothingToSend
  BY <1>1, <1>2 DEF PollSignalTask, NothingToSend
<1>3. CASE StartSend \/ NotifyReceivers
  BY <1>1, <1>3 DEF StartSend, NotifyReceivers
<1>4. CASE PollStreams \/ NothingDelivered \/ StreamFails
  BY <1>1, <1>4 DEF PollStreams, NothingDelivered, StreamFails
<1>5. CASE StoreSenderTask
  BY <1>1, <1>5 DEF StoreSenderTask
<1>6. CASE CountReceivers
  BY <1>1, <1>6 DEF CountReceivers
<1>7. CASE TakeMessage \/ MarkAbsent \/ LastNotify
  BY <1>1, <1>7 DEF TakeMessage, MarkAbsent, LastNotify
<1> QED
  BY <1>2, <1>3, <1>4, <1>5, <1>6, <1>7 DEF SignalStep

(* So does every other step. *)
LEMMA SenderStep == SenderInv /\ [Next]_vars => SenderInv'
<1> SUFFICES ASSUME SenderInv, [Next]_vars PROVE SenderInv'
  OBVIOUS
<1>0. CountInv' /\ SignalsType'
  BY CountStep, SignalsStep DEF SenderInv
<1> USE DEF SenderInv, CountInv, NoDepartureMissed, At, inner
<1>1. ASSUME NEW i \in Server, SetUp(i) PROVE SenderInv'
  BY <1>0, <1>1 DEF SetUp, StartServer, SkipFailed, Goto
<1>2. ASSUME NEW i \in Server, InputReady(i) PROVE SenderInv'
  BY <1>0, <1>2 DEF InputReady
<1>3. ASSUME NEW s, Deliver(s) PROVE SenderInv'
  BY <1>0, <1>3 DEF Deliver
<1>4. CASE UNCHANGED vars
  BY <1>0, <1>4 DEF vars
<1> QED
  BY <1>1, <1>2, <1>3, <1>4, SenderServerStep, SenderSignalStep DEF Next

(* The signal task never waits for ever after the last receiver has gone.  *)
THEOREM DepartureReachesSender == Spec => []NoDepartureMissed
<1>1. Init => SenderInv
  BY CountInit DEF Init, SenderInv, SignalsType, NoDepartureMissed, At
<1>2. SenderInv => NoDepartureMissed
  BY DEF SenderInv
<1> QED
  BY <1>1, <1>2, SenderStep, PTL DEF Spec

-----------------------------------------------------------------------------
(* A fast quit stays one.                                                  *)

FastInv ==
  /\ SignalsType
  /\ message = "Fast" \/ signals.toSend = "Fast" => signals.fastSent = TRUE
  /\ signals.fastSent = TRUE => signals.toSend # "Normal"

(* After a SIGTERM the streams are not looked at any more. *)
LEMMA FastStep ==
  FastInv /\ [Next]_vars => FastInv' /\ (message = "Fast" => message' # "Normal")
<1> SUFFICES ASSUME FastInv, [Next]_vars
             PROVE  FastInv' /\ (message = "Fast" => message' # "Normal")
  OBVIOUS
<1>0. SignalsType'
  BY SignalsStep DEF FastInv
<1> USE <1>0 DEF FastInv, SignalsType, At, Moved, inner
<1>1. CASE PollSignalTask \/ NothingToSend \/ NotifyReceivers
  BY <1>1 DEF PollSignalTask, NothingToSend, NotifyReceivers
<1>2. CASE StartSend
  BY <1>2 DEF StartSend
<1>3. CASE PollStreams
  <2>1. message' = message /\ signals.fastSent # TRUE
    BY <1>3, Zenon DEF PollStreams
  <2> QED
    BY <1>3, <2>1, Yields
<1>4. CASE NothingDelivered \/ StreamFails
  BY <1>4 DEF NothingDelivered, StreamFails
<1>5. CASE StoreSenderTask \/ CountReceivers
  BY <1>5 DEF StoreSenderTask, CountReceivers
<1>6. CASE TakeMessage \/ MarkAbsent \/ LastNotify
  BY <1>6 DEF TakeMessage, MarkAbsent, LastNotify
<1>7. CASE signals' = signals /\ message' = message
  BY <1>7
<1>8. ASSUME NEW i \in Server, SetUp(i) \/ ServerStep(i) \/ InputReady(i)
      PROVE  signals' = signals /\ message' = message
  BY <1>8 DEF SetUp, StartServer, SkipFailed, ServerStep, PollServer, CheckSender,
              ReadMessage, Deregister, Leave, NotifySender, InputReady
<1>9. ASSUME NEW s, Deliver(s) PROVE signals' = signals /\ message' = message
  BY <1>9 DEF Deliver
<1>10. CASE UNCHANGED vars
  BY <1>7, <1>10 DEF vars
<1> QED
  BY <1>1, <1>2, <1>3, <1>4, <1>5, <1>6, <1>7, <1>8, <1>9, <1>10 DEF Next, SignalStep

(* A fast quit that has been sent is never turned into a normal one.       *)
THEOREM FastStaysFast == Spec => FastIsFinal
<1>1. Init => FastInv
  BY DEF Init, FastInv, SignalsType
<1>2. FastInv /\ [Next]_vars => FastInv'
  BY FastStep
<1>3. FastInv /\ [Next]_vars => [message = "Fast" => message' # "Normal"]_vars
  BY FastStep
<1> QED
  BY <1>1, <1>2, <1>3, PTL DEF Spec, FastIsFinal

-----------------------------------------------------------------------------
(* The panic of a server that finds no sender: while the signal streams    *)
(* work the sender leaves last, since it leaves when the count is zero,    *)
(* and no receiver can come after that.                                    *)

Leaving == signals.at \in {"drop", "absent", "last", "done"}

PanicInv ==
  /\ CountInv /\ SignalsType
  /\ started \in Nat
  /\ \A j \in Server : j > started + 1 => server[j] = "unborn"
  /\ Leaving => rxCount = 0 \/ signals.failed = TRUE
  /\ ~txPresent => Leaving
  /\ panicked # {} => signals.failed = TRUE

(* With a count of zero there is no receiver, and none to be moved into a  *)
(* server still to start.                                                  *)
LEMMA NobodyLeft ==
  ASSUME PanicInv, rxCount = 0
  PROVE  Holders = {} /\ \A i \in Server : ~StartServer(i)
<1>1. Cardinality(Holders) = 0 /\ Original = 0
  BY HoldersFinite DEF PanicInv, CountInv, Original
<1>2. Holders = {}
  BY <1>1, HoldersFinite, FS_EmptySet
<1>3. server[NumInterfaces] # "unborn"
  BY <1>1 DEF Original
<1>4. ASSUME NEW i \in Server, StartServer(i) PROVE FALSE
  <2>1. i = started + 1 /\ i # NumInterfaces
    BY <1>3, <1>4 DEF StartServer
  <2>2. NumInterfaces > started + 1 /\ NumInterfaces \in Server
    BY <2>1, NumInterfacesAssumption DEF Server, PanicInv
  <2> QED
    BY <1>3, <2>2 DEF PanicInv
<1> QED
  BY <1>2, <1>4

(* The steps of the set-up: the servers start in order. *)
LEMMA PanicSetUp == ASSUME PanicInv, NEW i \in Server, SetUp(i) PROVE PanicInv'
<1>0. [Next]_vars
  BY DEF Next
<1>1. CountInv' /\ SignalsType'
  BY <1>0, CountStep, SignalsStep DEF PanicInv
<1>2. CASE StartServer(i)
  <2>1. /\ signals' = signals /\ txPresent' = txPresent /\ panicked' = panicked
        /\ started' \in {started, i} /\ i = started + 1
    BY <1>2 DEF StartServer
  <2>2. \A j \in Server : j # i => server'[j] = server[j]
    BY <1>2 DEF StartServer, Goto, PanicInv, CountInv
  <2>3. started' \in Nat /\ \A j \in Server : j > started' + 1 => server'[j] = "unborn"
    <3>1. CASE started' = i
      <4>1. \A j \in Server : j > i + 1 => j > started + 1 /\ j # i
        BY <2>1, NumInterfacesAssumption DEF Server, PanicInv
      <4> QED
        BY <3>1, <4>1, <2>2, NumInterfacesAssumption DEF PanicInv, Server
    <3>2. CASE started' = started
      <4>1. \A j \in Server : j > started + 1 => j # i
        BY <2>1, NumInterfacesAssumption DEF Server, PanicInv
      <4> QED
        BY <3>2, <4>1, <2>2 DEF PanicInv
    <3> QED
      BY <2>1, <3>1, <3>2
  <2>4. rxCount # 0
    BY <1>2, NobodyLeft
  <2>5. Leaving => signals.failed = TRUE
    BY <2>4 DEF PanicInv
  <2> QED
    BY <1>1, <2>1, <2>3, <2>5 DEF PanicInv, Leaving
<1>3. CASE SkipFailed(i)
  <2>1. /\ signals' = signals /\ txPresent' = txPresent /\ panicked' = panicked
        /\ started' = i /\ i = started + 1 /\ server' = server /\ rxCount' = rxCount
    BY <1>3 DEF SkipFailed, inner
  <2>2. started' \in Nat /\ \A j \in Server : j > started' + 1 => server'[j] = "unborn"
    BY <2>1, NumInterfacesAssumption DEF PanicInv, Server
  <2> QED
    BY <1>1, <2>1, <2>2 DEF PanicInv, Leaving
<1> QED
  BY <1>2, <1>3 DEF SetUp

(* A server that has started stays started. *)
LEMMA StartedStay ==
  ASSUME PanicInv, NEW i \in Server, NEW place, Goto(i, place),
         server[i] # "unborn", started' = started
  PROVE  started' \in Nat /\ \A j \in Server : j > started' + 1 => server'[j] = "unborn"
BY DEF PanicInv, CountInv, Goto

(* The steps of a server: one that looks for the sender holds a receiver.  *)
LEMMA PanicServer == ASSUME PanicInv, NEW i \in Server, ServerStep(i) PROVE PanicInv'
<1>0. [Next]_vars
  BY DEF Next
<1>1. CountInv' /\ SignalsType'
  BY <1>0, CountStep, SignalsStep DEF PanicInv
<1> USE DEF PanicInv, Leaving, inner
<1>2. CASE PollServer(i)
  BY <1>1, <1>2, StartedStay DEF PollServer
<1>3. CASE CheckSender(i)
  <2>1. i \in Holders
    BY <1>3 DEF CheckSender, Holders, Counted, Alive
  <2>2. rxCount # 0
    BY <2>1, NobodyLeft
  <2>3. panicked' = panicked \/ signals.failed = TRUE
    BY <1>3, <2>2 DEF CheckSender
  <2>4. /\ signals' = signals /\ txPresent' = txPresent /\ rxCount' = rxCount
        /\ started' = started
    BY <1>3 DEF CheckSender
  <2>5. started' \in Nat /\ \A j \in Server : j > started' + 1 => server'[j] = "unborn"
    BY <1>3, <2>4, StartedStay DEF CheckSender
  <2> QED
    BY <1>1, <2>3, <2>4, <2>5
<1>4. CASE ReadMessage(i)
  BY <1>1, <1>4, StartedStay DEF ReadMessage
<1>5. CASE Deregister(i)
  BY <1>1, <1>5, StartedStay DEF Deregister
<1>6. CASE Leave(i)
  <2>1. i \in Holders
    BY <1>6 DEF Leave, Holders, Counted, Alive
  <2>2. rxCount # 0
    BY <2>1, NobodyLeft
  <2>3. /\ signals' = signals /\ txPresent' = txPresent /\ panicked' = panicked
        /\ started' = started
    BY <1>6 DEF Leave
  <2>4. started' \in Nat /\ \A j \in Server : j > started' + 1 => server'[j] = "unborn"
    BY <1>6, <2>3, StartedStay DEF Leave
  <2> QED
    BY <1>1, <2>2, <2>3, <2>4
<1>7. CASE NotifySender(i)
  BY <1>1, <1>7, StartedStay DEF NotifySender
<1> QED
  BY <1>2, <1>3, <1>4, <1>5, <1>6, <1>7 DEF ServerStep

(* The steps of the signal task: it leaves when the count is zero or when  *)
(* a stream has failed.                                                    *)
LEMMA PanicSignal == ASSUME PanicInv, SignalStep PROVE PanicInv'
<1>0. [Next]_vars
  BY DEF Next
<1>1. CountInv' /\ SignalsType'
  BY <1>0, CountStep, SignalsStep DEF PanicInv
<1> USE DEF PanicInv, SignalsType, Leaving, At, Moved, inner
<1>2. CASE PollSignalTask \/ NothingToSend \/ NotifyReceivers
  BY <1>1, <1>2 DEF PollSignalTask, NothingToSend, NotifyReceivers
<1>3. CASE StartSend \/ StoreSenderTask
  BY <1>1, <1>3 DEF StartSend, StoreSenderTask
<1>4. CASE PollStreams
  <2>1. /\ UNCHANGED <<started, server, panicked, txPresent, rxCount>>
        /\ signals.at = "poll"
    BY <1>4, Zenon DEF PollStreams
  <2>2. signals'.at = "fill" /\ signals'.failed = signals.failed
    BY <1>4, Yields
  <2> QED
    BY <1>1, <2>1, <2>2
<1>5. CASE NothingDelivered \/ StreamFails
  BY <1>1, <1>5 DEF NothingDelivered, StreamFails
<1>6. CASE CountReceivers
  BY <1>1, <1>6 DEF CountReceivers
<1>7. CASE TakeMessage \/ MarkAbsent \/ LastNotify
  BY <1>1, <1>7 DEF TakeMessage, MarkAbsent, LastNotify
<1> QED
  BY <1>2, <1>3, <1>4, <1>5, <1>6, <1>7 DEF SignalStep

(* So does every other step. *)
LEMMA PanicStep == PanicInv /\ [Next]_vars => PanicInv'
<1> SUFFICES ASSUME PanicInv, [Next]_vars PROVE PanicInv'
  OBVIOUS
<1>0. CountInv' /\ SignalsType'
  BY CountStep, SignalsStep DEF PanicInv
<1>1. ASSUME NEW i \in Server, InputReady(i) PROVE PanicInv'
  BY <1>0, <1>1 DEF PanicInv, Leaving, InputReady, inner
<1>2. ASSUME NEW s, Deliver(s) PROVE PanicInv'
  BY <1>0, <1>2 DEF PanicInv, Leaving, Deliver, inner
<1>3. CASE UNCHANGED vars
  BY <1>0, <1>3 DEF PanicInv, Leaving, vars, inner
<1> QED
  BY <1>1, <1>2, <1>3, PanicSetUp, PanicServer, PanicSignal DEF Next

(* expect("a quit signal") panics in no server unless a signal stream has  *)
(* failed.                                                                 *)
THEOREM ServersDoNotPanic == Spec => []NoServerPanics
<1>1. Init => PanicInv
  BY CountInit DEF Init, PanicInv, Leaving, SignalsType
<1>2. PanicInv => NoServerPanics
  BY DEF PanicInv, NoServerPanics
<1> QED
  BY <1>1, <1>2, PanicStep, PTL DEF Spec
=============================================================================
