--------------------------- MODULE NdpServer_proofs --------------------------
(***************************************************************************)
(* Proofs about the server of module NdpServer, for any number of sends    *)
(* and any limit: the limit and the counter behind it, the sends that wait *)
(* and the interface's flag.  And about the checks of module NdpFilter,    *)
(* for all packets and all lists of prefixes: what is answered crosses the *)
(* proxy, and an address resolution that does is answered.                 *)
(***************************************************************************)
EXTENDS NdpServer, NdpFilter, OpsLemmas, FiniteSetTheorems

-----------------------------------------------------------------------------
(* The limit.  A server that is about to spawn a send has found room for   *)
(* it, and only the server adds to the counter: sends that end in between  *)
(* can but make more room.                                                 *)

Types ==
  /\ server \in {"new", "failed", "idle", "reject", "spawn", "gone"}
  /\ queued \in Nat
  /\ send \in [Sends -> {"free", "sending", "sent"}]

QueueInv ==
  /\ Types
  /\ CountsSends
  /\ QueueIsBounded
  /\ server = "spawn" => Cardinality(Live) < MaxQueued
  /\ server = "new" => Live = {}

(* Live is a finite set, so its cardinality is a number.                   *)
LEMMA LiveIsFinite == IsFiniteSet(Live) /\ Cardinality(Live) \in Nat
<1>1. Live \subseteq Sends /\ IsFiniteSet(Sends)
  BY NdpServerAssumption DEF Live
<1>2. IsFiniteSet(Live)
  BY <1>1, FS_Subset
<1> QED
  BY <1>2, FS_CardinalityType

(* A step that leaves every send where it is keeps the set of live ones.   *)
LEMMA LiveUnchanged == send' = send => Live' = Live
BY DEF Live

(* A send that is spawned was not live and is now.                         *)
LEMMA LiveGrows ==
  ASSUME Types, NEW t \in Sends, send[t] = "free",
         send' = [send EXCEPT ![t] = "sending"]
  PROVE  Live' = Live \cup {t} /\ Cardinality(Live') = Cardinality(Live) + 1
<1>1. Live' = Live \cup {t} /\ t \notin Live
  BY DEF Live, Types
<1> QED
  BY <1>1, LiveIsFinite, FS_AddElement

(* A send that is over is live no longer.                                  *)
LEMMA LiveShrinks ==
  ASSUME Types, NEW t \in Sends, send[t] = "sent",
         send' = [send EXCEPT ![t] = "free"]
  PROVE  Live' = Live \ {t} /\ Cardinality(Live') = Cardinality(Live) - 1
<1>1. Live' = Live \ {t} /\ t \in Live
  BY DEF Live, Types
<1> QED
  BY <1>1, LiveIsFinite, FS_RemoveElement

(* A send that is sent stays live until its place is given back.           *)
LEMMA LiveKept ==
  ASSUME Types, NEW t \in Sends, send[t] = "sending",
         send' = [send EXCEPT ![t] = "sent"]
  PROVE  Live' = Live
BY DEF Live, Types

(* The invariant holds when the process starts.                            *)
LEMMA QueueInit == Init => QueueInv
<1> SUFFICES ASSUME Init PROVE QueueInv
  OBVIOUS
<1>1. Live = {}
  BY DEF Init, Live
<1>2. Cardinality(Live) = 0
  BY <1>1, FS_EmptySet
<1> QED
  BY <1>1, <1>2, NdpServerAssumption
  DEF Init, QueueInv, Types, CountsSends, QueueIsBounded

(* Every step of the server, of a send and of their environment keeps it.  *)
LEMMA QueueStep == QueueInv /\ [Next]_vars => QueueInv'
<1> SUFFICES ASSUME QueueInv, [Next]_vars PROVE QueueInv'
  OBVIOUS
<1> USE DEF QueueInv, CountsSends, QueueIsBounded, Types
<1>m. MaxQueued \in Nat /\ Cardinality(Live) \in Nat
  BY LiveIsFinite, NdpServerAssumption
<1>1. CASE New
  BY <1>1, <1>m, LiveUnchanged DEF New, taskVars
<1>2. CASE QuitServer \/ InputFails
  BY <1>2, <1>m, LiveUnchanged DEF QuitServer, InputFails, DropServer, taskVars
<1>3. CASE RejectSend
  BY <1>3, <1>m, LiveUnchanged DEF RejectSend, taskVars
<1>4. ASSUME NEW t \in Sends, SpawnSend(t) PROVE QueueInv'
  <2>1. Cardinality(Live') = Cardinality(Live) + 1
    BY <1>4, LiveGrows DEF SpawnSend
  <2>2. Types'
    BY <1>4 DEF SpawnSend
  <2> QED
    BY <1>4, <1>m, <2>1, <2>2 DEF SpawnSend
<1>5. CASE CountSend
  BY <1>5, <1>m, LiveUnchanged DEF CountSend, taskVars
<1>6. ASSUME NEW t \in Sends, PollSend(t) PROVE QueueInv'
  <2>1. server' = server /\ queued' = queued
    BY <1>6 DEF PollSend
  <2>2. Live' = Live /\ Types'
    <3>1. CASE PollNotReady(t) \/ PollWouldBlock(t)
      BY <3>1, <2>1, LiveUnchanged DEF PollNotReady, PollWouldBlock, Wait
    <3>2. CASE PollDone(t)
      BY <3>2, <1>6, <2>1, LiveKept DEF PollDone, PollSend
    <3> QED
      BY <1>6, <3>1, <3>2 DEF PollSend
  <2> QED
    BY <2>1, <2>2
<1>7. ASSUME NEW t \in Sends, Uncount(t) PROVE QueueInv'
  <2>1. Live' = Live \ {t} /\ Cardinality(Live') = Cardinality(Live) - 1
    BY <1>7, LiveShrinks DEF Uncount
  <2>2. queued \in Nat \ {0}
    <3>1. Live # {}
      BY <1>7 DEF Uncount, Live
    <3>2. Cardinality(Live) # 0
      BY <3>1, LiveIsFinite, FS_EmptySet
    <3> QED
      BY <3>2, <1>m
  <2>3. Types'
    BY <1>7, <2>2 DEF Uncount
  <2> QED
    BY <1>7, <1>m, <2>1, <2>3 DEF Uncount
<1>8. CASE Drain \/ ReceiveQuit
  BY <1>8, <1>m, LiveUnchanged DEF Drain, ReceiveQuit, taskVars
<1>9. CASE UNCHANGED vars
  BY <1>9, <1>m, LiveUnchanged DEF vars, taskVars
<1> QED
  BY <1>1, <1>2, <1>3, <1>4, <1>5, <1>6, <1>7, <1>8, <1>9 DEF Next, ServerStep

(* There are never more answers in flight than the interface's max_queued, *)
(* although the counter is raised before it is looked at.                  *)
THEOREM QueueLimit == Spec => []QueueIsBounded
<1>1. QueueInv => QueueIsBounded
  BY DEF QueueInv
<1> QED
  BY <1>1, QueueInit, QueueStep, PTL DEF Spec

(* queued_sends is always the number of answers in flight, the one being   *)
(* counted included: no place in the queue is lost or given back twice.    *)
THEOREM QueueCount == Spec => []CountsSends
<1>1. QueueInv => CountsSends
  BY DEF QueueInv
<1> QED
  BY <1>1, QueueInit, QueueStep, PTL DEF Spec

-----------------------------------------------------------------------------
(* Types: the bound of the counter comes from the invariant above, the     *)
(* rest from the steps themselves.                                         *)

OtherTypes ==
  /\ {quit, allmulti, drop, ready, wasAllmulti} \subseteq BOOLEAN
  /\ runnable \subseteq Sends /\ displaced \subseteq Sends
  /\ writer \subseteq Sends /\ Cardinality(writer) <= 1
  /\ room \in 0..KernelRoom

(* The sets that hold at most one task. *)
LEMMA SmallSets == Cardinality({}) <= 1 /\ \A t : Cardinality({t}) <= 1
BY FS_EmptySet, FS_Singleton

(* The flags, the tasks and the socket keep their types. *)
LEMMA OtherTypesStep == Types /\ OtherTypes /\ [Next]_vars => OtherTypes'
<1> SUFFICES ASSUME Types, OtherTypes, [Next]_vars PROVE OtherTypes'
  OBVIOUS
<1> USE DEF OtherTypes, sockVars, taskVars, flagVars
<1>1. CASE New
  BY <1>1 DEF New
<1>2. CASE QuitServer \/ InputFails
  BY <1>2 DEF QuitServer, InputFails, DropServer
<1>3. CASE RejectSend \/ CountSend
  BY <1>3 DEF RejectSend, CountSend
<1>4. ASSUME NEW t \in Sends, SpawnSend(t) PROVE OtherTypes'
  BY <1>4 DEF SpawnSend
<1>5. ASSUME NEW t \in Sends, PollSend(t) PROVE OtherTypes'
  <2>1. CASE PollNotReady(t) \/ PollWouldBlock(t)
    BY <2>1, <1>5, SmallSets DEF PollNotReady, PollWouldBlock, Wait, PollSend
  <2>2. CASE PollDone(t)
    BY <2>2, <1>5, NdpServerAssumption DEF PollDone, PollSend
  <2> QED
    BY <1>5, <2>1, <2>2 DEF PollSend
<1>6. ASSUME NEW t \in Sends, Uncount(t) PROVE OtherTypes'
  BY <1>6 DEF Uncount
<1>7. CASE Drain
  BY <1>7, SmallSets, NdpServerAssumption DEF Drain, NoWriter
<1>8. CASE ReceiveQuit
  BY <1>8 DEF ReceiveQuit
<1>9. CASE UNCHANGED vars
  BY <1>9 DEF vars
<1> QED
  BY <1>1, <1>2, <1>3, <1>4, <1>5, <1>6, <1>7, <1>8, <1>9 DEF Next, ServerStep

(* Every variable keeps its type, and the counter never exceeds the limit  *)
(* by more than the send being counted.                                    *)
THEOREM ServerTypes == Spec => []TypeOK
<1>1. Init => OtherTypes
  <2> SUFFICES ASSUME Init PROVE OtherTypes
    OBVIOUS
  <2>1. {quit, allmulti, drop, ready, wasAllmulti} \subseteq BOOLEAN
    BY Zenon DEF Init
  <2>2. writer = {} /\ runnable = {} /\ displaced = {} /\ room \in 0..KernelRoom
    BY NdpServerAssumption DEF Init, NoWriter
  <2> QED
    BY <2>1, <2>2, SmallSets DEF OtherTypes
<1>2. QueueInv /\ OtherTypes => TypeOK
  <2> SUFFICES ASSUME QueueInv, OtherTypes PROVE TypeOK
    OBVIOUS
  <2>1. queued \in 0..MaxQueued + 1
    BY LiveIsFinite, NdpServerAssumption
    DEF QueueInv, Types, CountsSends, QueueIsBounded
  <2> QED
    BY <2>1 DEF QueueInv, Types, OtherTypes, TypeOK
<1>3. QueueInv => Types
  BY DEF QueueInv
<1> QED
  BY <1>1, <1>2, <1>3, QueueInit, QueueStep, OtherTypesStep, PTL DEF Spec

-----------------------------------------------------------------------------
(* Lost wake-ups: a task loses its place at the reactor only to another    *)
(* one, and gives it up only when it is told to run.                       *)

(* The initial state and every step keep the three sets together.          *)
LEMMA StrandedStep ==
  Types /\ OnlyDisplacedAreStranded /\ [Next]_vars => OnlyDisplacedAreStranded'
<1> SUFFICES ASSUME Types, OnlyDisplacedAreStranded, [Next]_vars
             PROVE  OnlyDisplacedAreStranded'
  OBVIOUS
<1> USE DEF OnlyDisplacedAreStranded, Types, sockVars, taskVars
<1>1. CASE New \/ QuitServer \/ InputFails \/ RejectSend \/ CountSend \/ ReceiveQuit
  BY <1>1 DEF New, QuitServer, InputFails, DropServer, RejectSend, CountSend, ReceiveQuit
<1>2. ASSUME NEW t \in Sends, SpawnSend(t) PROVE OnlyDisplacedAreStranded'
  BY <1>2 DEF SpawnSend
<1>3. ASSUME NEW t \in Sends, PollSend(t) PROVE OnlyDisplacedAreStranded'
  <2>1. CASE PollNotReady(t) \/ PollWouldBlock(t)
    BY <2>1, <1>3 DEF PollNotReady, PollWouldBlock, Wait, PollSend
  <2>2. CASE PollDone(t)
    BY <2>2, <1>3 DEF PollDone, PollSend
  <2> QED
    BY <1>3, <2>1, <2>2 DEF PollSend
<1>4. ASSUME NEW t \in Sends, Uncount(t) PROVE OnlyDisplacedAreStranded'
  BY <1>4 DEF Uncount
<1>5. CASE Drain
  BY <1>5 DEF Drain, NoWriter
<1>6. CASE UNCHANGED vars
  BY <1>6 DEF vars
<1> QED
  BY <1>1, <1>2, <1>3, <1>4, <1>5, <1>6 DEF Next, ServerStep

(* A send waits without anyone to wake it only if another one has taken    *)
(* its place.                                                              *)
THEOREM NoOtherStranded == Spec => []OnlyDisplacedAreStranded
<1>1. Init => OnlyDisplacedAreStranded
  BY DEF Init, OnlyDisplacedAreStranded
<1>2. QueueInv => Types
  BY DEF QueueInv
<1> QED
  BY <1>1, <1>2, QueueInit, QueueStep, StrandedStep, PTL DEF Spec

-----------------------------------------------------------------------------
(* The interface's flag: while there is a Server it is on, and the Server  *)
(* remembers whether it has to turn it off.                                *)

FlagInv ==
  /\ allmulti \in BOOLEAN /\ wasAllmulti \in BOOLEAN
  /\ server = "new" => allmulti = wasAllmulti
  /\ server \in {"idle", "reject", "spawn"} => allmulti = TRUE /\ drop = ~wasAllmulti
  /\ AllmultiRestored

(* Only Server::new and Server::drop touch the flag. *)
LEMMA FlagStep == FlagInv /\ [Next]_vars => FlagInv'
<1> SUFFICES ASSUME FlagInv, [Next]_vars PROVE FlagInv'
  OBVIOUS
<1> USE DEF FlagInv, AllmultiRestored, flagVars
<1>1. CASE New
  BY <1>1 DEF New
<1>2. CASE QuitServer \/ InputFails
  BY <1>2 DEF QuitServer, InputFails, DropServer
<1>3. CASE RejectSend \/ CountSend
  BY <1>3 DEF RejectSend, CountSend
<1>4. ASSUME NEW t \in Sends, SpawnSend(t) PROVE FlagInv'
  BY <1>4 DEF SpawnSend
<1>5. ASSUME NEW t \in Sends, PollSend(t) \/ Uncount(t) PROVE FlagInv'
  BY <1>5 DEF PollSend, Uncount
<1>6. CASE Drain \/ ReceiveQuit
  BY <1>6 DEF Drain, ReceiveQuit
<1>7. CASE UNCHANGED vars
  BY <1>7 DEF vars
<1> QED
  BY <1>1, <1>2, <1>3, <1>4, <1>5, <1>6, <1>7 DEF Next, ServerStep

(* A server that ends leaves the interface's allmulti flag as it was       *)
(* before Server::new.                                                     *)
THEOREM FlagRestored == Spec => []AllmultiRestored
<1>1. Init => FlagInv
  BY DEF Init, FlagInv, AllmultiRestored
<1>2. FlagInv => AllmultiRestored
  BY DEF FlagInv
<1> QED
  BY <1>1, <1>2, FlagStep, PTL DEF Spec

-----------------------------------------------------------------------------
(* The filter of module NdpFilter, for any packets and any prefixes.  What *)
(* it says of a packet it says at once: the invariant is that answeredBy   *)
(* is what the functions make of the packet.                               *)
FilterInv ==
  /\ packet \in Packets /\ prefixes \in PrefixLists
  /\ answeredBy = Pending \/ answeredBy = Answered(packet, prefixes)

LEMMA FilterInvHolds == FilterSpec => []FilterInv
<1>1. FilterInit => FilterInv
  BY DEF FilterInit, FilterInv
<1>2. FilterInv /\ [Receive]_filterVars => FilterInv'
  BY DEF FilterInv, Receive, filterVars
<1> QED
  BY <1>1, <1>2, PTL DEF FilterSpec

(* Only a valid solicitation that crosses the proxy is answered: parse     *)
(* turns the others away, and the loop of make_input_stream compares both  *)
(* the source and the target with the prefix.                              *)
THEOREM OnlyAcrossIsAnswered == FilterSpec => []AnswersOnlyAcross
<1>1. FilterInv => AnswersOnlyAcross
  <2> SUFFICES ASSUME FilterInv, NEW i \in answeredBy \ Pending
               PROVE  /\ RfcValid(packet)
                      /\ Contains(prefixes[i], packet.target)
                      /\ ~Contains(prefixes[i], packet.src)
    BY DEF AnswersOnlyAcross
  <2>1. i \in Answered(packet, prefixes)
    BY DEF FilterInv
  <2>2. Parses(packet) /\ i \in PrefixOf(packet, prefixes)
    BY <2>1 DEF Answered
  <2>3. RfcValid(packet)
    BY <2>2 DEF Parses, RfcValid
  <2>4. Crosses(packet, prefixes[i])
    BY <2>2 DEF PrefixOf, Matching
  <2> QED
    BY <2>3, <2>4 DEF Crosses
<1> QED
  BY <1>1, FilterInvHolds, PTL

(* Quotients, by the one number that can be one. *)
LEMMA DivUnique ==
  ASSUME NEW a \in Nat, NEW d \in Nat \ {0}, NEW q \in Nat, NEW r \in 0..d - 1, a = d * q + r
  PROVE  a \div d = q
BY SMT

LEMMA Rem ==
  ASSUME NEW d \in Nat \ {0}, NEW q \in Nat, NEW r \in 0..d - 1
  PROVE  (d * q + r) % d = r
BY SMT

LEMMA DivDiv ==
  ASSUME NEW a \in Nat, NEW d \in Nat \ {0}, NEW e \in Nat \ {0}
  PROVE  (a \div d) \div e = a \div (e * d)
BY SMT

(* The quotient and the remainder of a division, with what they are for. *)
LEMMA Euclid ==
  ASSUME NEW a \in Nat, NEW d \in Nat \ {0}
  PROVE  \E q \in Nat, r \in 0..d - 1 : a = d * q + r /\ a \div d = q /\ a % d = r
BY SMT

LEMMA ProductFacts ==
  ASSUME NEW u \in Nat \ {0}, NEW w \in Nat \ {0}, NEW q \in Nat, NEW s \in Nat, NEW t \in Nat
  PROVE  /\ u * w \in Nat \ {0}
         /\ u * (w * q + s) + t = (u * w) * q + (u * s + t)
         /\ u * s + t < u * w => s < w
         /\ w * q + s \in Nat
         /\ u * s + t \in Nat
BY SMT

(* What GetBits sees, with a byte of size a and segments of size b, in     *)
(* units of d; and that said with the units alone.                         *)
Seen(x, l, a, b, d)  == ((x % a) * b + l) \div d
Top(x, u, w)         == (x \div u) % w
Whole(x, l, a, w, v) == w * (x % a) + (l \div v)

(* A unit of b times u sees, of a number whose upper part is x modulo u*w, *)
(* what the unit u sees of x.                                              *)
LEMMA High ==
  ASSUME NEW x \in Nat, NEW b \in Nat \ {0}, NEW l \in 0..b - 1,
         NEW u \in Nat \ {0}, NEW w \in Nat \ {0}
  PROVE  Seen(x, l, u * w, b, u * b) = Top(x, u, w)
<1> DEFINE a == u * w
<1>1. a \in Nat \ {0}
  BY ProductFacts
<1> HIDE DEF a
<1>2. PICK q \in Nat, r \in 0..a - 1 : x = a * q + r /\ x % a = r
  BY <1>1, Euclid
<1>3. r \in Nat /\ r < a /\ l \in Nat
  BY <1>1
<1>4. PICK y \in Nat : y = b * r + l /\ y = r * b + l
  <2>1. b * r + l \in Nat
    BY <1>3, ProductFacts
  <2>2. b * r = r * b
    BY <1>3
  <2> QED BY <2>1, <2>2
<1>5. y \div b = r
  BY <1>3, <1>4, DivUnique
<1>6. y \div (u * b) = r \div u
  BY <1>5, DivDiv
<1>7. PICK s \in Nat, t \in 0..u - 1 : r = u * s + t /\ r \div u = s
  BY <1>3, Euclid
<1>8. t \in Nat
  BY <1>7
<1>9. s < w
  BY <1>3, <1>7, <1>8, ProductFacts DEF a
<1>10. PICK z \in Nat : z = w * q + s
  BY ProductFacts
<1>11. x = u * z + t
  <2>1. u * z + t = a * q + (u * s + t)
    BY <1>8, <1>10, ProductFacts DEF a
  <2> QED BY <1>2, <1>7, <2>1
<1>12. x \div u = z
  BY <1>11, <1>7, DivUnique
<1>13. z % w = s
  <2>1. s \in 0..w - 1
    BY <1>9
  <2> QED BY <2>1, <1>10, Rem
<1> QED BY <1>2, <1>4, <1>6, <1>7, <1>12, <1>13, Zenon DEF a, Seen, Top

(* A unit v that divides the upper part's weight sees that part whole.     *)
LEMMA Low ==
  ASSUME NEW x \in Nat, NEW l \in Nat, NEW a \in Nat \ {0},
         NEW v \in Nat \ {0}, NEW w \in Nat \ {0}
  PROVE  Seen(x, l, a, v * w, v) = Whole(x, l, a, w, v)
<1>1. PICK k \in Nat : k = x % a
  OBVIOUS
<1>2. PICK q \in Nat, r \in 0..v - 1 : l = v * q + r /\ l \div v = q
  BY Euclid
<1>3. r \in Nat
  OBVIOUS
<1>4. PICK z \in Nat : z = w * k + q
  BY ProductFacts
<1>5. PICK y \in Nat : y = (v * w) * k + l
  BY ProductFacts
<1>6. y = v * z + r
  <2>1. v * z + r = (v * w) * k + (v * q + r)
    BY <1>3, <1>4, ProductFacts
  <2> QED BY <1>2, <1>5, <2>1
<1>7. y \div v = z
  BY <1>6, DivUnique
<1>8. (v * w) * k = k * (v * w)
  <2>1. v * w \in Nat
    BY ProductFacts
  <2> QED BY <2>1
<1> QED BY <1>1, <1>2, <1>4, <1>5, <1>7, <1>8, Zenon DEF Seen, Whole

LEMMA HighSeen ==
  ASSUME NEW a, NEW b \in Nat \ {0}, NEW d, NEW u \in Nat \ {0}, NEW w \in Nat \ {0},
         u * w = a, u * b = d, NEW x \in Nat, NEW k \in 0..b - 1
  PROVE  Seen(x, k, a, b, d) = Top(x, u, w)
<1>1. Seen(x, k, u * w, b, u * b) = Top(x, u, w)
  BY High
<1> QED BY <1>1, Zenon

LEMMA LowSeen ==
  ASSUME NEW a \in Nat \ {0}, NEW b, NEW v \in Nat \ {0}, NEW w \in Nat \ {0}, v * w = b,
         NEW x \in Nat, NEW k \in Nat
  PROVE  Seen(x, k, a, b, v) = Whole(x, k, a, w, v)
<1>1. Seen(x, k, a, v * w, v) = Whole(x, k, a, w, v)
  BY Low
<1> QED BY <1>1, Zenon

(* The units of a mask that ends in the seventh segment, and in the eighth. *)
LEMMA HighUnits ==
  ASSUME NEW m \in 105..112
  PROVE  \E u, w \in Nat \ {0} : 2 ^ (112 - m) = u /\ 2 ^ (128 - m) = u * SegmentSize /\ u * w = ByteSize
<1>1. CASE m = 105
  <2>1. 2 ^ (112 - m) = 128 /\ 2 ^ (128 - m) = 128 * SegmentSize
    BY <1>1, SMT DEF SegmentSize, ByteSize
  <2> QED BY <2>1, 128 * 2 = 256, SMT DEF SegmentSize, ByteSize
<1>2. CASE m = 106
  <2>1. 2 ^ (112 - m) = 64 /\ 2 ^ (128 - m) = 64 * SegmentSize
    BY <1>2, SMT DEF SegmentSize, ByteSize
  <2> QED BY <2>1, 64 * 4 = 256, SMT DEF SegmentSize, ByteSize
<1>3. CASE m = 107
  <2>1. 2 ^ (112 - m) = 32 /\ 2 ^ (128 - m) = 32 * SegmentSize
    BY <1>3, SMT DEF SegmentSize, ByteSize
  <2> QED BY <2>1, 32 * 8 = 256, SMT DEF SegmentSize, ByteSize
<1>4. CASE m = 108
  <2>1. 2 ^ (112 - m) = 16 /\ 2 ^ (128 - m) = 16 * SegmentSize
    BY <1>4, SMT DEF SegmentSize, ByteSize
  <2> QED BY <2>1, 16 * 16 = 256, SMT DEF SegmentSize, ByteSize
<1>5. CASE m = 109
  <2>1. 2 ^ (112 - m) = 8 /\ 2 ^ (128 - m) = 8 * SegmentSize
    BY <1>5, SMT DEF SegmentSize, ByteSize
  <2> QED BY <2>1, 8 * 32 = 256, SMT DEF SegmentSize, ByteSize
<1>6. CASE m = 110
  <2>1. 2 ^ (112 - m) = 4 /\ 2 ^ (128 - m) = 4 * SegmentSize
    BY <1>6, SMT DEF SegmentSize, ByteSize
  <2> QED BY <2>1, 4 * 64 = 256, SMT DEF SegmentSize, ByteSize
<1>7. CASE m = 111
  <2>1. 2 ^ (112 - m) = 2 /\ 2 ^ (128 - m) = 2 * SegmentSize
    BY <1>7, SMT DEF SegmentSize, ByteSize
  <2> QED BY <2>1, 2 * 128 = 256, SMT DEF SegmentSize, ByteSize
<1>8. CASE m = 112
  <2>1. 2 ^ (112 - m) = 1 /\ 2 ^ (128 - m) = 1 * SegmentSize
    BY <1>8, SMT DEF SegmentSize, ByteSize
  <2> QED BY <2>1, 1 * 256 = 256, SMT DEF SegmentSize, ByteSize
<1> QED BY <1>1, <1>2, <1>3, <1>4, <1>5, <1>6, <1>7, <1>8, SMT DEF SegmentSize, ByteSize

LEMMA LowUnits ==
  ASSUME NEW m \in 113..128
  PROVE  \E v, w \in Nat \ {0} : 2 ^ (128 - m) = v /\ v * w = SegmentSize
<1>1. CASE m = 113
  <2>1. 2 ^ (128 - m) = 32768
    BY <1>1, SMT DEF SegmentSize, ByteSize
  <2> QED BY <2>1, 32768 * 2 = SegmentSize, SMT DEF SegmentSize, ByteSize
<1>2. CASE m = 114
  <2>1. 2 ^ (128 - m) = 16384
    BY <1>2, SMT DEF SegmentSize, ByteSize
  <2> QED BY <2>1, 16384 * 4 = SegmentSize, SMT DEF SegmentSize, ByteSize
<1>3. CASE m = 115
  <2>1. 2 ^ (128 - m) = 8192
    BY <1>3, SMT DEF SegmentSize, ByteSize
  <2> QED BY <2>1, 8192 * 8 = SegmentSize, SMT DEF SegmentSize, ByteSize
<1>4. CASE m = 116
  <2>1. 2 ^ (128 - m) = 4096
    BY <1>4, SMT DEF SegmentSize, ByteSize
  <2> QED BY <2>1, 4096 * 16 = SegmentSize, SMT DEF SegmentSize, ByteSize
<1>5. CASE m = 117
  <2>1. 2 ^ (128 - m) = 2048
    BY <1>5, SMT DEF SegmentSize, ByteSize
  <2> QED BY <2>1, 2048 * 32 = SegmentSize, SMT DEF SegmentSize, ByteSize
<1>6. CASE m = 118
  <2>1. 2 ^ (128 - m) = 1024
    BY <1>6, SMT DEF SegmentSize, ByteSize
  <2> QED BY <2>1, 1024 * 64 = SegmentSize, SMT DEF SegmentSize, ByteSize
<1>7. CASE m = 119
  <2>1. 2 ^ (128 - m) = 512
    BY <1>7, SMT DEF SegmentSize, ByteSize
  <2> QED BY <2>1, 512 * 128 = SegmentSize, SMT DEF SegmentSize, ByteSize
<1>8. CASE m = 120
  <2>1. 2 ^ (128 - m) = 256
    BY <1>8, SMT DEF SegmentSize, ByteSize
  <2> QED BY <2>1, 256 * 256 = SegmentSize, SMT DEF SegmentSize, ByteSize
<1>9. CASE m = 121
  <2>1. 2 ^ (128 - m) = 128
    BY <1>9, SMT DEF SegmentSize, ByteSize
  <2> QED BY <2>1, 128 * 512 = SegmentSize, SMT DEF SegmentSize, ByteSize
<1>10. CASE m = 122
  <2>1. 2 ^ (128 - m) = 64
    BY <1>10, SMT DEF SegmentSize, ByteSize
  <2> QED BY <2>1, 64 * 1024 = SegmentSize, SMT DEF SegmentSize, ByteSize
<1>11. CASE m = 123
  <2>1. 2 ^ (128 - m) = 32
    BY <1>11, SMT DEF SegmentSize, ByteSize
  <2> QED BY <2>1, 32 * 2048 = SegmentSize, SMT DEF SegmentSize, ByteSize
<1>12. CASE m = 124
  <2>1. 2 ^ (128 - m) = 16
    BY <1>12, SMT DEF SegmentSize, ByteSize
  <2> QED BY <2>1, 16 * 4096 = SegmentSize, SMT DEF SegmentSize, ByteSize
<1>13. CASE m = 125
  <2>1. 2 ^ (128 - m) = 8
    BY <1>13, SMT DEF SegmentSize, ByteSize
  <2> QED BY <2>1, 8 * 8192 = SegmentSize, SMT DEF SegmentSize, ByteSize
<1>14. CASE m = 126
  <2>1. 2 ^ (128 - m) = 4
    BY <1>14, SMT DEF SegmentSize, ByteSize
  <2> QED BY <2>1, 4 * 16384 = SegmentSize, SMT DEF SegmentSize, ByteSize
<1>15. CASE m = 127
  <2>1. 2 ^ (128 - m) = 2
    BY <1>15, SMT DEF SegmentSize, ByteSize
  <2> QED BY <2>1, 2 * 32768 = SegmentSize, SMT DEF SegmentSize, ByteSize
<1>16. CASE m = 128
  <2>1. 2 ^ (128 - m) = 1
    BY <1>16, SMT DEF SegmentSize, ByteSize
  <2> QED BY <2>1, 1 * SegmentSize = SegmentSize, SMT DEF SegmentSize, ByteSize
<1> QED BY <1>1, <1>2, <1>3, <1>4, <1>5, <1>6, <1>7, <1>8, <1>9, <1>10, <1>11, <1>12, <1>13, <1>14, <1>15, <1>16, SMT DEF SegmentSize, ByteSize


LEMMA SegmentFacts ==
  /\ SegmentSize \in Nat \ {0} /\ ByteSize \in Nat \ {0}
  /\ \A x \in 0..SegmentSize - 1 : x \in Nat
BY SMT DEF SegmentSize, ByteSize

HighUnit(m) == 2 ^ (112 - m)
LowUnit(m)  == 2 ^ (128 - m)

(* A prefix that ends in the seventh segment or in the eighth: addresses   *)
(* that agree in its bits agree in what GetBits sees of them.              *)
LEMMA SeventhAgrees ==
  ASSUME NEW x \in 0..SegmentSize - 1, NEW y \in 0..SegmentSize - 1,
         NEW k \in 0..SegmentSize - 1, NEW l \in 0..SegmentSize - 1,
         NEW m \in 105..112, x \div HighUnit(m) = y \div HighUnit(m)
  PROVE  Seen(x, k, ByteSize, SegmentSize, LowUnit(m)) = Seen(y, l, ByteSize, SegmentSize, LowUnit(m))
<1>1. PICK u, w \in Nat \ {0} :
        HighUnit(m) = u /\ LowUnit(m) = u * SegmentSize /\ u * w = ByteSize
  BY HighUnits DEF HighUnit, LowUnit
<1>2. /\ Seen(x, k, ByteSize, SegmentSize, LowUnit(m)) = Top(x, u, w)
      /\ Seen(y, l, ByteSize, SegmentSize, LowUnit(m)) = Top(y, u, w)
  BY <1>1, SegmentFacts, HighSeen
<1> QED BY <1>1, <1>2, Zenon DEF Top

LEMMA EighthAgrees ==
  ASSUME NEW x \in Nat, NEW k \in Nat, NEW l \in Nat,
         NEW m \in 113..128, k \div LowUnit(m) = l \div LowUnit(m)
  PROVE  Seen(x, k, ByteSize, SegmentSize, LowUnit(m)) = Seen(x, l, ByteSize, SegmentSize, LowUnit(m))
<1>1. PICK v, w \in Nat \ {0} : LowUnit(m) = v /\ v * w = SegmentSize
  BY LowUnits DEF LowUnit
<1>2. /\ Seen(x, k, ByteSize, SegmentSize, v) = Whole(x, k, ByteSize, w, v)
      /\ Seen(x, l, ByteSize, SegmentSize, v) = Whole(x, l, ByteSize, w, v)
  BY <1>1, SegmentFacts, LowSeen
<1>3. k \div v = l \div v
  BY <1>1
<1> QED BY <1>1, <1>2, <1>3, Zenon DEF Whole

(* A prefix longer than 104 bits has the low bits of every address in it,  *)
(* and of the solicited-node address of each.                              *)
LEMMA SolicitedLowBits ==
  ASSUME NEW t \in Address
  PROVE  /\ make_solicited_node_multicast(t)[7] % ByteSize = t[7] % ByteSize
         /\ make_solicited_node_multicast(t)[8] = t[8]
<1>1. t[7] \in Nat
  BY SegmentFacts DEF Address
<1> QED BY <1>1, SMT DEF make_solicited_node_multicast, ByteSize

LEMMA ContainedHasLowBits ==
  ASSUME NEW t \in Address, NEW n \in Address, NEW m \in 105..128,
         \A i \in 1..8 : t[i] \div 2 ^ (16 - Covered(m, i)) = n[i] \div 2 ^ (16 - Covered(m, i))
  PROVE  GetBits(make_solicited_node_multicast(t), m) = GetBits(n, m)
<1>1. /\ t[7] \in 0..SegmentSize - 1 /\ t[8] \in 0..SegmentSize - 1
      /\ n[7] \in 0..SegmentSize - 1 /\ n[8] \in 0..SegmentSize - 1
  BY DEF Address
<1>2. \A a : GetBits(a, m) = Seen(a[7], a[8], ByteSize, SegmentSize, LowUnit(m))
  BY Zenon DEF GetBits, Seen, LowUnit
<1>3. GetBits(make_solicited_node_multicast(t), m)
        = Seen(t[7], t[8], ByteSize, SegmentSize, LowUnit(m))
  BY <1>2, SolicitedLowBits, Zenon DEF Seen
<1>4. CASE m \in 105..112
  <2>1. 2 ^ (16 - Covered(m, 7)) = HighUnit(m)
    <3>1. 16 - Covered(m, 7) = 112 - m
      BY <1>4, SMT DEF Covered
    <3> QED BY <3>1 DEF HighUnit
  <2>2. t[7] \div HighUnit(m) = n[7] \div HighUnit(m)
    BY <2>1, 7 \in 1..8, Zenon
  <2>3. Seen(t[7], t[8], ByteSize, SegmentSize, LowUnit(m))
          = Seen(n[7], n[8], ByteSize, SegmentSize, LowUnit(m))
    BY <1>1, <1>4, <2>2, SeventhAgrees
  <2> QED BY <1>2, <1>3, <2>3
<1>5. CASE m \in 113..128
  <2>1. 16 - Covered(m, 7) = 0 /\ 2 ^ (16 - Covered(m, 8)) = LowUnit(m)
    <3>1. 16 - Covered(m, 7) = 0 /\ 16 - Covered(m, 8) = 128 - m
      BY <1>5, SMT DEF Covered
    <3> QED BY <3>1 DEF LowUnit
  <2>2. t[7] \div 2 ^ 0 = n[7] \div 2 ^ 0
    BY <2>1, 7 \in 1..8, Zenon
  <2>3. t[8] \div LowUnit(m) = n[8] \div LowUnit(m)
    BY <2>1, 8 \in 1..8, Zenon
  <2>4. t[7] = n[7]
    <3>1. \A x \in Nat : x \div 2 ^ 0 = x
      BY ONLY SMT
    <3> QED BY <1>1, <2>2, <3>1, SegmentFacts
  <2>5. Seen(t[7], t[8], ByteSize, SegmentSize, LowUnit(m))
          = Seen(t[7], n[8], ByteSize, SegmentSize, LowUnit(m))
    <3>1. t[7] \in Nat /\ t[8] \in Nat /\ n[8] \in Nat
      BY <1>1, SegmentFacts
    <3> QED BY <3>1, <1>5, <2>3, EighthAgrees, ZenonT(60)
  <2> QED BY <1>2, <1>3, <2>4, <2>5
<1> QED
  BY <1>4, <1>5

(* RFC 4861's address resolution is answered: parse accepts it, the first  *)
(* prefix that contains the target is taken, and the comparison of the low *)
(* bits finds those of the prefix in the solicited-node address.           *)
THEOREM EveryResolutionIsAnswered == FilterSpec => []ResolutionsAreAnswered
<1>1. FilterInv => ResolutionsAreAnswered
  <2> DEFINE p == packet
             Containing == {i \in DOMAIN prefixes : Contains(prefixes[i], p.target)}
  <2> SUFFICES ASSUME FilterInv, answeredBy # Pending,
                      p.type = "NeighborSolicit", RfcValid(p), p.src # Unspecified,
                      p.dst = make_solicited_node_multicast(p.target),
                      p.options = <<[source |-> TRUE, length |-> 1]>>,
                      Containing # {},
                      \A i \in DOMAIN prefixes : ~Contains(prefixes[i], p.src)
               PROVE  answeredBy # {}
    BY DEF ResolutionsAreAnswered
  <2>1. answeredBy = Answered(p, prefixes) /\ p \in Packets /\ prefixes \in PrefixLists
    BY DEF FilterInv
  <2>2. p.target \in Address /\ prefixes \in Seq([net : Address, mask : 0..128])
    BY <2>1, NdpFilterAssumption
  <2>3. is_solicited_node_multicast(p.dst)
    BY DEF is_solicited_node_multicast, make_solicited_node_multicast
  <2>4. SourceOptions(p) = {1} /\ p.options[1].length = 1
    BY DEF SourceOptions
  <2>5. PassesSocket(p) /\ Parses(p)
    BY <2>3, <2>4, Zenon DEF PassesSocket, Parses, RfcValid
  <2>6. Matching(p, prefixes) = Containing
    BY DEF Matching, Crosses
  <2>7. PICK i \in Containing : \A j \in Containing : i <= j
    <3>1. Containing \subseteq Nat
      BY <2>2
    <3> QED BY <3>1, NatMin
  <2>8. i \in PrefixOf(p, prefixes)
    BY <2>6, <2>7, Zenon DEF PrefixOf
  <2>9. prefixes[i] \in [net : Address, mask : 0..128]
    <3>1. i \in DOMAIN prefixes
      OBVIOUS
    <3> HIDE DEF Containing
    <3>2. \A R : prefixes \in Seq(R) => prefixes[i] \in R
      BY <3>1
    <3> QED BY <2>2, <3>2, Zenon
  <2>10. ASSUME prefixes[i].mask > 104
         PROVE  GetBits(p.dst, prefixes[i].mask) = GetBits(prefixes[i].net, prefixes[i].mask)
    <3>1. prefixes[i].mask \in 105..128 /\ prefixes[i].net \in Address
      BY <2>9, <2>10
    <3>2. \A k \in 1..8 : p.target[k] \div 2 ^ (16 - Covered(prefixes[i].mask, k))
                            = prefixes[i].net[k] \div 2 ^ (16 - Covered(prefixes[i].mask, k))
      BY Zenon DEF Contains
    <3>3. PICK m, n : m = prefixes[i].mask /\ n = prefixes[i].net
      OBVIOUS
    <3>4. GetBits(make_solicited_node_multicast(p.target), m) = GetBits(n, m)
      BY <2>2, <3>1, <3>2, <3>3, ContainedHasLowBits, Zenon
    <3> QED BY <3>3, <3>4
  <2>11. IsAddressResolution(p, prefixes[i])
    BY <2>3, <2>4, <2>10 DEF IsAddressResolution
  <2> QED BY <2>1, <2>5, <2>8, <2>11 DEF Answered
<1> QED
  BY <1>1, FilterInvHolds, PTL
=============================================================================
