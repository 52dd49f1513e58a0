------------------------- MODULE PingStream_proofs --------------------------
(***************************************************************************)
(* Proofs about PingStream for windows, buffers, inputs and numbers of     *)
(* retransmissions of any size: the sender's list of packets waiting for   *)
(* an acknowledgement has room for every packet it sends; the receiver     *)
(* writes the sender's input in order; what is acknowledged has arrived;   *)
(* neither end closes before everything is delivered; and the receiver's   *)
(* window takes in every new packet.                                       *)
(*                                                                         *)
(* The parts, in order, with the predicates they are about:                *)
(*   the sender's fields and a turn of its loop       SndOK, Turn          *)
(*   the list of packets waiting is the window        WaitOK, WaitInv      *)
(*   the numbers of the connection's packets          Numbering, OrderInv  *)
(*   the positions the receiver tracks                Tracked, SeqnosOK    *)
(*   the list and what an ACK names                   Sending, Names       *)
(*   a turn keeps the list, and the window passes     SendingTurn, Passed  *)
(*   the cells packets carry and the receiver holds   Cuts, ReceivedIn     *)
(*   what is tracked has arrived, ACKs name that      TrackInv, AckInv     *)
(*   what the sender made is acknowledged or waiting  SendInv              *)
(*   the end of the connection                        FinInv               *)
(*   all of these together                            Flow, FlowInv        *)
(***************************************************************************)
EXTENDS PingStream, OpsLemmas, FiniteSetTheorems

-----------------------------------------------------------------------------
(* The types of the sender's fields.                                       *)
Payload      == Seq(Nat)
ServerPacket == [flags : SUBSET {"Syn", "Ack", "Fin"}, seqno : Seqno, payload : Payload]
Entry        == [seqno : Seqno, payload : Payload, acked : BOOLEAN]
Item         == [kind : {"Input", "Retransmission"}, seqno : Seqno, payload : Payload]

Inputs(s) == {d \in s.nextData : d.kind = "Input"}

(* Fields that fit together: the read buffer's three positions, one packet *)
(* to be sent next, and nothing to be retransmitted but retransmissions.   *)
(* A payload that read_buf still holds begins with a cell taken from it.   *)
BeginsIn(p, n) == p[1] \in 1..n

SndOK(s) ==
  /\ s \in [next : Seqno, send : SUBSET ServerPacket, read : 0..InputLen, eof : BOOLEAN,
            trimmed : Nat, taken : Nat, nextData : SUBSET Item, retrans : Seq(Item),
            wait : Seq(Entry)]
  /\ s.trimmed <= s.taken /\ s.taken <= s.read
  /\ \A d, e \in s.nextData : d = e
  /\ \A d \in Inputs(s) : BeginsIn(d.payload, s.taken)
  /\ \A i \in DOMAIN s.wait : BeginsIn(s.wait[i].payload, s.taken)
  /\ \A i \in DOMAIN s.retrans : s.retrans[i].kind = "Retransmission"

(* The packets waiting carry consecutive numbers, the last one before the  *)
(* next; those not acknowledged and the one to be sent are a window.       *)
WaitOK(s) ==
  LET len == Len(s.wait)
  IN  /\ \A i \in DOMAIN s.wait : s.wait[i].seqno = Plus(s.next, i - len - 1)
      /\ \A i \in Unacked(s.wait) : len + 1 - i <= SenderWindow
      /\ Inputs(s) # {} => \A i \in Unacked(s.wait) : len + 1 - i < SenderWindow

-----------------------------------------------------------------------------
(* The list of packets waiting.                                            *)

(* A list of the same packets, of which no more are waiting.               *)
Similar(w, v) ==
  /\ v \in Seq(Entry) /\ Len(v) = Len(w) /\ DOMAIN v = DOMAIN w
  /\ \A i \in DOMAIN w : v[i].seqno = w[i].seqno /\ v[i].payload = w[i].payload
  /\ Unacked(v) \subseteq Unacked(w)

LEMMA PlusType ==
  ASSUME NEW x \in Int, NEW y \in Int
  PROVE  Plus(x, y) \in Seqno
<1>1. x + y \in Int /\ SeqMod \in Nat \ {0}
  BY SeqModAssumption
<1> QED BY <1>1, ModSmall DEF Plus, Seqno

(* The list without entries at its front, none of them waiting.            *)
DropsFront(w, v, d) ==
  /\ v \in Seq(Entry) /\ d \in 0..Len(w) /\ Len(v) = Len(w) - d
  /\ \A i \in 1..Len(v) : i + d \in DOMAIN w /\ v[i] = w[i + d]
  /\ \A i \in Unacked(w) : d < i

LEMMA MarkFacts ==
  ASSUME NEW w \in Seq(Entry), NEW I
  PROVE  Similar(w, Mark(w, I))
<1>1. \A i \in DOMAIN w : w[i] \in Entry
  OBVIOUS
<1>2. \A i \in DOMAIN w : [w[i] EXCEPT !.acked = @ \/ i \in I] \in Entry
  BY <1>1 DEF Entry
<1>3. Mark(w, I) \in Seq(Entry) /\ Len(Mark(w, I)) = Len(w) /\ DOMAIN Mark(w, I) = DOMAIN w
  <2>1. DOMAIN w = 1..Len(w) /\ Len(w) \in Nat
    OBVIOUS
  <2>2. Mark(w, I) \in [1..Len(w) -> Entry]
    BY <1>2, <2>1 DEF Mark
  <2> QED BY <2>1, <2>2
<1>4. \A i \in DOMAIN w : /\ Mark(w, I)[i].seqno = w[i].seqno
                          /\ Mark(w, I)[i].payload = w[i].payload
                          /\ w[i].acked => Mark(w, I)[i].acked
  BY <1>1 DEF Mark, Entry
<1> QED BY <1>3, <1>4 DEF Similar, Unacked

LEMMA FirstUnackedFacts ==
  ASSUME NEW w \in Seq(Entry), Unacked(w) # {}
  PROVE  /\ FirstUnacked(w) \in Unacked(w) /\ FirstUnacked(w) \in 1..Len(w)
         /\ \A j \in Unacked(w) : FirstUnacked(w) <= j
<1>1. Unacked(w) \subseteq 1..Len(w) /\ 1..Len(w) \subseteq Nat
  BY DEF Unacked
<1>2. \E x \in Unacked(w) : \A y \in Unacked(w) : x <= y
  BY <1>1, NatMin
<1> QED BY <1>1, <1>2 DEF FirstUnacked

LEMMA CleanedFacts ==
  ASSUME NEW w \in Seq(Entry)
  PROVE  /\ \E d \in Nat : DropsFront(w, Cleaned(w), d)
         /\ Unacked(w) = {} => Cleaned(w) = <<>>
         /\ Unacked(w) # {} => Len(Cleaned(w)) = Len(w) + 1 - FirstUnacked(w)
<1>1. CASE Unacked(w) = {}
  <2>1. Cleaned(w) = <<>>
    BY <1>1 DEF Cleaned
  <2>2. DropsFront(w, <<>>, Len(w))
    BY <1>1 DEF DropsFront
  <2> QED BY <1>1, <2>1, <2>2
<1>2. CASE Unacked(w) # {}
  <2>1. PICK f : f = FirstUnacked(w)
    OBVIOUS
  <2>2. f \in 1..Len(w) /\ \A j \in Unacked(w) : f <= j
    BY <1>2, <2>1, FirstUnackedFacts
  <2>3. Cleaned(w) = SubSeq(w, f, Len(w))
    BY <1>2, <2>1 DEF Cleaned
  <2>4. PICK v : v = SubSeq(w, f, Len(w))
    OBVIOUS
  <2>5. /\ v \in Seq(Entry) /\ Len(v) = Len(w) + 1 - f
        /\ \A i \in 1..Len(v) : v[i] = w[i + (f - 1)]
    BY <2>2, <2>4
  <2>6. DropsFront(w, v, f - 1)
    <3>1. f - 1 \in 0..Len(w) /\ Len(v) = Len(w) - (f - 1)
      BY <2>2, <2>5
    <3>2. \A i \in 1..Len(v) : i + (f - 1) \in DOMAIN w
      BY <2>2, <2>5
    <3>3. \A i \in Unacked(w) : f - 1 < i
      BY <2>2 DEF Unacked
    <3> QED BY <2>5, <3>1, <3>2, <3>3 DEF DropsFront
  <2>7. f - 1 \in Nat
    BY <2>2
  <2> QED BY <1>2, <2>1, <2>3, <2>4, <2>5, <2>6, <2>7
<1> QED BY <1>1, <1>2

(* The list of those still waiting has entries of the list, in order.      *)
LEMMA UnackedEntriesFacts ==
  ASSUME NEW w \in Seq(Entry)
  PROVE  /\ UnackedEntries(w) \in Seq(Entry)
         /\ \A k \in DOMAIN UnackedEntries(w) :
              \E i \in DOMAIN w : UnackedEntries(w)[k] = w[i]
<1> DEFINE U == Unacked(w)
           UpTo(i) == {j \in U : j <= i}
<1>1. U \subseteq 1..Len(w) /\ Len(w) \in Nat /\ DOMAIN w = 1..Len(w)
  BY DEF Unacked
<1>2. IsFiniteSet(U) /\ Cardinality(U) \in Nat
  <2>1. IsFiniteSet(1..Len(w))
    BY <1>1, FS_Interval
  <2> QED BY <1>1, <2>1, FS_Subset, FS_CardinalityType
<1>3. \A i : IsFiniteSet(UpTo(i)) /\ Cardinality(UpTo(i)) \in Nat
  <2>1. \A i : UpTo(i) \subseteq U
    OBVIOUS
  <2> QED BY <1>2, <2>1, FS_Subset, FS_CardinalityType
<1>4. ASSUME NEW k \in 1..Cardinality(U)
      PROVE  \E i \in U : Cardinality(UpTo(i)) = k
  <2> DEFINE T == {i \in 0..Len(w) : k <= Cardinality(UpTo(i))}
  <2>1. UpTo(Len(w)) = U
    BY <1>1
  <2>2. k \in Nat /\ 1 <= k /\ k <= Cardinality(U)
    BY <1>2
  <2>3. Len(w) \in T /\ T \subseteq Nat
    <3>1. PICK n : n = Len(w)
      OBVIOUS
    <3>2. n \in 0..n /\ k <= Cardinality(UpTo(n)) /\ 0..n \subseteq Nat
      <4>1. UpTo(n) = U
        BY <2>1, <3>1
      <4>2. n \in Nat
        BY <1>1, <3>1
      <4> HIDE DEF UpTo, U
      <4> QED BY <2>2, <4>1, <4>2
    <3> HIDE DEF UpTo
    <3> QED BY <3>1, <3>2
  <2>4. PICK i \in T : \A j \in T : i <= j
    <3> HIDE DEF T
    <3> QED BY <2>3, NatMin
  <2>5. UpTo(0) = {}
    BY <1>1
  <2>6. i # 0
    <3>1. ~(k <= Cardinality(UpTo(0)))
      <4>1. Cardinality(UpTo(0)) = Cardinality({})
        BY <2>5
      <4>2. Cardinality({}) = 0
        BY FS_EmptySet, Zenon
      <4> HIDE DEF UpTo
      <4> QED BY <2>2, <4>1, <4>2
    <3> HIDE DEF UpTo
    <3> QED BY <2>4, <3>1
  <2>7. i \in 1..Len(w) /\ i - 1 \in 0..Len(w)
    BY <1>1, <2>4, <2>6
  <2>8. PICK before, c : before = UpTo(i - 1) /\ c = UpTo(i)
    OBVIOUS
  <2>9. PICK n1, n : n1 = Cardinality(before) /\ n = Cardinality(c)
    OBVIOUS
  <2>10. n1 \in Nat /\ n \in Nat /\ IsFiniteSet(before)
    BY <1>3, <2>8, <2>9
  <2>11. k <= n /\ ~(k <= n1)
    <3>1. i - 1 \notin T
      BY <2>4, <2>7
    <3> QED BY <2>4, <2>7, <2>8, <2>9, <3>1
  <2>12. i \in U
    <3> SUFFICES ASSUME i \notin U PROVE FALSE
      OBVIOUS
    <3>1. c = before
      BY <1>1, <2>7, <2>8
    <3> QED BY <2>9, <2>11, <3>1
  <2>13. n = n1 + 1
    <3>1. c = before \cup {i} /\ i \notin before
      BY <1>1, <2>7, <2>8, <2>12
    <3> QED BY ONLY <2>9, <2>10, <3>1, FS_AddElement
  <2>14. n = k
    BY <2>2, <2>10, <2>11, <2>13
  <2> QED BY <2>8, <2>9, <2>12, <2>14
<1>5. \A k \in 1..Cardinality(U) :
         \E i \in DOMAIN w : UnackedEntries(w)[k] = w[i]
  <2> SUFFICES ASSUME NEW k \in 1..Cardinality(U)
               PROVE  \E i \in DOMAIN w : UnackedEntries(w)[k] = w[i]
    OBVIOUS
  <2>1. PICK n : n = CHOOSE i \in Unacked(w) : Cardinality({j \in Unacked(w) : j <= i}) = k
    OBVIOUS
  <2>2. n \in U
    BY <1>4, <2>1
  <2>3. UnackedEntries(w)[k] = w[n]
    BY <2>1 DEF UnackedEntries
  <2> QED BY <1>1, <2>2, <2>3
<1>6. DOMAIN UnackedEntries(w) = 1..Cardinality(U)
  BY DEF UnackedEntries
<1>7. UnackedEntries(w) \in [1..Cardinality(U) -> Entry]
  <2>1. UnackedEntries(w) = [k \in 1..Cardinality(U) |-> UnackedEntries(w)[k]]
    BY DEF UnackedEntries
  <2>2. \A k \in 1..Cardinality(U) : UnackedEntries(w)[k] \in Entry
    BY <1>5
  <2> HIDE DEF U
  <2> QED BY <2>1, <2>2
<1> QED BY <1>2, <1>5, <1>6, <1>7

LEMMA RemovedFacts ==
  ASSUME NEW w \in Seq(Entry), NEW lo, NEW hi
  PROVE  Similar(w, Removed(w, lo, hi))
BY MarkFacts DEF Removed

LEMMA SimilarIsTransitive ==
  ASSUME NEW u, NEW v, NEW w, Similar(u, v), Similar(v, w)
  PROVE  Similar(u, w)
BY DEF Similar

LEMMA SyncedFacts ==
  ASSUME NEW w \in Seq(Entry), NEW p
  PROVE  Similar(w, Removed(WindowSynced(w, p), p.lo, p.hi))
<1>1. Similar(w, w)
  BY DEF Similar
<1>2. PICK v : v = WindowSynced(w, p)
  OBVIOUS
<1>3. Similar(w, v)
  BY <1>1, <1>2, RemovedFacts DEF WindowSynced
<1>4. v \in Seq(Entry)
  BY <1>3 DEF Similar
<1>5. Similar(v, Removed(v, p.lo, p.hi))
  BY <1>4, RemovedFacts
<1> QED BY <1>2, <1>3, <1>5, SimilarIsTransitive

-----------------------------------------------------------------------------
(* The parts of a turn, on fields s that fit together.                     *)

(* What making room and reading leave alone.                               *)
Keeps(s, t) ==
  /\ SndOK(t)
  /\ t.next = s.next /\ t.send = s.send /\ t.taken = s.taken
  /\ t.nextData = s.nextData /\ t.retrans = s.retrans
  /\ s.read <= t.read
  /\ \E d \in Nat : DropsFront(s.wait, t.wait, d)

LEMMA KeepsSame ==
  ASSUME NEW s, SndOK(s)
  PROVE  Keeps(s, s)
<1>1. DropsFront(s.wait, s.wait, 0)
  BY DEF SndOK, DropsFront, Unacked
<1> QED BY <1>1 DEF Keeps, SndOK

LEMMA DropsFrontTransitive ==
  ASSUME NEW u \in Seq(Entry), NEW v, NEW w, NEW d \in Nat, NEW e \in Nat,
         DropsFront(u, v, d), DropsFront(v, w, e)
  PROVE  DropsFront(u, w, d + e)
<1>1. /\ w \in Seq(Entry) /\ Len(u) \in Nat /\ Len(v) \in Nat /\ Len(w) \in Nat
      /\ Len(v) = Len(u) - d /\ Len(w) = Len(v) - e
      /\ DOMAIN u = 1..Len(u) /\ DOMAIN v = 1..Len(v)
  BY DEF DropsFront
<1>2. d + e \in 0..Len(u) /\ Len(w) = Len(u) - (d + e)
  BY <1>1
<1>3. \A i \in 1..Len(w) : i + (d + e) \in DOMAIN u /\ w[i] = u[i + (d + e)]
  <2> TAKE i \in 1..Len(w)
  <2>1. i + e \in 1..Len(v) /\ w[i] = v[i + e] /\ (i + e) + d = i + (d + e)
    BY <1>1 DEF DropsFront
  <2> QED BY <2>1 DEF DropsFront
<1>4. ASSUME NEW i \in Unacked(u) PROVE d + e < i
  <2>1. i \in 1..Len(u) /\ d < i
    BY <1>1 DEF DropsFront, Unacked
  <2>2. i - d \in 1..Len(v) /\ (i - d) + d = i
    BY <1>1, <2>1
  <2>3. v[i - d] = u[i]
    BY <2>2 DEF DropsFront
  <2>4. i - d \in Unacked(v)
    BY <1>1, <2>2, <2>3 DEF Unacked
  <2> QED BY <2>1, <2>4 DEF DropsFront
<1> QED BY <1>1, <1>2, <1>3, <1>4 DEF DropsFront

LEMMA KeepsTransitive ==
  ASSUME NEW s, NEW t, NEW u, SndOK(s), Keeps(s, t), Keeps(t, u)
  PROVE  Keeps(s, u)
<1>1. PICK d \in Nat, e \in Nat : DropsFront(s.wait, t.wait, d) /\ DropsFront(t.wait, u.wait, e)
  BY DEF Keeps
<1>2. s.wait \in Seq(Entry) /\ s.read \in Int /\ t.read \in Int /\ u.read \in Int
  BY DEF Keeps, SndOK
<1>3. DropsFront(s.wait, u.wait, d + e) /\ d + e \in Nat
  <2>1. PICK x, y, z : x = s.wait /\ y = t.wait /\ z = u.wait
    OBVIOUS
  <2>2. x \in Seq(Entry) /\ DropsFront(x, y, d) /\ DropsFront(y, z, e)
    BY <1>1, <1>2, <2>1
  <2>3. DropsFront(x, z, d + e)
    BY ONLY <2>2, DropsFrontTransitive
  <2> QED BY <2>1, <2>3
<1> QED BY <1>2, <1>3 DEF Keeps

(* read_buf.cleanup().                                                     *)
LEMMA TrimFacts ==
  ASSUME NEW s, SndOK(s)
  PROVE  Keeps(s, Trim(s)) /\ Trim(s).read = s.read /\ Trim(s).eof = s.eof
<1>1. PICK held : held = {s.wait[i].payload : i \in DOMAIN s.wait}
                           \cup {d.payload : d \in Inputs(s)}
  OBVIOUS
<1> DEFINE Cut(c) == /\ \A p \in held : c < p[1]
                     /\ c = s.taken \/ \E p \in held : p[1] = c + 1
<1>2. \E c \in 0..s.taken : Cut(c)
  <2>1. s.taken \in Nat /\ \A p \in held : p[1] \in 1..s.taken
    BY <1>1 DEF SndOK, BeginsIn
  <2>2. CASE held = {}
    <3>1. Cut(s.taken) /\ s.taken \in 0..s.taken
      BY <2>1, <2>2
    <3> QED BY <3>1
  <2>3. CASE held # {}
    <3>1. PICK B : B = {p[1] : p \in held}
      OBVIOUS
    <3>2. B \subseteq Nat /\ B # {}
      BY <2>1, <2>3, <3>1
    <3>3. PICK x \in B : \A y \in B : x <= y
      BY <3>2, NatMin
    <3>4. x \in 1..s.taken /\ \E p \in held : p[1] = x
      BY <2>1, <3>1
    <3>5. \A p \in held : p[1] \in 1..s.taken /\ x <= p[1]
      BY <2>1, <3>1, <3>3
    <3>6. Cut(x - 1) /\ x - 1 \in 0..s.taken
      BY <2>1, <3>4, <3>5
    <3> QED BY <3>6
  <2> QED BY <2>2, <2>3
<1>3. PICK c : c = CHOOSE x \in 0..s.taken : Cut(x)
  OBVIOUS
<1>4. c \in 0..s.taken
  BY <1>2, <1>3
<1>5. Trim(s) = [s EXCEPT !.trimmed = c]
  BY <1>1, <1>3, Zenon DEF Trim, Inputs
<1>6. PICK t : t = [s EXCEPT !.trimmed = c]
  OBVIOUS
<1>7. /\ t.next = s.next /\ t.send = s.send /\ t.taken = s.taken /\ t.trimmed = c
      /\ t.nextData = s.nextData /\ t.retrans = s.retrans /\ t.wait = s.wait
      /\ t.read = s.read /\ t.eof = s.eof
  BY <1>6 DEF SndOK
<1>8. SndOK(t)
  <2>1. c \in Nat /\ c <= s.taken
    BY <1>4 DEF SndOK
  <2>2. t = [next |-> s.next, send |-> s.send, read |-> s.read, eof |-> s.eof,
             trimmed |-> c, taken |-> s.taken, nextData |-> s.nextData,
             retrans |-> s.retrans, wait |-> s.wait]
    BY <1>6 DEF SndOK
  <2> QED BY <2>1, <2>2, <1>7 DEF SndOK, Inputs
<1>9. DropsFront(s.wait, t.wait, 0)
  BY <1>7 DEF SndOK, DropsFront, Unacked
<1>10. s.read <= t.read
  BY <1>7 DEF SndOK
<1>11. Keeps(s, t)
  BY <1>7, <1>8, <1>9, <1>10 DEF Keeps
<1> QED BY <1>5, <1>6, <1>7, <1>11

(* Cleaning up the list keeps the fields together. *)
LEMMA CleanWaitFacts ==
  ASSUME NEW s, SndOK(s)
  PROVE  LET t == [s EXCEPT !.wait = Cleaned(@)]
         IN  /\ Keeps(s, t) /\ t.wait = Cleaned(s.wait)
             /\ t.read = s.read /\ t.eof = s.eof
<1>1. PICK w, t : w = Cleaned(s.wait) /\ t = [s EXCEPT !.wait = w]
  OBVIOUS
<1>2. s.wait \in Seq(Entry)
  BY DEF SndOK
<1>3. PICK d \in Nat : DropsFront(s.wait, w, d)
  BY <1>1, <1>2, CleanedFacts
<1>4. /\ t.next = s.next /\ t.send = s.send /\ t.taken = s.taken /\ t.trimmed = s.trimmed
      /\ t.nextData = s.nextData /\ t.retrans = s.retrans /\ t.wait = w
      /\ t.read = s.read /\ t.eof = s.eof
      /\ t = [next |-> s.next, send |-> s.send, read |-> s.read, eof |-> s.eof,
              trimmed |-> s.trimmed, taken |-> s.taken, nextData |-> s.nextData,
              retrans |-> s.retrans, wait |-> w]
  BY <1>1 DEF SndOK
<1>5. SndOK(t)
  <2>1. w \in Seq(Entry) /\ \A i \in DOMAIN w : \E j \in DOMAIN s.wait : w[i] = s.wait[j]
    <3>1. w \in Seq(Entry) /\ \A i \in 1..Len(w) : i + d \in DOMAIN s.wait /\ w[i] = s.wait[i + d]
      BY <1>3 DEF DropsFront
    <3>2. DOMAIN w = 1..Len(w)
      BY <3>1
    <3> QED BY <3>1, <3>2
  <2>2. \A i \in DOMAIN w : BeginsIn(w[i].payload, s.taken)
    BY <2>1 DEF SndOK
  <2> QED BY <1>4, <2>1, <2>2 DEF SndOK, Inputs
<1>6. s.read <= t.read
  BY <1>4 DEF SndOK
<1>7. Keeps(s, t)
  BY <1>3, <1>4, <1>5, <1>6 DEF Keeps
<1> QED BY <1>1, <1>4, <1>7

LEMMA MakeRoomFacts ==
  ASSUME NEW s, SndOK(s)
  PROVE  Keeps(s, MakeRoom(s)) /\ MakeRoom(s).read = s.read /\ MakeRoom(s).eof = s.eof
<1>1. PICK t : t = Trim(s)
  OBVIOUS
<1>2. Keeps(s, t) /\ t.read = s.read /\ t.eof = s.eof /\ SndOK(t)
  BY <1>1, TrimFacts DEF Keeps
<1>3. PICK u : u = [t EXCEPT !.wait = Cleaned(@)]
  OBVIOUS
<1>4. Keeps(t, u) /\ u.read = s.read /\ u.eof = s.eof /\ SndOK(u)
  BY <1>2, <1>3, CleanWaitFacts DEF Keeps
<1>5. Keeps(u, Trim(u)) /\ Trim(u).read = s.read /\ Trim(u).eof = s.eof
  BY <1>4, TrimFacts
<1>6. Keeps(s, Trim(u))
  BY <1>2, <1>4, <1>5, KeepsTransitive
<1>7. MakeRoom(s) = s \/ MakeRoom(s) = t \/ MakeRoom(s) = Trim(u)
  BY <1>1, <1>3 DEF MakeRoom
<1> QED BY <1>2, <1>5, <1>6, <1>7, KeepsSame

(* What poll_read() may answer about an input of which s.read cells were   *)
(* read.                                                                   *)
Answers(s) == {NotReady} \cup 0..InputLen - s.read

LEMMA FillReadBufFacts ==
  ASSUME NEW s, SndOK(s), NEW stdin \in Answers(s)
  PROVE  Keeps(s, FillReadBuf(s, stdin))
<1>1. PICK r : r = MakeRoom(s)
  OBVIOUS
<1>2. Keeps(s, r) /\ r.read = s.read /\ SndOK(r)
  BY <1>1, MakeRoomFacts DEF Keeps
<1>3. CASE s.eof \/ ~ReadActive(s, stdin)
  <2>1. FillReadBuf(s, stdin) = s \/ FillReadBuf(s, stdin) = r
    BY <1>1, <1>3 DEF FillReadBuf
  <2> QED BY <1>2, <2>1, KeepsSame
<1>4. CASE ~s.eof /\ ReadActive(s, stdin)
  <2>1. PICK n : n = IF stdin <= Space(r) THEN stdin ELSE Space(r)
    OBVIOUS
  <2>2. PICK e \in BOOLEAN : e = (stdin = 0)
    OBVIOUS
  <2>3. PICK t : t = [r EXCEPT !.read = @ + n, !.eof = e]
    OBVIOUS
  <2>4. FillReadBuf(s, stdin) = t
    BY <1>1, <1>4, <2>1, <2>2, <2>3, Zenon DEF FillReadBuf
  <2>5. /\ InputLen \in Nat /\ ReadBufSize \in Nat /\ r.read \in 0..InputLen
        /\ r.trimmed \in Nat
    BY <1>2, SenderAssumption DEF SndOK
  <2>6. Space(r) \in Int /\ Space(r) > 0 /\ stdin \in 0..InputLen - r.read
    BY <1>1, <1>2, <1>4, <2>5 DEF ReadActive, Space, Answers, NotReady
  <2>7. n \in Nat /\ r.read + n \in 0..InputLen
    BY <2>1, <2>5, <2>6
  <2>8. /\ t.next = r.next /\ t.send = r.send /\ t.taken = r.taken /\ t.trimmed = r.trimmed
        /\ t.nextData = r.nextData /\ t.retrans = r.retrans /\ t.wait = r.wait
        /\ t.read = r.read + n
        /\ t = [next |-> r.next, send |-> r.send, read |-> r.read + n, eof |-> e,
                trimmed |-> r.trimmed, taken |-> r.taken, nextData |-> r.nextData,
                retrans |-> r.retrans, wait |-> r.wait]
    BY <2>3, <1>2, Zenon DEF SndOK
  <2>9. r.taken <= r.read + n /\ r.read <= r.read + n
    BY <1>2, <2>5, <2>7 DEF SndOK
  <2>10. SndOK(t)
    BY <1>2, <2>2, <2>7, <2>8, <2>9 DEF SndOK, Inputs
  <2>11. Keeps(r, t)
    <3>1. \E d \in Nat : DropsFront(r.wait, t.wait, d)
      BY <1>2, <2>8, KeepsSame DEF Keeps
    <3> QED BY <2>8, <2>9, <2>10, <3>1 DEF Keeps
  <2> QED BY <1>2, <2>4, <2>11, KeepsTransitive
<1> QED BY <1>3, <1>4

(* The cells after the first a, up to number b. *)
Cells(a, b) == [k \in 1..b - a |-> a + k]

(* poll_make_next_data: a packet to be retransmitted, or a new one.        *)
QueueTaken(s, t) ==
  /\ s.nextData = {} /\ t.taken = s.taken /\ t.retrans = Tail(s.retrans)
  /\ \E i \in DOMAIN s.retrans : t.nextData = {s.retrans[i]}

InputTaken(s, t) ==
  /\ s.nextData = {} /\ ~WindowFull(s) /\ t.retrans = s.retrans
  /\ s.taken < t.taken /\ t.taken <= s.read
  /\ t.nextData = {[kind |-> "Input", seqno |-> 0, payload |-> Cells(s.taken, t.taken)]}

LEMMA FillNextDataFacts ==
  ASSUME NEW s, SndOK(s)
  PROVE  LET t == FillNextData(s)
         IN  /\ SndOK(t)
             /\ t.next = s.next /\ t.send = s.send /\ t.wait = s.wait
             /\ t = s \/ QueueTaken(s, t) \/ InputTaken(s, t)
<1>1. CASE s.nextData # {}
  BY <1>1 DEF FillNextData
<1>2. CASE s.nextData = {} /\ s.retrans # <<>>
  <2>1. PICK h, q : h = Head(s.retrans) /\ q = Tail(s.retrans)
    OBVIOUS
  <2>2. PICK t : t = [s EXCEPT !.nextData = {h}, !.retrans = q]
    OBVIOUS
  <2>3. FillNextData(s) = t
    BY <1>2, <2>1, <2>2, Zenon DEF FillNextData
  <2>4. /\ t.next = s.next /\ t.send = s.send /\ t.wait = s.wait /\ t.taken = s.taken
        /\ t.retrans = q /\ t.nextData = {h} /\ t.read = s.read /\ t.trimmed = s.trimmed
        /\ t = [next |-> s.next, send |-> s.send, read |-> s.read, eof |-> s.eof,
                trimmed |-> s.trimmed, taken |-> s.taken, nextData |-> {h},
                retrans |-> q, wait |-> s.wait]
    BY <2>2 DEF SndOK
  <2>5. PICK r : r = s.retrans
    OBVIOUS
  <2>6. r \in Seq(Item) /\ r # <<>> /\ h = Head(r) /\ q = Tail(r)
    BY <1>2, <2>1, <2>5 DEF SndOK
  <2>7. /\ 1 \in DOMAIN r /\ h = r[1] /\ h \in Item
        /\ q \in Seq(Item) /\ \A i \in DOMAIN q : i + 1 \in DOMAIN r /\ q[i] = r[i + 1]
    BY <2>6
  <2>8. h.kind = "Retransmission" /\ \A i \in DOMAIN q : q[i].kind = "Retransmission"
    BY <2>5, <2>7 DEF SndOK
  <2>9. SndOK(t)
    BY <2>4, <2>7, <2>8 DEF SndOK, Inputs
  <2>10. QueueTaken(s, t)
    BY <1>2, <2>1, <2>4, <2>5, <2>7 DEF QueueTaken
  <2> QED BY <2>3, <2>4, <2>9, <2>10
<1>3. CASE s.nextData = {} /\ s.retrans = <<>> /\ (WindowFull(s) \/ s.read = s.taken)
  BY <1>3 DEF FillNextData
<1>4. CASE s.nextData = {} /\ s.retrans = <<>> /\ ~(WindowFull(s) \/ s.read = s.taken)
  <2>1. PICK n : n = IF s.read - s.taken < MaxPayload THEN s.read - s.taken ELSE MaxPayload
    OBVIOUS
  <2>2. s.read \in 0..InputLen /\ s.taken \in Nat /\ s.taken <= s.read
        /\ MaxPayload \in Nat \ {0} /\ InputLen \in Nat
    BY SenderAssumption DEF SndOK
  <2>3. n \in Nat \ {0} /\ s.taken + n \in Nat /\ s.taken + n <= s.read
    BY <1>4, <2>1, <2>2
  <2>4. PICK c : c = [i \in 1..n |-> s.taken + i]
    OBVIOUS
  <2>5. c \in Payload /\ Len(c) = n /\ c[1] \in 1..s.taken + n
    <3>1. c \in [1..n -> Nat] /\ c[1] = s.taken + 1
      BY <2>2, <2>3, <2>4
    <3>2. c \in Payload /\ Len(c) = n
      BY <2>3, <3>1 DEF Payload
    <3>3. s.taken + 1 \in 1..s.taken + n
      BY <2>2, <2>3
    <3> QED BY <3>1, <3>2, <3>3
  <2>6. c = Chunk(s) /\ c = Cells(s.taken, s.taken + n)
    <3>1. (s.taken + n) - s.taken = n
      BY <2>2, <2>3
    <3> QED BY <2>1, <2>4, <3>1 DEF Chunk, Cells
  <2>7. PICK d : d = [kind |-> "Input", seqno |-> 0, payload |-> c]
    OBVIOUS
  <2>8. PICK t : t = [s EXCEPT !.nextData = {d}, !.taken = @ + n]
    OBVIOUS
  <2>9. FillNextData(s) = t
    <3>1. FillNextData(s) = [s EXCEPT !.nextData = {[kind |-> "Input", seqno |-> 0,
                                                      payload |-> Chunk(s)]},
                                      !.taken = @ + Len(Chunk(s))]
      BY <1>4, Zenon DEF FillNextData
    <3> QED BY <2>5, <2>6, <2>7, <2>8, <3>1, Zenon
  <2>10. /\ t.next = s.next /\ t.send = s.send /\ t.wait = s.wait /\ t.taken = s.taken + n
         /\ t.retrans = s.retrans /\ t.nextData = {d} /\ t.read = s.read
         /\ t.trimmed = s.trimmed
         /\ t = [next |-> s.next, send |-> s.send, read |-> s.read, eof |-> s.eof,
                 trimmed |-> s.trimmed, taken |-> s.taken + n, nextData |-> {d},
                 retrans |-> s.retrans, wait |-> s.wait]
    BY <2>8 DEF SndOK
  <2>11. d \in Item /\ d.payload = c /\ 0 \in Seqno
    BY <2>5, <2>7, SeqModAssumption DEF Item, Seqno
  <2>12. SndOK(t)
    <3>1. \A i \in DOMAIN s.wait : BeginsIn(s.wait[i].payload, s.taken + n)
      <4>1. \A x : x \in 1..s.taken => x \in 1..s.taken + n
        BY <2>2, <2>3
      <4> QED BY <4>1 DEF SndOK, BeginsIn
    <3>2. BeginsIn(c, s.taken + n)
      BY <2>5 DEF BeginsIn
    <3>3. s.trimmed <= s.taken + n
      BY <2>2, <2>3 DEF SndOK
    <3> QED BY <2>3, <2>10, <2>11, <3>1, <3>2, <3>3 DEF SndOK, Inputs
  <2>13. InputTaken(s, t)
    <3>1. s.taken < s.taken + n
      BY <2>2, <2>3
    <3> QED BY <1>4, <2>3, <2>6, <2>7, <2>10, <3>1 DEF InputTaken
  <2> QED BY <2>9, <2>10, <2>12, <2>13
<1> QED BY <1>1, <1>2, <1>3, <1>4

(* poll_make_send_future: the packet to be sent next is on its way; a new  *)
(* one has the next number and is waiting from now on.                     *)
Resent(s, t) ==
  \E d \in s.nextData \ Inputs(s) :
     /\ t.send = {ToServer({}, d.seqno, d.payload)}
     /\ t.nextData = {} /\ t.next = s.next /\ t.wait = s.wait

FirstSent(s, t) ==
  \E d \in Inputs(s) :
     /\ t.send = {ToServer({}, s.next, d.payload)}
     /\ t.nextData = {} /\ t.next = Plus(s.next, 1)
     /\ t.wait = Append(RoomInWait(s),
                   [seqno |-> s.next, payload |-> d.payload, acked |-> FALSE])

LEMMA MakeDataSendFutFacts ==
  ASSUME NEW s, SndOK(s)
  PROVE  LET t == MakeDataSendFut(s)
         IN  /\ SndOK(t)
             /\ t.taken = s.taken /\ t.retrans = s.retrans
             /\ t = s \/ Resent(s, t) \/ FirstSent(s, t)
<1>1. CASE ~CanMakeSend(s)
  BY <1>1 DEF MakeDataSendFut
<1>2. CASE CanMakeSend(s)
  <2>1. PICK d : d = CHOOSE x \in s.nextData : TRUE
    OBVIOUS
  <2>2. d \in s.nextData /\ s.nextData = {d} /\ d \in Item
    BY <1>2, <2>1 DEF CanMakeSend, SndOK
  <2>3. \A q \in Seqno : ToServer({}, q, d.payload) \in ServerPacket
    BY <2>2 DEF Item, ToServer, ServerPacket
  <2>4. CASE d.kind = "Retransmission"
    <3>1. PICK p : p = ToServer({}, d.seqno, d.payload)
      OBVIOUS
    <3>2. PICK t : t = [s EXCEPT !.nextData = {}, !.send = {p}]
      OBVIOUS
    <3>3. MakeDataSendFut(s) = t
      <4>1. d.kind # "Input"
        BY <2>4
      <4> QED BY <1>2, <2>1, <2>4, <3>1, <3>2, <4>1, Zenon DEF MakeDataSendFut
    <3>4. /\ t.next = s.next /\ t.send = {p} /\ t.wait = s.wait /\ t.taken = s.taken
          /\ t.retrans = s.retrans /\ t.nextData = {}
          /\ t = [next |-> s.next, send |-> {p}, read |-> s.read, eof |-> s.eof,
                  trimmed |-> s.trimmed, taken |-> s.taken, nextData |-> {},
                  retrans |-> s.retrans, wait |-> s.wait]
      BY <3>2 DEF SndOK
    <3>5. p \in ServerPacket
      BY <2>2, <2>3, <3>1 DEF Item
    <3>6. SndOK(t)
      BY <3>4, <3>5 DEF SndOK, Inputs
    <3>7. Resent(s, t)
      BY <2>2, <2>4, <3>1, <3>4 DEF Resent, Inputs
    <3> QED BY <3>3, <3>4, <3>6, <3>7
  <2>5. CASE d.kind = "Input"
    <3>1. PICK p, e : /\ p = ToServer({}, s.next, d.payload)
                      /\ e = [seqno |-> s.next, payload |-> d.payload, acked |-> FALSE]
      OBVIOUS
    <3>2. PICK w : w = Append(RoomInWait(s), e)
      OBVIOUS
    <3>3. PICK n : n = Plus(s.next, 1)
      OBVIOUS
    <3>4. PICK t : t = [s EXCEPT !.nextData = {}, !.send = {p}, !.next = n, !.wait = w]
      OBVIOUS
    <3>5. MakeDataSendFut(s) = t
      <4>1. d.kind # "Retransmission"
        BY <2>5
      <4>2. PICK u : u = [s EXCEPT !.nextData = {}, !.send = {p}]
        OBVIOUS
      <4>3. MakeDataSendFut(s) = [u EXCEPT !.next = Plus(@, 1), !.wait = w]
        BY <1>2, <2>1, <2>5, <3>1, <3>2, <4>1, <4>2, Zenon DEF MakeDataSendFut
      <4>4. u.next = s.next
        BY <4>2 DEF SndOK
      <4> QED BY <3>3, <3>4, <4>2, <4>3, <4>4 DEF SndOK
    <3>6. /\ t.next = n /\ t.send = {p} /\ t.wait = w /\ t.taken = s.taken
          /\ t.retrans = s.retrans /\ t.nextData = {}
          /\ t = [next |-> n, send |-> {p}, read |-> s.read, eof |-> s.eof,
                  trimmed |-> s.trimmed, taken |-> s.taken, nextData |-> {},
                  retrans |-> s.retrans, wait |-> w]
      BY <3>4 DEF SndOK
    <3>7. p \in ServerPacket /\ e \in Entry /\ e.payload = d.payload /\ s.next \in Int
      BY <2>2, <2>3, <3>1, SeqModAssumption DEF SndOK, Item, Entry, Seqno
    <3>8. n \in Seqno
      BY <3>3, <3>7, PlusType
    <3>9. PICK r : r = RoomInWait(s)
      OBVIOUS
    <3>10. /\ r \in Seq(Entry)
           /\ \A i \in DOMAIN r : BeginsIn(r[i].payload, s.taken)
      BY <3>9, CleanWaitFacts DEF RoomInWait, Keeps, SndOK
    <3>11. BeginsIn(e.payload, s.taken)
      BY <2>2, <2>5, <3>7 DEF SndOK, Inputs
    <3>12. w \in Seq(Entry) /\ \A i \in DOMAIN w : BeginsIn(w[i].payload, s.taken)
      <4>1. /\ w \in Seq(Entry) /\ DOMAIN w = DOMAIN r \cup {Len(r) + 1}
            /\ w[Len(r) + 1] = e /\ \A i \in DOMAIN r : w[i] = r[i]
        BY <3>2, <3>7, <3>9, <3>10
      <4> QED BY <3>10, <3>11, <4>1
    <3>13. SndOK(t)
      BY <3>6, <3>7, <3>8, <3>12 DEF SndOK, Inputs
    <3>14. FirstSent(s, t)
      BY <2>2, <2>5, <3>1, <3>2, <3>3, <3>6 DEF FirstSent, Inputs
    <3> QED BY <3>5, <3>6, <3>13, <3>14
  <2> QED BY <2>2, <2>4, <2>5 DEF Item
<1> QED BY <1>1, <1>2

(* poll_receive_packets of the sender: packets are acknowledged.           *)
Acks(s, t) ==
  /\ SndOK(t)
  /\ t.next = s.next /\ t.send = s.send /\ t.taken = s.taken
  /\ t.nextData = s.nextData /\ t.retrans = s.retrans
  /\ Similar(s.wait, t.wait)

LEMMA PollReceivePacketsFacts ==
  ASSUME NEW s, SndOK(s), NEW got
  PROVE  /\ Acks(s, PollReceivePackets(s, got))
         /\ got = {} => PollReceivePackets(s, got) = s
<1>1. Similar(s.wait, s.wait) /\ s.wait \in Seq(Entry)
  BY DEF Similar, SndOK
<1>2. CASE ~ReceiveActive(s, got)
  BY <1>1, <1>2 DEF PollReceivePackets, Acks
<1>3. CASE ReceiveActive(s, got)
  <2>1. PICK p : p = CHOOSE x \in got : TRUE
    OBVIOUS
  <2>2. PICK w : w = Removed(WindowSynced(s.wait, p), p.lo, p.hi)
    OBVIOUS
  <2>3. PICK t : t = [s EXCEPT !.wait = w]
    OBVIOUS
  <2>4. PollReceivePackets(s, got) = t /\ got # {}
    BY <1>3, <2>1, <2>2, <2>3, Zenon DEF PollReceivePackets, ReceiveActive
  <2>5. Similar(s.wait, w)
    BY <1>1, <2>2, SyncedFacts
  <2>6. /\ t.next = s.next /\ t.send = s.send /\ t.taken = s.taken /\ t.wait = w
        /\ t.nextData = s.nextData /\ t.retrans = s.retrans
        /\ t = [next |-> s.next, send |-> s.send, read |-> s.read, eof |-> s.eof,
                trimmed |-> s.trimmed, taken |-> s.taken, nextData |-> s.nextData,
                retrans |-> s.retrans, wait |-> w]
    BY <2>3 DEF SndOK
  <2>7. w \in Seq(Entry) /\ \A i \in DOMAIN w : BeginsIn(w[i].payload, s.taken)
    <3>1. /\ w \in Seq(Entry) /\ DOMAIN w = DOMAIN s.wait
          /\ \A i \in DOMAIN s.wait : w[i].payload = s.wait[i].payload
      BY <2>5 DEF Similar
    <3> QED BY <3>1 DEF SndOK
  <2>8. SndOK(t)
    BY <2>6, <2>7 DEF SndOK, Inputs
  <2> QED BY <2>4, <2>5, <2>6, <2>8 DEF Acks
<1> QED BY <1>2, <1>3

(* poll_timeout: packets waiting are queued for retransmission.            *)
Requeues(s, t) ==
  /\ SndOK(t)
  /\ t.next = s.next /\ t.send = s.send /\ t.taken = s.taken
  /\ t.nextData = s.nextData /\ t.wait = s.wait
  /\ \/ t.retrans = s.retrans
     \/ \A k \in DOMAIN t.retrans : \E i \in DOMAIN s.wait :
          /\ t.retrans[k].seqno = s.wait[i].seqno
          /\ t.retrans[k].payload = s.wait[i].payload

LEMMA PollTimeoutFacts ==
  ASSUME NEW s, SndOK(s), NEW timer
  PROVE  Requeues(s, PollTimeout(s, timer))
<1>1. CASE ~TimeoutActive(s, timer)
  BY <1>1 DEF PollTimeout, Requeues
<1>2. CASE TimeoutActive(s, timer)
  <2>1. PICK due : due = UnackedEntries(s.wait)
    OBVIOUS
  <2>2. PICK r : r = [i \in DOMAIN due |->
                        [kind |-> "Retransmission", seqno |-> due[i].seqno,
                         payload |-> due[i].payload]]
    OBVIOUS
  <2>3. PICK t : t = [s EXCEPT !.retrans = r]
    OBVIOUS
  <2>4. PollTimeout(s, timer) = t
    BY <1>2, <2>1, <2>2, <2>3, Zenon DEF PollTimeout
  <2>5. /\ due \in Seq(Entry)
        /\ \A k \in DOMAIN due : \E i \in DOMAIN s.wait : due[k] = s.wait[i]
    BY <2>1, UnackedEntriesFacts DEF SndOK
  <2>6. /\ r \in Seq(Item) /\ DOMAIN r = DOMAIN due
        /\ \A k \in DOMAIN r : /\ r[k].kind = "Retransmission"
                               /\ r[k].seqno = due[k].seqno
                               /\ r[k].payload = due[k].payload
    <3>1. DOMAIN due = 1..Len(due) /\ Len(due) \in Nat /\ \A k \in DOMAIN due : due[k] \in Entry
      BY <2>5
    <3>2. \A k \in 1..Len(due) : [kind |-> "Retransmission", seqno |-> due[k].seqno,
                                  payload |-> due[k].payload] \in Item
      BY <3>1 DEF Item, Entry
    <3>3. r \in [1..Len(due) -> Item]
      BY <2>2, <3>1, <3>2
    <3>4. r \in Seq(Item)
      BY <3>1, <3>3
    <3> QED BY <2>2, <3>4
  <2>7. /\ t.next = s.next /\ t.send = s.send /\ t.taken = s.taken /\ t.wait = s.wait
        /\ t.nextData = s.nextData /\ t.retrans = r
        /\ t = [next |-> s.next, send |-> s.send, read |-> s.read, eof |-> s.eof,
                trimmed |-> s.trimmed, taken |-> s.taken, nextData |-> s.nextData,
                retrans |-> r, wait |-> s.wait]
    BY <2>3 DEF SndOK
  <2>8. SndOK(t)
    BY <2>6, <2>7 DEF SndOK, Inputs
  <2>9. \A k \in DOMAIN r : \E i \in DOMAIN s.wait :
           r[k].seqno = s.wait[i].seqno /\ r[k].payload = s.wait[i].payload
    BY <2>5, <2>6
  <2> QED BY <2>4, <2>7, <2>8, <2>9 DEF Requeues
<1> QED BY <1>1, <1>2

LEMMA FlushFacts ==
  ASSUME NEW s, SndOK(s)
  PROVE  LET t == Flush(s)
         IN  /\ SndOK(t) /\ t.next = s.next /\ t.send = {} /\ t.taken = s.taken
             /\ t.nextData = s.nextData /\ t.retrans = s.retrans /\ t.wait = s.wait
BY DEF Flush, SndOK, Inputs

-----------------------------------------------------------------------------
(* A turn of poll_send_data's loop, as the sequence of its parts: before   *)
(* the first send future is looked at, and all of it.                      *)
Fills(s, t) ==
  /\ SndOK(t) /\ t.next = s.next /\ t.send = s.send /\ t.wait = s.wait
  /\ t = s \/ QueueTaken(s, t) \/ InputTaken(s, t)

Sends(s, t) ==
  /\ SndOK(t) /\ t.taken = s.taken /\ t.retrans = s.retrans
  /\ t = s \/ Resent(s, t) \/ FirstSent(s, t)

Flushes(s, t) ==
  /\ SndOK(t) /\ t.next = s.next /\ t.send \subseteq s.send /\ t.taken = s.taken
  /\ t.nextData = s.nextData /\ t.retrans = s.retrans /\ t.wait = s.wait

Prepares(s, s1, s2) == Keeps(s, s1) /\ Fills(s1, s2)

Turn(s, s1, s2, s3, s4, s5, s6, s7) ==
  /\ Prepares(s, s1, s2)
  /\ Sends(s2, s3) /\ Flushes(s3, s4) /\ Acks(s4, s5) /\ Requeues(s5, s6) /\ Keeps(s6, s7)

(* The connection is closed by a FIN with the next number.                 *)
ClosesWith(s, t) ==
  /\ s.wait = <<>> /\ s.nextData = {}
  /\ t = [StartData(s.next) EXCEPT !.send = {ToServer({"Fin"}, s.next, <<>>)},
                                   !.read = s.read, !.taken = s.taken,
                                   !.trimmed = s.trimmed, !.eof = TRUE]

LEMMA SendDataIsATurn ==
  ASSUME SndOK(snd), NEW stdin \in StdinOutcomes, NEW writable \in BOOLEAN,
         NEW got, NEW timer, SendData(stdin, writable, got, timer)
  PROVE  \E s1, s2, s3, s4, s5, s6, s7 :
           /\ Turn(snd, s1, s2, s3, s4, s5, s6, s7)
           /\ c2s \subseteq c2s' /\ c2s' \subseteq c2s \cup s3.send
           /\ s5 = PollReceivePackets(s4, got)
           /\ sState = "SendData" /\ UNCHANGED <<sTries, s2c>>
           /\ \/ AddPanicsIn(s2) /\ sState' = "Panicked" /\ snd' = snd /\ c2s' = c2s
              \/ sState' = "TimedOut" /\ snd' = snd
              \/ sState' = "SendFin" /\ ClosesWith(s7, snd')
              \/ sState' = "SendData" /\ snd' = s7
<1>1. PICK s1 : s1 = FillReadBuf(snd, stdin)
  OBVIOUS
<1>2. PICK s2 : s2 = FillNextData(s1)
  OBVIOUS
<1>3. PICK s3 : s3 = MakeDataSendFut(s2)
  OBVIOUS
<1>4. PICK s4 : s4 = IF writable THEN Flush(s3) ELSE s3
  OBVIOUS
<1>5. PICK s5 : s5 = PollReceivePackets(s4, got)
  OBVIOUS
<1>6. PICK s6 : s6 = PollTimeout(s5, timer)
  OBVIOUS
<1>7. PICK active \in BOOLEAN : active <=> \/ ReadActive(snd, stdin)
                                           \/ writable
                                           \/ ReceiveActive(s4, got)
                                           \/ TimeoutActive(s5, timer)
  <2>1. \A x \in BOOLEAN : \E y \in BOOLEAN : y <=> x
    OBVIOUS
  <2> QED BY <2>1
<1>8. PICK atEnd \in BOOLEAN : atEnd <=> ~active /\ s6.eof /\ s6.nextData = {}
  <2>1. \A x \in BOOLEAN : \E y \in BOOLEAN : y <=> x
    OBVIOUS
  <2> QED BY <2>1
<1>9. PICK s7 : s7 = IF atEnd THEN [s6 EXCEPT !.wait = Cleaned(@)] ELSE s6
  OBVIOUS
<1>10. stdin \in Answers(snd)
  <2>1. snd.read \in 0..InputLen /\ InputLen \in Nat
    BY SenderAssumption DEF SndOK
  <2> QED BY <2>1 DEF StdinOutcomes, Answers
<1>11. Keeps(snd, s1) /\ SndOK(s1)
  BY <1>1, <1>10, FillReadBufFacts DEF Keeps
<1>12. Fills(s1, s2) /\ SndOK(s2)
  BY <1>2, <1>11, FillNextDataFacts DEF Fills
<1>13. Sends(s2, s3) /\ SndOK(s3)
  BY <1>3, <1>12, MakeDataSendFutFacts DEF Sends
<1>14. Flushes(s3, s4) /\ SndOK(s4)
  BY <1>4, <1>13, FlushFacts DEF Flushes
<1>15. Acks(s4, s5) /\ SndOK(s5)
  BY <1>5, <1>14, PollReceivePacketsFacts DEF Acks
<1>16. Requeues(s5, s6) /\ SndOK(s6)
  BY <1>6, <1>15, PollTimeoutFacts DEF Requeues
<1>17. Keeps(s6, s7) /\ (atEnd => s7.nextData = {})
  <2>1. Keeps(s6, [s6 EXCEPT !.wait = Cleaned(@)])
    BY <1>16, CleanWaitFacts
  <2>2. Keeps(s6, s6)
    BY <1>16, KeepsSame
  <2>3. Keeps(s6, s7)
    BY <1>9, <2>1, <2>2
  <2> QED BY <1>8, <2>3 DEF Keeps
<1>18. Turn(snd, s1, s2, s3, s4, s5, s6, s7)
  BY <1>11, <1>12, <1>13, <1>14, <1>15, <1>16, <1>17 DEF Turn, Prepares
<1>19. /\ sState = "SendData" /\ UNCHANGED <<sTries, s2c>>
       /\ writable => ~AddPanicsIn(s2)
       /\ c2s' = IF writable THEN c2s \cup s3.send ELSE c2s
       /\ CASE AddPanicsIn(s2) -> sState' = "Panicked" /\ UNCHANGED snd
            [] ~AddPanicsIn(s2) /\ timer = "connection" ->
                 sState' = "TimedOut" /\ UNCHANGED snd
            [] OTHER ->
                 IF atEnd /\ s7.wait = <<>>
                 THEN /\ sState' = "SendFin"
                      /\ snd' = [StartData(s7.next) EXCEPT
                                   !.send = {ToServer({"Fin"}, s7.next, <<>>)},
                                   !.read = s7.read, !.taken = s7.taken,
                                   !.trimmed = s7.trimmed, !.eof = TRUE]
                 ELSE sState' = sState /\ snd' = s7
  BY <1>1, <1>2, <1>3, <1>4, <1>5, <1>6, <1>7, <1>8, <1>9, Zenon DEF SendData
<1>20. \/ AddPanicsIn(s2) /\ sState' = "Panicked" /\ snd' = snd /\ c2s' = c2s
       \/ sState' = "TimedOut" /\ snd' = snd
       \/ sState' = "SendFin" /\ ClosesWith(s7, snd')
       \/ sState' = "SendData" /\ snd' = s7
  BY <1>17, <1>19 DEF ClosesWith
<1>21. c2s \subseteq c2s' /\ c2s' \subseteq c2s \cup s3.send
  BY <1>19
<1> QED BY <1>5, <1>18, <1>19, <1>20, <1>21

-----------------------------------------------------------------------------
(* The sender's fields fit together in every state.                        *)
Idle(s) == s.wait = <<>> /\ s.nextData = {} /\ s.retrans = <<>>

SenderInv ==
  SndOK(snd) /\ (sState \notin {"SendData", "TimedOut", "Panicked"} => Idle(snd))

LEMMA StartDataFacts ==
  ASSUME NEW next \in Seqno, NEW f \in SUBSET {"Syn", "Ack", "Fin"}, NEW q \in Seqno
  PROVE  /\ SndOK(StartData(next)) /\ Idle(StartData(next))
         /\ ToServer(f, q, <<>>) \in ServerPacket
BY SenderAssumption DEF SndOK, StartData, Idle, Inputs, ToServer, ServerPacket, Payload

(* Another packet to send, and another number. *)
LEMMA SendFacts ==
  ASSUME NEW s, SndOK(s), Idle(s), NEW n \in Seqno, NEW p \in SUBSET ServerPacket
  PROVE  /\ SndOK([s EXCEPT !.next = n, !.send = p]) /\ Idle([s EXCEPT !.next = n, !.send = p])
         /\ SndOK([s EXCEPT !.send = p]) /\ Idle([s EXCEPT !.send = p])
BY DEF SndOK, Idle, Inputs

LEMMA SenderStep ==
  ASSUME SenderInv, SenderNext
  PROVE  SenderInv'
<1>1. SndOK(snd) /\ snd.next \in Seqno /\ snd.next \in Int
  BY SeqModAssumption DEF SenderInv, SndOK, Seqno
<1>2. Plus(snd.next, 1) \in Seqno /\ Plus(Plus(snd.next, 1), 1) \in Seqno
  <2>1. \A x \in Seqno : Plus(x, 1) \in Seqno
    BY PlusType, SeqModAssumption DEF Seqno
  <2> QED BY <1>1, <2>1
<1>3. CASE SendFirstSyn \/ SendFin \/ SendLastAck
  <2>1. Idle(snd) /\ snd' = [snd EXCEPT !.send = {}]
    BY <1>3 DEF SendFirstSyn, SendFin, SendLastAck, Flush, SenderInv
  <2> QED BY <1>1, <2>1, SendFacts DEF SenderInv
<1>4. CASE WaitForSynAck
  <2>1. PICK p : p = ToServer({"Ack"}, Plus(snd.next, 1), <<>>)
    OBVIOUS
  <2>2. snd' = [snd EXCEPT !.next = Plus(Plus(snd.next, 1), 1), !.send = {p}]
    BY <1>4, <2>1 DEF WaitForSynAck
  <2>3. p \in ServerPacket /\ Idle(snd)
    BY <1>2, <1>4, <2>1, StartDataFacts DEF WaitForSynAck, SenderInv
  <2> QED BY <1>1, <1>2, <2>2, <2>3, SendFacts DEF SenderInv
<1>5. CASE SynTimeout \/ FinTimeout
  <2>1. PICK p : p = SynPacket(snd.next)
    OBVIOUS
  <2>2. snd' = [snd EXCEPT !.send = {p}] /\ Idle(snd)
    BY <1>5, <2>1 DEF SynTimeout, FinTimeout, SenderInv
  <2>3. p \in ServerPacket
    BY <1>1, <2>1, StartDataFacts DEF SynPacket
  <2> QED BY <1>1, <2>2, <2>3, SendFacts DEF SenderInv
<1>6. CASE SenderGivesUp
  BY <1>6 DEF SenderGivesUp, SenderInv
<1>7. CASE SendAck
  <2>1. snd' = StartData(snd.next)
    BY <1>7 DEF SendAck
  <2> QED BY <1>1, <2>1, StartDataFacts DEF SenderInv
<1>8. CASE WaitForFinAck
  <2>1. PICK p : p = ToServer({"Ack"}, snd.next, <<>>)
    OBVIOUS
  <2>2. snd' = [snd EXCEPT !.next = Plus(snd.next, 1), !.send = {p}]
    BY <1>1, <1>8, <2>1 DEF WaitForFinAck, SndOK
  <2>3. p \in ServerPacket /\ Idle(snd)
    BY <1>1, <1>8, <2>1, StartDataFacts DEF WaitForFinAck, SenderInv
  <2> QED BY <1>1, <1>2, <2>2, <2>3, SendFacts DEF SenderInv
<1>9. CASE SendDataStep
  <2>1. PICK stdin \in StdinOutcomes, writable \in BOOLEAN,
             got \in {{}} \cup {{p} : p \in {q \in s2c : PassesSender(q)}},
             timer \in {"none", "ack", "connection"} :
          SendData(stdin, writable, got, timer)
    BY <1>9 DEF SendDataStep
  <2>2. PICK s1, s2, s3, s4, s5, s6, s7 :
          /\ Turn(snd, s1, s2, s3, s4, s5, s6, s7)
          /\ \/ AddPanicsIn(s2) /\ sState' = "Panicked" /\ snd' = snd
             \/ sState' = "TimedOut" /\ snd' = snd
             \/ sState' = "SendFin" /\ ClosesWith(s7, snd')
             \/ sState' = "SendData" /\ snd' = s7
    BY <1>1, <2>1, SendDataIsATurn
  <2>3. SndOK(s7)
    BY <2>2 DEF Turn, Keeps
  <2>4. CASE ClosesWith(s7, snd')
    <3>1. PICK p : p = ToServer({"Fin"}, s7.next, <<>>)
      OBVIOUS
    <3>2. s7.next \in Seqno
      BY <2>3 DEF SndOK
    <3>3. p \in ServerPacket
      BY <3>1, <3>2, StartDataFacts
    <3>4. snd' = [next |-> s7.next, send |-> {p}, read |-> s7.read, eof |-> TRUE,
                  trimmed |-> s7.trimmed, taken |-> s7.taken, nextData |-> {},
                  retrans |-> <<>>, wait |-> <<>>]
      BY <2>4, <3>1 DEF ClosesWith, StartData
    <3>5. SndOK(snd') /\ Idle(snd')
      BY <2>3, <3>3, <3>4 DEF SndOK, Idle, Inputs
    <3> QED BY <3>5 DEF SenderInv
  <2> QED BY <1>1, <2>2, <2>3, <2>4 DEF SenderInv
<1> QED BY <1>3, <1>4, <1>5, <1>6, <1>7, <1>8, <1>9 DEF SenderNext

LEMMA SenderInvHolds == Spec => []SenderInv
<1>1. Init => SenderInv
  <2> SUFFICES ASSUME Init PROVE SenderInv
    OBVIOUS
  <2>1. PICK s \in InitSeqnos : snd = [StartData(s) EXCEPT !.send = {SynPacket(s)}]
    BY DEF Init, SenderInit
  <2>2. s \in Seqno
    BY SenderAssumption
  <2>3. /\ SndOK(StartData(s)) /\ Idle(StartData(s)) /\ SynPacket(s) \in ServerPacket
    BY <2>2, StartDataFacts DEF SynPacket
  <2> QED BY <2>1, <2>2, <2>3, SendFacts DEF SenderInv
<1>2. SenderInv /\ [Next]_vars => SenderInv'
  <2>1. SenderInv /\ SenderNext => SenderInv'
    BY SenderStep
  <2>2. SenderInv /\ UNCHANGED sVars => SenderInv'
    BY DEF SenderInv, sVars
  <2> QED BY <2>1, <2>2 DEF Next, Ended, vars
<1> QED BY <1>1, <1>2, PTL DEF Spec

-----------------------------------------------------------------------------
(* The list has room.  With the largest window, SeqMod, the window would   *)
(* never be found full: the difference of two numbers is less.             *)
WindowIsSmaller == SenderWindow < SeqMod

LEMMA DropsFrontKeepsList ==
  ASSUME NEW w \in Seq(Entry), NEW v, NEW d \in Nat, DropsFront(w, v, d), NEW n,
         NEW m \in Nat,
         \A i \in DOMAIN w : w[i].seqno = Plus(n, i - Len(w) - 1),
         \A i \in Unacked(w) : Len(w) + 1 - i <= m
  PROVE  /\ \A i \in DOMAIN v : v[i].seqno = Plus(n, i - Len(v) - 1)
         /\ \A i \in Unacked(v) : Len(v) + 1 - i <= m
<1>1. /\ v \in Seq(Entry) /\ Len(w) \in Nat /\ Len(v) \in Nat /\ Len(v) = Len(w) - d
      /\ DOMAIN w = 1..Len(w) /\ DOMAIN v = 1..Len(v)
      /\ \A i \in 1..Len(v) : i + d \in DOMAIN w /\ v[i] = w[i + d]
  BY DEF DropsFront
<1>2. \A i \in DOMAIN v : (i + d) - Len(w) - 1 = i - Len(v) - 1 /\ i \in Nat
  BY <1>1
<1>3. \A i \in DOMAIN v : v[i].seqno = Plus(n, i - Len(v) - 1)
  BY <1>1, <1>2
<1>4. \A i \in Unacked(v) : i + d \in Unacked(w) /\ i \in Nat
  BY <1>1, <1>2 DEF Unacked
<1>5. \A i \in Unacked(v) : Len(v) + 1 - i <= m
  <2> TAKE i \in Unacked(v)
  <2>1. Len(w) + 1 - (i + d) <= m
    BY <1>4
  <2> QED BY <1>1, <1>4, <2>1
<1> QED BY <1>3, <1>5

LEMMA KeepsWaitOK ==
  ASSUME NEW s, NEW t, SndOK(s), WaitOK(s), Keeps(s, t)
  PROVE  WaitOK(t)
<1>1. PICK w, v : w = s.wait /\ v = t.wait
  OBVIOUS
<1>2. PICK d \in Nat : DropsFront(w, v, d)
  BY <1>1 DEF Keeps
<1>3. w \in Seq(Entry) /\ SenderWindow \in Nat /\ SenderWindow - 1 \in Nat
  BY <1>1, SenderAssumption, SeqModAssumption DEF SndOK
<1>4. t.next = s.next /\ Inputs(t) = Inputs(s)
  BY DEF Keeps, Inputs
<1>5. /\ \A i \in DOMAIN w : w[i].seqno = Plus(s.next, i - Len(w) - 1)
      /\ \A i \in Unacked(w) : Len(w) + 1 - i <= SenderWindow
  BY <1>1 DEF WaitOK
<1>6. /\ \A i \in DOMAIN v : v[i].seqno = Plus(s.next, i - Len(v) - 1)
      /\ \A i \in Unacked(v) : Len(v) + 1 - i <= SenderWindow
  BY <1>2, <1>3, <1>5, DropsFrontKeepsList
<1>7. ASSUME Inputs(s) # {} PROVE \A i \in Unacked(v) : Len(v) + 1 - i < SenderWindow
  <2>1. /\ \A i \in Unacked(w) : Len(w) + 1 - i < SenderWindow
        /\ \A i \in Unacked(w) : i \in Int /\ Len(w) \in Int
    BY <1>1, <1>3, <1>7 DEF WaitOK, Unacked
  <2>2. /\ Len(v) = Len(w) - d /\ Len(v) \in Int /\ DOMAIN v = 1..Len(v)
        /\ \A i \in 1..Len(v) : i + d \in DOMAIN w /\ v[i] = w[i + d]
    BY <1>2, <1>3 DEF DropsFront
  <2> TAKE i \in Unacked(v)
  <2>3. i \in Int /\ i + d \in Unacked(w)
    BY <2>2 DEF Unacked
  <2>4. Len(w) + 1 - (i + d) < SenderWindow
    BY <2>1, <2>3
  <2> QED BY <1>2, <1>3, <2>1, <2>2, <2>3, <2>4
<1> QED BY <1>1, <1>4, <1>6, <1>7 DEF WaitOK

(* The window is found full when it is. *)
LEMMA WindowFullFacts ==
  ASSUME WindowIsSmaller, NEW s, SndOK(s), WaitOK(s), ~WindowFull(s)
  PROVE  \A i \in Unacked(s.wait) : Len(s.wait) + 1 - i < SenderWindow
<1> SUFFICES ASSUME NEW i \in Unacked(s.wait)
             PROVE  Len(s.wait) + 1 - i < SenderWindow
  OBVIOUS
<1>1. PICK w, f, n : w = s.wait /\ f = FirstUnacked(w) /\ n = s.next
  OBVIOUS
<1>2. /\ w \in Seq(Entry) /\ n \in Seqno /\ n \in Int /\ SenderWindow \in Nat
      /\ SeqMod \in Nat \ {0} /\ Len(w) \in Nat /\ DOMAIN w = 1..Len(w)
  BY <1>1, SenderAssumption, SeqModAssumption DEF SndOK, Seqno
<1>3. f \in Unacked(w) /\ f \in 1..Len(w) /\ f <= i /\ i \in 1..Len(w)
  BY <1>1, <1>2, FirstUnackedFacts DEF Unacked
<1>4. PICK k : k = Len(w) + 1 - f
  OBVIOUS
<1>5. k \in Nat /\ k <= SenderWindow /\ k \in 0..SeqMod - 1 /\ f - Len(w) - 1 = -k
  BY <1>1, <1>2, <1>3, <1>4, SMTT(60) DEF WaitOK, WindowIsSmaller
<1>6. w[f].seqno = Plus(n, -k)
  BY <1>1, <1>2, <1>3, <1>5 DEF WaitOK
<1>7. Minus(n, Plus(n, -k)) = k
  <2>1. Plus(n, 0) = n
    <3>1. n + 0 = n /\ n \in 0..SeqMod - 1
      BY <1>2 DEF Seqno
    <3> QED BY <1>2, <3>1, ModSmall DEF Plus
  <2>2. PICK z, y : z = 0 /\ y = -k
    OBVIOUS
  <2>3. z \in Int /\ y \in Int /\ z - y = k
    BY <1>5, <2>2
  <2>4. z - y \in 0..SeqMod - 1
    BY <1>5, <2>3
  <2>5. Minus(Plus(n, z), Plus(n, y)) = z - y
    BY ONLY <1>2, <2>3, <2>4, SeqnoFacts
  <2> QED BY <2>1, <2>2, <2>3, <2>5
<1>8. k # SenderWindow
  <2>1. Minus(s.next, s.wait[FirstUnacked(s.wait)].seqno) # SenderWindow
    BY <1>1, <1>3 DEF WindowFull
  <2> QED BY <1>1, <1>6, <1>7, <2>1
<1>9. Len(w) + 1 - i <= k
  BY <1>2, <1>3, <1>4
<1>10. Len(w) + 1 - i < SenderWindow
  BY <1>2, <1>3, <1>5, <1>8, <1>9
<1> QED BY <1>1, <1>10

LEMMA FillsWaitOK ==
  ASSUME WindowIsSmaller, NEW s, NEW t, SndOK(s), WaitOK(s), Fills(s, t)
  PROVE  WaitOK(t)
<1>1. t.next = s.next /\ t.wait = s.wait
  BY DEF Fills
<1>2. CASE t = s
  BY <1>2
<1>3. CASE QueueTaken(s, t)
  <2>1. Inputs(t) = {}
    BY <1>3 DEF QueueTaken, Inputs, SndOK
  <2> QED BY <1>1, <2>1 DEF WaitOK
<1>4. CASE InputTaken(s, t)
  <2>1. \A i \in Unacked(s.wait) : Len(s.wait) + 1 - i < SenderWindow
    BY <1>4, WindowFullFacts DEF InputTaken
  <2> QED BY <1>1, <2>1 DEF WaitOK
<1> QED BY <1>2, <1>3, <1>4 DEF Fills

(* assert!(capacity - len > 0): what is not waiting has been cleaned up,   *)
(* and what is waiting is less than the window.                            *)
LEMMA RoomFacts ==
  ASSUME NEW s, SndOK(s), WaitOK(s), Inputs(s) # {}
  PROVE  Len(RoomInWait(s)) # AckWaitCapacity
<1>1. PICK w : w = s.wait
  OBVIOUS
<1>2. w \in Seq(Entry) /\ Len(w) \in Nat
  BY <1>1 DEF SndOK
<1>3. SenderWindow >= 1 /\ SenderWindow \in Nat /\ AckWaitCapacity >= SenderWindow
      /\ AckWaitCapacity \in Nat
  BY SenderAssumption, SeqModAssumption
<1>4. CASE Len(w) # AckWaitCapacity
  BY <1>1, <1>4 DEF RoomInWait
<1>5. CASE Len(w) = AckWaitCapacity
  <2>1. RoomInWait(s) = Cleaned(w)
    BY <1>1, <1>5 DEF RoomInWait
  <2>2. CASE Unacked(w) = {}
    <3>1. Cleaned(w) = <<>>
      BY <1>2, <2>2, CleanedFacts
    <3> QED BY <1>3, <2>1, <3>1
  <2>3. CASE Unacked(w) # {}
    <3>1. PICK f : f = FirstUnacked(w)
      OBVIOUS
    <3>2. f \in Unacked(w) /\ f \in 1..Len(w) /\ Len(Cleaned(w)) = Len(w) + 1 - f
      BY <1>2, <2>3, <3>1, FirstUnackedFacts, CleanedFacts
    <3>3. Len(w) + 1 - f < SenderWindow
      BY <1>1, <3>2 DEF WaitOK
    <3> QED BY <1>2, <1>3, <2>1, <3>2, <3>3
  <2> QED BY <2>2, <2>3
<1> QED BY <1>4, <1>5

LEMMA SendsWaitOK ==
  ASSUME NEW s, NEW t, SndOK(s), WaitOK(s), Sends(s, t)
  PROVE  WaitOK(t)
<1>1. CASE t = s
  BY <1>1
<1>2. CASE Resent(s, t)
  <2>1. t.wait = s.wait /\ t.next = s.next /\ Inputs(t) = {}
    BY <1>2 DEF Resent, Inputs
  <2> QED BY <2>1 DEF WaitOK
<1>3. CASE FirstSent(s, t)
  <2>1. PICK d \in Inputs(s) :
          /\ t.nextData = {} /\ t.next = Plus(s.next, 1)
          /\ t.wait = Append(RoomInWait(s),
                        [seqno |-> s.next, payload |-> d.payload, acked |-> FALSE])
    BY <1>3 DEF FirstSent
  <2>2. PICK r, e, n : /\ r = RoomInWait(s) /\ n = s.next
                       /\ e = [seqno |-> s.next, payload |-> d.payload, acked |-> FALSE]
    OBVIOUS
  <2>3. /\ r \in Seq(Entry) /\ \A i \in DOMAIN r : r[i].seqno = Plus(n, i - Len(r) - 1)
        /\ \A i \in Unacked(r) : Len(r) + 1 - i < SenderWindow
    <3>1. CASE r = s.wait
      BY <2>2, <3>1 DEF SndOK, WaitOK
    <3>2. CASE r = Cleaned(s.wait)
      <4>1. PICK u : u = [s EXCEPT !.wait = Cleaned(@)]
        OBVIOUS
      <4>2. Keeps(s, u) /\ u.wait = r
        BY <3>2, <4>1, CleanWaitFacts
      <4>3. WaitOK(u) /\ SndOK(u) /\ u.next = n /\ Inputs(u) # {}
        BY <2>2, <4>2, KeepsWaitOK DEF Keeps, Inputs
      <4> QED BY <4>2, <4>3 DEF SndOK, WaitOK
    <3> QED BY <2>2, <3>1, <3>2 DEF RoomInWait
  <2>4. /\ n \in Int /\ n \in Seqno /\ SenderWindow \in Nat /\ SenderWindow >= 1
        /\ Len(r) \in Nat /\ SeqMod \in Nat \ {0} /\ DOMAIN r = 1..Len(r)
    BY <2>2, <2>3, SenderAssumption, SeqModAssumption DEF SndOK, Seqno
  <2>5. PICK v : v = Append(r, e)
    OBVIOUS
  <2>6. e \in Entry
    <3>1. d \in Item
      BY DEF Inputs, SndOK
    <3> QED BY <2>2, <2>4, <3>1 DEF Entry, Item
  <2>7. /\ v \in Seq(Entry) /\ Len(v) = Len(r) + 1 /\ DOMAIN v = 1..Len(r) + 1
        /\ v[Len(r) + 1] = e /\ \A i \in 1..Len(r) : v[i] = r[i]
    BY <2>3, <2>4, <2>5, <2>6
  <2>8. \A k \in Int : Plus(Plus(n, 1), k - 1) = Plus(n, k)
    <3> TAKE k \in Int
    <3>1. PICK j : j = k - 1
      OBVIOUS
    <3>2. j \in Int /\ 1 + j = k /\ 1 \in Int
      BY <3>1
    <3>3. Plus(Plus(n, 1), j) = Plus(n, 1 + j)
      BY ONLY <2>4, <3>2, SeqnoFacts
    <3> QED BY <3>1, <3>2, <3>3
  <2>9. ASSUME NEW i \in 1..Len(v)
        PROVE  v[i].seqno = Plus(Plus(n, 1), i - Len(v) - 1)
    <3>1. i - Len(r) - 1 \in Int /\ i - Len(v) - 1 = (i - Len(r) - 1) - 1
      BY <2>4, <2>7
    <3>2. v[i].seqno = Plus(n, i - Len(r) - 1)
      <4>1. CASE i \in 1..Len(r)
        BY <2>3, <2>4, <2>7, <4>1
      <4>2. CASE i = Len(r) + 1
        <5>1. i - Len(r) - 1 = 0 /\ n + 0 = n /\ n \in 0..SeqMod - 1
          BY <2>4, <4>2 DEF Seqno
        <5>2. Plus(n, 0) = n
          BY <2>4, <5>1, ModSmall DEF Plus
        <5>3. v[i].seqno = n
          BY <2>2, <2>7, <4>2
        <5> QED BY <5>1, <5>2, <5>3
      <4> QED BY <2>4, <2>7, <4>1, <4>2
    <3> QED BY <2>8, <3>1, <3>2
  <2>10. ASSUME NEW i \in Unacked(v) PROVE Len(v) + 1 - i <= SenderWindow
    <3>1. i \in 1..Len(r) + 1
      BY <2>7 DEF Unacked
    <3>2. CASE i \in 1..Len(r)
      <4>1. i \in Unacked(r)
        BY <2>4, <2>7, <3>2 DEF Unacked
      <4>2. Len(r) + 1 - i < SenderWindow
        BY <2>3, <4>1
      <4> QED BY <2>4, <2>7, <3>2, <4>2
    <3>3. CASE i = Len(r) + 1
      BY <2>4, <2>7, <3>3
    <3> QED BY <2>4, <3>1, <3>2, <3>3
  <2>11. t.wait = v /\ t.next = Plus(n, 1) /\ Inputs(t) = {}
    BY <2>1, <2>2, <2>5 DEF Inputs
  <2> QED BY <2>7, <2>9, <2>10, <2>11 DEF WaitOK
<1> QED BY <1>1, <1>2, <1>3 DEF Sends

LEMMA RestWaitOK ==
  ASSUME NEW s3, NEW s4, NEW s5, NEW s6, SndOK(s3), WaitOK(s3),
         Flushes(s3, s4), Acks(s4, s5), Requeues(s5, s6)
  PROVE  WaitOK(s6)
<1>1. WaitOK(s4)
  BY DEF Flushes, WaitOK, Inputs
<1>2. WaitOK(s5)
  BY <1>1 DEF Acks, Similar, WaitOK, Inputs, Unacked
<1> QED BY <1>2 DEF Requeues, WaitOK, Inputs

WaitInv == WaitOK(snd) /\ sState # "Panicked"

LEMMA IdleWaitOK ==
  ASSUME NEW s, Idle(s)
  PROVE  WaitOK(s)
<1>1. DOMAIN s.wait = {} /\ Unacked(s.wait) = {} /\ Inputs(s) = {}
  BY DEF Idle, Unacked, Inputs
<1> QED BY <1>1 DEF WaitOK

LEMMA WaitStep ==
  ASSUME WindowIsSmaller, SenderInv, SenderInv', WaitInv, SenderNext
  PROVE  WaitInv'
<1>1. CASE ~SendDataStep
  <2>1. \/ Idle(snd') /\ sState' # "Panicked"
        \/ sState' = "TimedOut" /\ snd' = snd
    BY <1>1 DEF SenderNext, SendFirstSyn, WaitForSynAck, SynTimeout, SenderGivesUp, SendAck,
                SendFin, WaitForFinAck, FinTimeout, SendLastAck, SenderInv, StartData, Idle
  <2> QED BY <2>1, IdleWaitOK DEF WaitInv
<1>2. CASE SendDataStep
  <2>1. PICK stdin \in StdinOutcomes, writable \in BOOLEAN,
             got \in {{}} \cup {{p} : p \in {q \in s2c : PassesSender(q)}},
             timer \in {"none", "ack", "connection"} :
          SendData(stdin, writable, got, timer)
    BY <1>2 DEF SendDataStep
  <2>2. PICK s1, s2, s3, s4, s5, s6, s7 :
          /\ Turn(snd, s1, s2, s3, s4, s5, s6, s7)
          /\ \/ AddPanicsIn(s2) /\ sState' = "Panicked" /\ snd' = snd
             \/ sState' = "TimedOut" /\ snd' = snd
             \/ sState' = "SendFin" /\ ClosesWith(s7, snd')
             \/ sState' = "SendData" /\ snd' = s7
    BY <2>1, SendDataIsATurn DEF SenderInv
  <2>3. SndOK(snd) /\ SndOK(s1) /\ SndOK(s2) /\ SndOK(s3) /\ SndOK(s6)
    BY <2>2 DEF SenderInv, Turn, Prepares, Keeps, Fills, Sends, Requeues
  <2>4. WaitOK(s2)
    BY <2>2, <2>3, KeepsWaitOK, FillsWaitOK DEF WaitInv, Turn, Prepares
  <2>5. WaitOK(s7)
    BY <2>2, <2>3, <2>4, SendsWaitOK, RestWaitOK, KeepsWaitOK DEF Turn
  <2>6. ~AddPanicsIn(s2)
    <3>1. ASSUME AddPanicsIn(s2) PROVE Inputs(s2) # {} /\ Len(RoomInWait(s2)) = AckWaitCapacity
      BY <3>1 DEF AddPanicsIn, Inputs
    <3> QED BY <2>3, <2>4, <3>1, RoomFacts
  <2>7. ASSUME ClosesWith(s7, snd') PROVE Idle(snd')
    BY <2>7 DEF ClosesWith, StartData, Idle
  <2> QED BY <2>2, <2>5, <2>6, <2>7, IdleWaitOK DEF WaitInv
<1> QED BY <1>1, <1>2

LEMMA WaitInvHolds ==
  ASSUME WindowIsSmaller PROVE Spec => []WaitInv
<1>1. Init => WaitInv
  <2> SUFFICES ASSUME Init PROVE WaitInv
    OBVIOUS
  <2>1. Idle(snd) /\ sState = "SendFirstSyn"
    BY DEF Init, SenderInit, StartData, Idle
  <2> QED BY <2>1, IdleWaitOK DEF WaitInv
<1>2. SenderInv /\ SenderInv' /\ WaitInv /\ [Next]_vars => WaitInv'
  <2>1. WaitInv /\ UNCHANGED sVars => WaitInv'
    BY DEF WaitInv, sVars
  <2> QED BY <2>1, WaitStep DEF Next, Ended, vars
<1> QED BY <1>1, <1>2, SenderInvHolds, PTL DEF Spec

(* assert!(capacity - len > 0) in AckWaitlist::add holds for a window of   *)
(* any size but the largest, whatever is lost, reordered or acknowledged.  *)
THEOREM EveryPacketHasRoom ==
  ASSUME WindowIsSmaller PROVE Spec => []WaitlistHasRoom
<1>1. WaitInv => WaitlistHasRoom
  BY DEF WaitInv, WaitlistHasRoom
<1> QED BY <1>1, WaitInvHolds, PTL

-----------------------------------------------------------------------------
(* The packets of a connection.  It begins with the SYN of number b and    *)
(* the ACK after it; data packet i has number Number(b, i) and carries the *)
(* cells after the first cut[i] up to number cut[i + 1]; m data packets    *)
(* have been made.  Once the sender closes the connection its packets have *)
(* the number after the data's.                                            *)
Number(b, i) == Plus(b, i + 2)

IsPiece(b, m, cut, x) ==
  \E i \in 0..m - 1 : x.seqno = Number(b, i) /\ x.payload = Cells(cut[i], cut[i + 1])

Belongs(b, m, cut, closed, p) ==
  \/ p.flags = {} /\ IsPiece(b, m, cut, p)
  \/ p.flags = {"Syn"} /\ p.payload = <<>> /\ p.seqno = b
  \/ p.flags = {"Ack"} /\ p.payload = <<>> /\ p.seqno = Plus(b, 1)
  \/ closed /\ p.flags # {} /\ p.payload = <<>> /\ p.seqno = Number(b, m)

Cuts(m, cut) ==
  /\ m \in 0..InputLen /\ cut \in [Nat -> Nat]
  /\ cut[0] = 0 /\ m <= cut[m]
  /\ \A i \in 0..m - 1 : cut[i] <= cut[i + 1]

(* What the sender's fields hold of them while it sends data.              *)
Numbered(s, b, m, cut) ==
  /\ s.next = Number(b, m)
  /\ Inputs(s) = {} => s.taken = cut[m]
  /\ \A d \in Inputs(s) : cut[m] < s.taken /\ d.payload = Cells(cut[m], s.taken)
  /\ \A d \in s.nextData \ Inputs(s) : IsPiece(b, m, cut, d)
  /\ \A i \in DOMAIN s.wait : IsPiece(b, m, cut, s.wait[i])
  /\ \A i \in DOMAIN s.retrans : IsPiece(b, m, cut, s.retrans[i])

SenderNumbers(b, m, cut, closed) ==
  /\ \A p \in c2s \cup snd.send : Belongs(b, m, cut, closed, p)
  /\ sState \in {"SendFirstSyn", "WaitForSynAck"} =>
       ~closed /\ m = 0 /\ snd.taken = 0 /\ snd.next = b
  /\ sState = "SendAck" =>
       ~closed /\ m = 0 /\ snd.taken = 0 /\ snd.next = Number(b, 0)
  /\ sState = "SendData" => ~closed /\ Numbered(snd, b, m, cut)
  /\ sState \in {"SendFin", "WaitForFinAck"} => closed /\ snd.next = Number(b, m)
  /\ sState \in {"SendLastAck", "DataSent"} => closed

(* The receiver has taken for writing the first j data packets, or the FIN *)
(* too, if it came before the connection was open.                         *)
Reached(r, b, m, cut, closed) ==
  \/ \E j \in 0..m : r.next = Number(b, j) /\ r.handed = Cells(0, cut[j])
  \/ closed /\ r.next = Number(b, m + 1) /\ r.handed = Cells(0, cut[m])

(* A second connection, opened by a FIN that is retransmitted as a SYN, is *)
(* answered with a number no ACK carries.                                  *)
Answered(r, b, m, closed) ==
  r.next = Plus(b, 1) \/ (closed /\ r.next = Number(b, m + 1))

IsRcv(r) ==
  r = [next |-> r.next, send |-> r.send, seqnos |-> r.seqnos, order |-> r.order,
       handed |-> r.handed, writing |-> r.writing, fin |-> r.fin]

ReceiverNumbers(b, m, cut, closed) ==
  /\ IsRcv(rcv)
  /\ BagToSet(rcv.order) \subseteq c2s
  /\ \E c \in Nat : rcv.handed = Cells(0, c)
  /\ rState \in {"WaitForFirstSyn", "SendSynAck", "WaitForAck"} => rcv.handed = <<>>
  /\ rState \in {"SendSynAck", "WaitForAck"} => Answered(rcv, b, m, closed)
  /\ rState = "ReceivePackets" => Reached(rcv, b, m, cut, closed)

Numbering(b, m, cut, closed) ==
  /\ b \in Seqno /\ closed \in BOOLEAN /\ Cuts(m, cut)
  /\ SenderNumbers(b, m, cut, closed)
  /\ ReceiverNumbers(b, m, cut, closed)

OrderInv == \E b, m, cut, closed : Numbering(b, m, cut, closed)

(* A connection is over before its numbers go round: a copy of an old      *)
(* packet, which the network may keep forever, is never taken for a new    *)
(* one.                                                                    *)
ConnectionIsShort == InputLen + 3 < SeqMod

LEMMA CellsFacts ==
  ASSUME NEW x \in Nat, NEW y \in Nat, NEW z \in Nat, x <= y, y <= z
  PROVE  /\ Cells(x, x) = <<>>
         /\ \A i \in DOMAIN Cells(0, x) : Cells(0, x)[i] = i
         /\ Cells(x, y) \in Seq(Nat) /\ Cells(x, y) \o Cells(y, z) = Cells(x, z)
         /\ Cells(x, y) \o <<>> = Cells(x, y)
<1>1. Cells(x, x) = <<>>
  <2>1. 1..x - x = {}
    OBVIOUS
  <2>2. DOMAIN Cells(x, x) = {}
    BY <2>1 DEF Cells
  <2>3. Cells(x, x) \in [1..0 -> Nat]
    BY <2>1 DEF Cells
  <2>4. Cells(x, x) \in Seq(Nat) /\ Len(Cells(x, x)) = 0
    BY <2>2, <2>3
  <2> QED BY <2>4
<1>2. \A i \in DOMAIN Cells(0, x) : Cells(0, x)[i] = i
  BY DEF Cells
<1>3. \A u, v \in Nat : u <= v =>
         /\ Cells(u, v) \in Seq(Nat) /\ Len(Cells(u, v)) = v - u
         /\ \A i \in 1..v - u : Cells(u, v)[i] = u + i
  <2> TAKE u, v \in Nat
  <2> HAVE u <= v
  <2>1. PICK n : n = v - u
    OBVIOUS
  <2>2. n \in Nat /\ \A i \in 1..n : u + i \in Nat
    BY <2>1
  <2>3. PICK c : c = [i \in 1..n |-> u + i]
    OBVIOUS
  <2>4. c \in [1..n -> Nat]
    BY <2>2, <2>3
  <2>5. c \in Seq(Nat) /\ Len(c) = n
    BY <2>2, <2>4
  <2>6. c = Cells(u, v)
    BY <2>1, <2>3 DEF Cells
  <2> QED BY <2>1, <2>3, <2>5, <2>6
<1>4. PICK c, d, e : c = Cells(x, y) /\ d = Cells(y, z) /\ e = Cells(x, z)
  OBVIOUS
<1>5. /\ c \in Seq(Nat) /\ Len(c) = y - x /\ \A i \in 1..y - x : c[i] = x + i
      /\ d \in Seq(Nat) /\ Len(d) = z - y /\ \A i \in 1..z - y : d[i] = y + i
      /\ e \in Seq(Nat) /\ Len(e) = z - x /\ \A i \in 1..z - x : e[i] = x + i
  <2>1. c \in Seq(Nat) /\ Len(c) = y - x /\ \A i \in 1..y - x : c[i] = x + i
    BY <1>3, <1>4
  <2>2. d \in Seq(Nat) /\ Len(d) = z - y /\ \A i \in 1..z - y : d[i] = y + i
    BY <1>3, <1>4
  <2>3. e \in Seq(Nat) /\ Len(e) = z - x /\ \A i \in 1..z - x : e[i] = x + i
    <3>1. x <= z
      OBVIOUS
    <3> QED BY <1>3, <1>4, <3>1
  <2> QED BY <2>1, <2>2, <2>3
<1>6. PICK f : f = c \o d
  OBVIOUS
<1>7. /\ f \in Seq(Nat) /\ Len(f) = z - x
      /\ \A i \in 1..z - x : f[i] = IF i <= y - x THEN c[i] ELSE d[i - (y - x)]
  <2>1. PICK m, n : m = y - x /\ n = z - y
    OBVIOUS
  <2>2. m \in Nat /\ n \in Nat /\ Len(c) = m /\ Len(d) = n /\ m + n = z - x
    BY <1>5, <2>1
  <2>3. /\ f \in Seq(Nat) /\ Len(f) = m + n
        /\ \A i \in 1..m + n : f[i] = IF i <= m THEN c[i] ELSE d[i - m]
    <3>1. /\ c \in Seq(Nat) /\ d \in Seq(Nat)
      BY <1>5
    <3>2. f \in Seq(Nat) /\ Len(f) = Len(c) + Len(d)
      BY ONLY <1>6, <3>1
    <3>3. \A i \in 1..Len(c) + Len(d) : f[i] = IF i <= Len(c) THEN c[i] ELSE d[i - Len(c)]
      BY ONLY <1>6, <3>1
    <3> QED BY <2>2, <3>2, <3>3
  <2> QED BY <2>1, <2>2, <2>3
<1>8. \A i \in 1..z - x : f[i] = e[i]
  <2> TAKE i \in 1..z - x
  <2>1. CASE i <= y - x
    BY <1>5, <1>7, <2>1
  <2>2. CASE ~(i <= y - x)
    <3>1. i - (y - x) \in 1..z - y /\ y + (i - (y - x)) = x + i
      BY <2>2
    <3> QED BY <1>5, <1>7, <2>2, <3>1
  <2> QED BY <2>1, <2>2
<1>9. f = e
  BY <1>5, <1>7, <1>8
<1>10. c \o <<>> = c
  BY <1>5
<1> QED BY <1>1, <1>2, <1>4, <1>5, <1>6, <1>9, <1>10

LEMMA NumberFacts ==
  ASSUME NEW b \in Seqno
  PROVE  /\ b \in Int /\ b = Number(b, -2) /\ Plus(b, 1) = Number(b, -1)
         /\ \A i \in Int : Number(b, i) \in Seqno /\ Plus(Number(b, i), 1) = Number(b, i + 1)
<1>1. b \in Int /\ b + 0 = b /\ b \in 0..SeqMod - 1 /\ SeqMod \in Nat \ {0}
  BY SeqModAssumption DEF Seqno
<1>2. Plus(b, 0) = b
  BY <1>1, ModSmall DEF Plus
<1>3. -2 + 2 = 0 /\ -1 + 2 = 1
  OBVIOUS
<1>4. b = Number(b, -2) /\ Plus(b, 1) = Number(b, -1)
  BY <1>2, <1>3 DEF Number
<1>5. \A i \in Int : Number(b, i) \in Seqno /\ Plus(Number(b, i), 1) = Number(b, i + 1)
  <2> TAKE i \in Int
  <2>1. PICK x, y : x = i + 2 /\ y = 1
    OBVIOUS
  <2>2. x \in Int /\ y \in Int /\ x + y = (i + 1) + 2
    BY <2>1
  <2>3. Plus(b, x) \in Seqno /\ Plus(Plus(b, x), y) = Plus(b, x + y)
    BY ONLY <1>1, <2>2, SeqnoFacts
  <2> QED BY <2>1, <2>2, <2>3 DEF Number
<1> QED BY <1>1, <1>4, <1>5

LEMMA NumbersDiffer ==
  ASSUME NEW b \in Seqno, NEW i \in Int, NEW j \in Int, i - j < SeqMod, j - i < SeqMod,
         Number(b, i) = Number(b, j)
  PROVE  i = j
<1>1. b \in Int /\ SeqMod \in Nat \ {0}
  BY SeqModAssumption DEF Seqno
<1>2. PICK x, y : x = b + (i + 2) /\ y = b + (j + 2)
  OBVIOUS
<1>3. x \in Int /\ y \in Int /\ x - y < SeqMod /\ y - x < SeqMod
  BY <1>1, <1>2
<1>4. x % SeqMod = y % SeqMod
  BY <1>2 DEF Number, Plus
<1>5. x = y
  BY ONLY <1>1, <1>3, <1>4, ModInjective
<1> QED BY <1>1, <1>2, <1>5

(* The same data packets, and more.                                        *)
Grows(m, cut, n, more) == m <= n /\ \A i \in 0..m : more[i] = cut[i]

LEMMA PieceGrows ==
  ASSUME NEW b, NEW m \in Nat, NEW n \in Nat, NEW cut, NEW more, Grows(m, cut, n, more),
         NEW x, IsPiece(b, m, cut, x)
  PROVE  IsPiece(b, n, more, x)
<1>1. PICK i \in 0..m - 1 : x.seqno = Number(b, i) /\ x.payload = Cells(cut[i], cut[i + 1])
  BY DEF IsPiece
<1>2. i \in 0..n - 1 /\ i \in 0..m /\ i + 1 \in 0..m
  BY DEF Grows
<1>3. more[i] = cut[i] /\ more[i + 1] = cut[i + 1]
  BY <1>2 DEF Grows
<1> QED BY <1>1, <1>2, <1>3 DEF IsPiece

LEMMA BelongsStill ==
  ASSUME NEW b, NEW m \in Nat, NEW n \in Nat, NEW cut, NEW more, Grows(m, cut, n, more),
         NEW p, Belongs(b, m, cut, FALSE, p), NEW closed \in BOOLEAN
  PROVE  Belongs(b, n, more, closed, p)
BY PieceGrows DEF Belongs

LEMMA NumberedKeeps ==
  ASSUME NEW s, NEW t, SndOK(s), Keeps(s, t), NEW b, NEW m, NEW cut, Numbered(s, b, m, cut)
  PROVE  Numbered(t, b, m, cut)
<1>1. PICK d \in Nat : DropsFront(s.wait, t.wait, d)
  BY DEF Keeps
<1>2. \A i \in DOMAIN t.wait : \E j \in DOMAIN s.wait : t.wait[i] = s.wait[j]
  <2>1. DOMAIN t.wait = 1..Len(t.wait)
    BY <1>1 DEF DropsFront
  <2> QED BY <1>1, <2>1 DEF DropsFront
<1>3. \A i \in DOMAIN t.wait : IsPiece(b, m, cut, t.wait[i])
  BY <1>2 DEF Numbered
<1> QED BY <1>3 DEF Keeps, Numbered, Inputs

LEMMA NumberedFills ==
  ASSUME NEW s, NEW t, SndOK(s), Fills(s, t), NEW b, NEW m, NEW cut, Numbered(s, b, m, cut)
  PROVE  Numbered(t, b, m, cut)
<1>1. CASE t = s
  BY <1>1
<1>2. CASE QueueTaken(s, t)
  <2>1. PICK r, q : r = s.retrans /\ q = t.retrans
    OBVIOUS
  <2>2. PICK i \in DOMAIN r : t.nextData = {r[i]}
    BY <1>2, <2>1 DEF QueueTaken
  <2>3. Inputs(t) = {} /\ Inputs(s) = {} /\ IsPiece(b, m, cut, r[i])
    BY <1>2, <2>1, <2>2 DEF QueueTaken, Inputs, SndOK, Numbered
  <2>4. \A j \in DOMAIN q : j + 1 \in DOMAIN r /\ q[j] = r[j + 1]
    <3>1. q = Tail(r) /\ r \in Seq(Item) /\ r # <<>>
      BY <1>2, <2>1, <2>2 DEF QueueTaken, SndOK
    <3> QED BY ONLY <3>1
  <2>5. \A j \in DOMAIN q : IsPiece(b, m, cut, q[j])
    BY <2>1, <2>4 DEF Numbered
  <2> QED BY <1>2, <2>1, <2>2, <2>3, <2>5 DEF QueueTaken, Fills, Numbered
<1>3. CASE InputTaken(s, t)
  <2>1. PICK x : x = [kind |-> "Input", seqno |-> 0, payload |-> Cells(s.taken, t.taken)]
    OBVIOUS
  <2>2. t.nextData = {x} /\ x.kind = "Input" /\ x.payload = Cells(s.taken, t.taken)
    BY <1>3, <2>1 DEF InputTaken
  <2>3. Inputs(t) = {x} /\ Inputs(s) = {}
    BY <1>3, <2>2 DEF InputTaken, Inputs
  <2> QED BY <1>3, <2>2, <2>3 DEF InputTaken, Fills, Numbered
<1> QED BY <1>1, <1>2, <1>3 DEF Fills

LEMMA NumberedSends ==
  ASSUME NEW s, NEW t, SndOK(s), Sends(s, t), NEW b \in Seqno, NEW m, NEW cut,
         Cuts(m, cut), Numbered(s, b, m, cut),
         \A p \in s.send : Belongs(b, m, cut, FALSE, p)
  PROVE  \E n, more :
           /\ n \in Nat /\ Cuts(n, more) /\ Grows(m, cut, n, more) /\ Numbered(t, b, n, more)
           /\ \A p \in t.send : Belongs(b, n, more, FALSE, p)
<1>0. m \in Nat /\ m \in Int /\ InputLen \in Nat /\ Grows(m, cut, m, cut)
  BY SenderAssumption DEF Cuts, Grows
<1>1. CASE t = s
  BY <1>0, <1>1
<1>2. CASE Resent(s, t)
  <2>1. PICK d \in s.nextData \ Inputs(s) :
          /\ t.send = {ToServer({}, d.seqno, d.payload)}
          /\ t.nextData = {} /\ t.next = s.next /\ t.wait = s.wait
    BY <1>2 DEF Resent
  <2>2. PICK p : p = ToServer({}, d.seqno, d.payload)
    OBVIOUS
  <2>3. p.flags = {} /\ p.seqno = d.seqno /\ p.payload = d.payload /\ IsPiece(b, m, cut, d)
    BY <2>2 DEF ToServer, Numbered
  <2>4. Belongs(b, m, cut, FALSE, p)
    BY <2>3 DEF Belongs, IsPiece
  <2>5. Inputs(s) = {} /\ Inputs(t) = {}
    BY <2>1 DEF Inputs, SndOK
  <2>6. Numbered(t, b, m, cut)
    BY <2>1, <2>5 DEF Numbered, Sends
  <2> QED BY <1>0, <2>1, <2>2, <2>4, <2>6
<1>3. CASE FirstSent(s, t)
  <2>1. PICK d \in Inputs(s) :
          /\ t.send = {ToServer({}, s.next, d.payload)}
          /\ t.nextData = {} /\ t.next = Plus(s.next, 1)
          /\ t.wait = Append(RoomInWait(s),
                        [seqno |-> s.next, payload |-> d.payload, acked |-> FALSE])
    BY <1>3 DEF FirstSent
  <2>2. PICK c, n, more : c = s.taken /\ n = m + 1 /\ more = [cut EXCEPT ![n] = c]
    OBVIOUS
  <2>3. /\ c \in Nat /\ c <= InputLen /\ cut[m] < c /\ d.payload = Cells(cut[m], c)
        /\ t.taken = c /\ s.next = Number(b, m)
    BY <2>2, SenderAssumption DEF SndOK, Numbered, Sends
  <2>4. /\ n \in Nat /\ more \in [Nat -> Nat] /\ more[n] = c
        /\ \A i \in 0..m : more[i] = cut[i]
    BY <1>0, <2>2, <2>3 DEF Cuts
  <2>5. Cuts(n, more) /\ Grows(m, cut, n, more)
    <3>1. cut \in [Nat -> Nat] /\ cut[m] \in Nat /\ m <= cut[m] /\ cut[0] = 0
      BY <1>0 DEF Cuts
    <3>2. n <= c /\ n \in 0..InputLen /\ 0 \in 0..m /\ m \in 0..m
      BY <1>0, <2>2, <2>3, <3>1
    <3>3. ASSUME NEW i \in 0..n - 1 PROVE more[i] <= more[i + 1]
      <4>1. CASE i \in 0..m - 1
        <5>1. i \in 0..m /\ i + 1 \in 0..m
          BY <1>0, <4>1
        <5> QED BY <2>4, <4>1, <5>1 DEF Cuts
      <4>2. CASE i = m
        BY <2>2, <2>3, <2>4, <3>1, <3>2, <4>2
      <4> QED BY <1>0, <2>2, <4>1, <4>2
    <3>4. m <= n
      BY <1>0, <2>2
    <3> QED BY <2>4, <3>1, <3>2, <3>3, <3>4 DEF Cuts, Grows
  <2>6. \A x : IsPiece(b, m, cut, x) => IsPiece(b, n, more, x)
    BY <1>0, <2>4, <2>5, PieceGrows
  <2>7. \A x : x.seqno = s.next /\ x.payload = d.payload => IsPiece(b, n, more, x)
    <3>1. m \in 0..n - 1 /\ more[m] = cut[m] /\ more[m + 1] = c
      BY <1>0, <2>2, <2>4
    <3> QED BY <2>3, <3>1 DEF IsPiece
  <2>8. PICK r, e, p : /\ r = RoomInWait(s) /\ p = ToServer({}, s.next, d.payload)
                       /\ e = [seqno |-> s.next, payload |-> d.payload, acked |-> FALSE]
    OBVIOUS
  <2>9. /\ p.flags = {} /\ p.seqno = s.next /\ p.payload = d.payload
        /\ e.seqno = s.next /\ e.payload = d.payload
    BY <2>8 DEF ToServer
  <2>10. IsPiece(b, n, more, p) /\ IsPiece(b, n, more, e)
    BY <2>7, <2>9
  <2>11. Belongs(b, n, more, FALSE, p)
    BY <2>9, <2>10 DEF Belongs
  <2>12. r \in Seq(Entry) /\ \A i \in DOMAIN r : IsPiece(b, m, cut, r[i])
    <3>1. CASE r = s.wait
      BY <3>1 DEF SndOK, Numbered
    <3>2. CASE r = Cleaned(s.wait)
      <4>1. PICK u : u = [s EXCEPT !.wait = Cleaned(@)]
        OBVIOUS
      <4>2. Keeps(s, u) /\ u.wait = r
        BY <3>2, <4>1, CleanWaitFacts
      <4>3. Numbered(u, b, m, cut) /\ SndOK(u)
        BY <4>2, NumberedKeeps DEF Keeps
      <4> QED BY <4>2, <4>3 DEF SndOK, Numbered
    <3> QED BY <2>8, <3>1, <3>2 DEF RoomInWait
  <2>13. \A i \in DOMAIN t.wait : IsPiece(b, n, more, t.wait[i])
    <3>1. e \in Entry
      <4>1. d \in Item /\ s.next \in Seqno
        BY DEF Inputs, SndOK
      <4> QED BY <2>8, <4>1 DEF Entry, Item
    <3>2. PICK v : v = Append(r, e)
      OBVIOUS
    <3>3. \A i \in DOMAIN v : v[i] = e \/ \E j \in DOMAIN r : v[i] = r[j]
      BY <2>12, <3>1, <3>2
    <3>4. t.wait = v
      BY <2>1, <2>8, <3>2
    <3> QED BY <2>6, <2>10, <2>12, <3>3, <3>4
  <2>14. Inputs(t) = {} /\ Plus(s.next, 1) = Number(b, n)
    <3>1. m \in Int
      BY <1>0
    <3> QED BY <2>1, <2>2, <2>3, <3>1, NumberFacts DEF Inputs
  <2>15. \A i \in DOMAIN t.retrans : IsPiece(b, n, more, t.retrans[i])
    BY <2>6 DEF Sends, Numbered
  <2>16. Numbered(t, b, n, more)
    BY <2>1, <2>3, <2>4, <2>13, <2>14, <2>15 DEF Numbered
  <2> QED BY <2>1, <2>4, <2>5, <2>8, <2>11, <2>16
<1> QED BY <1>1, <1>2, <1>3 DEF Sends

LEMMA NumberedRest ==
  ASSUME NEW s3, NEW s4, NEW s5, NEW s6, NEW s7, NEW b, NEW m, NEW cut, SndOK(s3),
         Numbered(s3, b, m, cut), Flushes(s3, s4), Acks(s4, s5), Requeues(s5, s6),
         Keeps(s6, s7)
  PROVE  Numbered(s7, b, m, cut) /\ s7.send \subseteq s3.send
<1>1. Numbered(s4, b, m, cut)
  BY DEF Flushes, Numbered, Inputs
<1>2. Numbered(s5, b, m, cut)
  <2>1. \A i \in DOMAIN s5.wait : IsPiece(b, m, cut, s5.wait[i])
    BY <1>1 DEF Acks, Similar, Numbered, IsPiece
  <2> QED BY <1>1, <2>1 DEF Acks, Numbered, Inputs
<1>3. Numbered(s6, b, m, cut) /\ SndOK(s6)
  <2>1. \A i \in DOMAIN s6.retrans : IsPiece(b, m, cut, s6.retrans[i])
    BY <1>2 DEF Requeues, Numbered, IsPiece
  <2> QED BY <1>2, <2>1 DEF Requeues, Numbered, Inputs
<1>4. s7.send \subseteq s3.send
  BY DEF Flushes, Acks, Requeues, Keeps
<1> QED BY <1>3, <1>4, NumberedKeeps

(* A step of the sender: the packets stay what they are, there may be one  *)
(* more, and what the receiver has reached is still there.                 *)
LEMMA ReceiverStill ==
  ASSUME NEW b, NEW m, NEW cut, NEW closed, NEW n \in Nat, NEW more, NEW over,
         ReceiverNumbers(b, m, cut, closed), UNCHANGED rVars, c2s \subseteq c2s',
         Cuts(m, cut), Grows(m, cut, n, more), closed => over /\ n = m
  PROVE  ReceiverNumbers(b, n, more, over)'
<1>1. /\ rcv' = rcv /\ rState' = rState
      /\ m \in Nat /\ m <= n /\ \A i \in 0..m : i \in 0..n /\ more[i] = cut[i]
  BY DEF rVars, Cuts, Grows
<1>2. Reached(rcv, b, m, cut, closed) => Reached(rcv, b, n, more, over)
  <2>1. ASSUME NEW j \in 0..m, rcv.next = Number(b, j), rcv.handed = Cells(0, cut[j])
        PROVE  Reached(rcv, b, n, more, over)
    BY <1>1, <2>1 DEF Reached
  <2>2. more[m] = cut[m]
    BY <1>1
  <2> QED BY <2>1, <2>2 DEF Reached
<1>3. Answered(rcv, b, m, closed) => Answered(rcv, b, n, over)
  BY DEF Answered
<1> QED BY <1>1, <1>2, <1>3 DEF ReceiverNumbers

(* A turn that leaves n data packets made. *)
Turned(b, n, more) ==
  \E got, s1, s2, s3, s4, s5, s6, s7 :
     /\ got = {} \/ \E p \in s2c : PassesSender(p) /\ got = {p}
     /\ Turn(snd, s1, s2, s3, s4, s5, s6, s7) /\ s5 = PollReceivePackets(s4, got)
     /\ Numbered(s3, b, n, more) /\ s2c' = s2c
     /\ \/ sState' \in {"Panicked", "TimedOut"} /\ snd' = snd
        \/ sState' = "SendFin" /\ ClosesWith(s7, snd')
        \/ sState' = "SendData" /\ snd' = s7

(* What a step of the sender does to the packets of the connection.        *)
Follows(b, m, cut, closed, n, more, over) ==
  /\ Grows(m, cut, n, more)
  /\ closed => over /\ n = m
  /\ \/ sState # "SendData" /\ n = m /\ more = cut /\ over = closed
     \/ sState = "SendData" /\ Turned(b, n, more) /\ (over <=> sState' = "SendFin")

LEMMA SenderOrderStep ==
  ASSUME SenderInv, SenderNext, UNCHANGED rVars,
         NEW b, NEW m, NEW cut, NEW closed, Numbering(b, m, cut, closed)
  PROVE  \E n, more, over :
           Numbering(b, n, more, over)' /\ Follows(b, m, cut, closed, n, more, over)
<1> DEFINE Goal == \E n, more, over :
             Numbering(b, n, more, over)' /\ Follows(b, m, cut, closed, n, more, over)
<1>2. /\ b \in Seqno /\ closed \in BOOLEAN /\ Cuts(m, cut) /\ m \in Nat
      /\ SenderNumbers(b, m, cut, closed) /\ ReceiverNumbers(b, m, cut, closed)
      /\ Grows(m, cut, m, cut) /\ SndOK(snd)
  BY DEF Numbering, Cuts, Grows, SenderInv
<1>3. /\ b \in Int /\ b = Number(b, -2) /\ Plus(b, 1) = Number(b, -1)
      /\ Plus(Plus(b, 1), 1) = Number(b, 0)
  <2>1. -1 \in Int /\ -1 + 1 = 0
    OBVIOUS
  <2> QED BY <1>2, <2>1, NumberFacts
<1>4. ASSUME c2s \subseteq c2s', SenderNumbers(b, m, cut, closed)', sState # "SendData"
      PROVE  Goal
  <2>1. ReceiverNumbers(b, m, cut, closed)'
    BY <1>2, <1>4, ReceiverStill
  <2> QED BY <1>2, <1>4, <2>1 DEF Numbering, Follows
<1>5. CASE SendFirstSyn \/ SendFin \/ SendLastAck
  <2>1. /\ c2s' = c2s \cup snd.send /\ snd'.send = {} /\ snd'.next = snd.next
        /\ snd'.taken = snd.taken
    BY <1>2, <1>5 DEF SendFirstSyn, SendFin, SendLastAck, Flush, SndOK
  <2>2. SenderNumbers(b, m, cut, closed)'
    BY <1>2, <1>5, <2>1 DEF SendFirstSyn, SendFin, SendLastAck, SenderNumbers
  <2>3. sState # "SendData"
    BY <1>5 DEF SendFirstSyn, SendFin, SendLastAck
  <2> QED BY <1>2, <1>4, <2>1, <2>2, <2>3
<1>6. CASE WaitForSynAck
  <2>1. PICK p : p = ToServer({"Ack"}, Plus(snd.next, 1), <<>>)
    OBVIOUS
  <2>2. /\ snd'.next = Plus(Plus(snd.next, 1), 1) /\ snd'.send = {p}
        /\ snd'.taken = snd.taken /\ c2s' = c2s
        /\ sState = "WaitForSynAck" /\ sState' = "SendAck"
    BY <1>2, <1>6, <2>1 DEF WaitForSynAck, SndOK, netVars
  <2>3. ~closed /\ m = 0 /\ snd.taken = 0 /\ snd.next = b
    BY <1>2, <2>2 DEF SenderNumbers
  <2>4. Belongs(b, m, cut, closed, p)
    BY <2>1, <2>3 DEF Belongs, ToServer
  <2> QED BY <1>2, <1>3, <1>4, <2>2, <2>3, <2>4 DEF SenderNumbers
<1>7. CASE SynTimeout \/ FinTimeout
  <2>1. PICK p : p = SynPacket(snd.next)
    OBVIOUS
  <2>2. snd'.next = snd.next /\ snd'.send = {p} /\ snd'.taken = snd.taken /\ c2s' = c2s
    BY <1>2, <1>7, <2>1 DEF SynTimeout, FinTimeout, SndOK, netVars
  <2>3. Belongs(b, m, cut, closed, p)
    BY <1>2, <1>7, <2>1 DEF SynTimeout, FinTimeout, SenderNumbers, Belongs, SynPacket, ToServer
  <2> QED BY <1>2, <1>4, <1>7, <2>2, <2>3 DEF SynTimeout, FinTimeout, SenderNumbers
<1>8. CASE SenderGivesUp
  BY <1>2, <1>4, <1>8 DEF SenderGivesUp, SenderNumbers, netVars
<1>9. CASE SendAck
  <2>1. /\ c2s' = c2s \cup snd.send /\ snd' = StartData(snd.next)
        /\ sState = "SendAck" /\ sState' = "SendData"
    BY <1>9 DEF SendAck
  <2>2. ~closed /\ m = 0 /\ snd.next = Number(b, 0) /\ cut[0] = 0
    BY <1>2, <2>1 DEF SenderNumbers, Cuts
  <2>3. Numbered(StartData(snd.next), b, m, cut)
    BY <2>2 DEF StartData, Numbered, Inputs
  <2>4. StartData(snd.next).send = {}
    BY DEF StartData
  <2> QED BY <1>2, <1>4, <2>1, <2>2, <2>3, <2>4 DEF SenderNumbers
<1>10. CASE WaitForFinAck
  <2>1. PICK p : p = ToServer({"Ack"}, snd.next, <<>>)
    OBVIOUS
  <2>2. /\ snd'.send = {p} /\ c2s' = c2s
        /\ sState = "WaitForFinAck" /\ sState' = "SendLastAck"
    BY <1>2, <1>10, <2>1 DEF WaitForFinAck, SndOK, netVars
  <2>3. closed /\ snd.next = Number(b, m)
    BY <1>2, <2>2 DEF SenderNumbers
  <2>4. Belongs(b, m, cut, closed, p)
    BY <2>1, <2>3 DEF Belongs, ToServer
  <2> QED BY <1>2, <1>4, <2>2, <2>3, <2>4 DEF SenderNumbers
<1>11. CASE SendDataStep
  <2>1. PICK stdin \in StdinOutcomes, writable \in BOOLEAN,
             got \in {{}} \cup {{p} : p \in {q \in s2c : PassesSender(q)}},
             timer \in {"none", "ack", "connection"} :
          SendData(stdin, writable, got, timer)
    BY <1>11 DEF SendDataStep
  <2>2. PICK s1, s2, s3, s4, s5, s6, s7 :
          /\ Turn(snd, s1, s2, s3, s4, s5, s6, s7)
          /\ c2s \subseteq c2s' /\ c2s' \subseteq c2s \cup s3.send
          /\ s5 = PollReceivePackets(s4, got)
          /\ sState = "SendData" /\ s2c' = s2c
          /\ \/ sState' = "Panicked" /\ snd' = snd
             \/ sState' = "TimedOut" /\ snd' = snd
             \/ sState' = "SendFin" /\ ClosesWith(s7, snd')
             \/ sState' = "SendData" /\ snd' = s7
    BY <1>2, <2>1, SendDataIsATurn
  <2>3. SndOK(s1) /\ SndOK(s2) /\ SndOK(s3) /\ SndOK(s7)
    BY <2>2 DEF Turn, Prepares, Keeps, Fills, Sends
  <2>4. ~closed /\ closed = FALSE /\ Numbered(snd, b, m, cut)
    BY <1>2, <2>2 DEF SenderNumbers
  <2>5. Numbered(s2, b, m, cut) /\ s2.send = snd.send
    BY <1>2, <2>2, <2>3, <2>4, NumberedKeeps, NumberedFills DEF Turn, Prepares, Keeps, Fills
  <2>6. \A p \in c2s \cup snd.send : Belongs(b, m, cut, FALSE, p)
    BY <1>2, <2>4 DEF SenderNumbers
  <2>7. PICK n, more :
          /\ n \in Nat /\ Cuts(n, more) /\ Grows(m, cut, n, more) /\ Numbered(s3, b, n, more)
          /\ \A p \in s3.send : Belongs(b, n, more, FALSE, p)
    BY <1>2, <2>2, <2>3, <2>5, <2>6, NumberedSends DEF Turn
  <2>8. Numbered(s7, b, n, more) /\ s7.send \subseteq s3.send
    BY <2>2, <2>3, <2>7, NumberedRest DEF Turn
  <2>9. \A over \in BOOLEAN : \A p \in c2s' \cup snd.send \cup s7.send :
           Belongs(b, n, more, over, p)
    <3> TAKE over \in BOOLEAN
    <3> TAKE p \in c2s' \cup snd.send \cup s7.send
    <3>1. CASE p \in c2s \cup snd.send
      <4>1. m \in Nat /\ n \in Nat /\ Grows(m, cut, n, more) /\ Belongs(b, m, cut, FALSE, p)
        BY <1>2, <2>6, <2>7, <3>1
      <4> QED BY ONLY <4>1, BelongsStill
    <3>2. CASE p \in s3.send
      <4>1. Belongs(b, n, more, FALSE, p)
        BY <2>7, <3>2
      <4> QED BY <4>1 DEF Belongs
    <3> QED BY <2>2, <2>8, <3>1, <3>2
  <2>10. \A over \in BOOLEAN : ReceiverNumbers(b, n, more, over)'
    BY <1>2, <2>2, <2>4, <2>7, ReceiverStill
  <2>11. Turned(b, n, more)
    <3>1. got = {} \/ \E p \in s2c : PassesSender(p) /\ got = {p}
      BY <2>1
    <3> QED BY <2>2, <2>7, <3>1 DEF Turned
  <2>12. ASSUME NEW over \in BOOLEAN, SenderNumbers(b, n, more, over)',
                over <=> sState' = "SendFin"
         PROVE  Goal
    BY <1>2, <2>2, <2>4, <2>7, <2>10, <2>11, <2>12 DEF Numbering, Follows
  <2>13. CASE sState' = "SendData" /\ snd' = s7
    <3>1. SenderNumbers(b, n, more, FALSE)'
      BY <2>8, <2>9, <2>13 DEF SenderNumbers
    <3> QED BY <2>12, <2>13, <3>1
  <2>14. CASE sState' \in {"Panicked", "TimedOut"} /\ snd' = snd
    <3>1. SenderNumbers(b, n, more, FALSE)'
      BY <2>9, <2>14 DEF SenderNumbers
    <3> QED BY <2>12, <2>14, <3>1
  <2>15. CASE sState' = "SendFin" /\ ClosesWith(s7, snd')
    <3>1. PICK p : p = ToServer({"Fin"}, s7.next, <<>>)
      OBVIOUS
    <3>2. snd'.send = {p} /\ snd'.next = s7.next
      BY <2>15, <3>1 DEF ClosesWith, StartData
    <3>3. s7.next = Number(b, n)
      BY <2>8 DEF Numbered
    <3>4. Belongs(b, n, more, TRUE, p)
      BY <3>1, <3>3 DEF Belongs, ToServer
    <3>5. SenderNumbers(b, n, more, TRUE)'
      BY <2>9, <2>15, <3>2, <3>3, <3>4 DEF SenderNumbers
    <3> QED BY <2>12, <2>15, <3>5
  <2> QED BY <2>2, <2>13, <2>14, <2>15
<1> QED BY <1>5, <1>6, <1>7, <1>8, <1>9, <1>10, <1>11 DEF SenderNext

-----------------------------------------------------------------------------
(* The receiver.                                                           *)

(* What a turn does to the fields before it takes a packet for writing.    *)
LEMMA PollsFacts ==
  ASSUME NEW r, IsRcv(r), NEW got, NEW upTo
  PROVE  LET t == PollWriteDataFut(PollRecvStream(r, got), upTo)
         IN  /\ IsRcv(t) /\ t.next = r.next /\ t.handed = r.handed
             /\ BagToSet(t.order) \subseteq BagToSet(r.order) \cup got
<1>1. PICK u : u = PollRecvStream(r, got)
  OBVIOUS
<1>2. /\ IsRcv(u) /\ u.next = r.next /\ u.handed = r.handed
      /\ BagToSet(u.order) \subseteq BagToSet(r.order) \cup got
  <2>1. CASE ~RecvActive(r, got)
    BY <1>1, <2>1 DEF PollRecvStream
  <2>2. CASE RecvActive(r, got)
    <3>1. PICK p : p = CHOOSE x \in got : TRUE
      OBVIOUS
    <3>2. p \in got
      BY <2>2, <3>1 DEF RecvActive
    <3>3. CASE "Fin" \in p.flags
      <4>1. u = [r EXCEPT !.fin = {p.seqno}]
        BY <1>1, <2>2, <3>1, <3>3, Zenon DEF PollRecvStream
      <4> QED BY <4>1 DEF IsRcv
    <3>4. CASE "Fin" \notin p.flags
      <4>1. PICK o : o = IF IsNew(r.seqnos, p.seqno) /\ p.payload # <<>>
                         THEN AddToOrder(r.order, p) ELSE r.order
        OBVIOUS
      <4>2. u = [r EXCEPT !.seqnos = AddSeqno(@, p.seqno),
                          !.order = IF IsNew(r.seqnos, p.seqno) /\ p.payload # <<>>
                                    THEN AddToOrder(@, p) ELSE @]
        <5>1. ~(~RecvActive(r, got)) /\ ~(RecvActive(r, got) /\ "Fin" \in p.flags)
          BY <2>2, <3>4
        <5> QED BY <1>1, <3>1, <5>1 DEF PollRecvStream
      <4>3. u = [r EXCEPT !.seqnos = AddSeqno(r.seqnos, p.seqno), !.order = o]
        BY <4>1, <4>2 DEF IsRcv
      <4>4. IsRcv(u) /\ u.next = r.next /\ u.handed = r.handed /\ u.order = o
        BY <4>3 DEF IsRcv
      <4>5. BagToSet(o) \subseteq BagToSet(r.order) \cup {p}
        BY <4>1 DEF AddToOrder, BagToSet, SetToBag, (+)
      <4> QED BY <3>2, <4>4, <4>5
    <3> QED BY <3>3, <3>4
  <2> QED BY <2>1, <2>2
<1>3. PICK t : t = PollWriteDataFut(u, upTo)
  OBVIOUS
<1>4. IsRcv(t) /\ t.next = u.next /\ t.handed = u.handed /\ t.order = u.order
  BY <1>2, <1>3 DEF PollWriteDataFut, IsRcv
<1> QED BY <1>1, <1>2, <1>3, <1>4

LEMMA MakeWriteFacts ==
  ASSUME NEW r, IsRcv(r), NEW p
  PROVE  LET t == MakeWriteDataFut(r, p)
         IN  /\ IsRcv(t) /\ t.next = Plus(r.next, 1) /\ t.handed = r.handed \o p.payload
             /\ BagToSet(t.order) \subseteq BagToSet(r.order)
<1>1. PICK o : o = r.order (-) SetToBag({p})
  OBVIOUS
<1>2. BagToSet(o) \subseteq BagToSet(r.order)
  BY <1>1 DEF BagToSet, (-)
<1>3. PICK t : t = MakeWriteDataFut(r, p)
  OBVIOUS
<1>4. /\ IsRcv(t) /\ t.next = Plus(r.next, 1) /\ t.handed = r.handed \o p.payload
      /\ t.order = o
  BY <1>1, <1>3 DEF MakeWriteDataFut, IsRcv
<1> QED BY <1>2, <1>3, <1>4

(* The packet taken for writing is the next one.                           *)
LEMMA ReachesNext ==
  ASSUME ConnectionIsShort, NEW b \in Seqno, NEW m, NEW cut, NEW closed \in BOOLEAN,
         Cuts(m, cut), NEW r, Reached(r, b, m, cut, closed),
         NEW p, Belongs(b, m, cut, closed, p), p.seqno = r.next,
         NEW t, t.next = Plus(r.next, 1), t.handed = r.handed \o p.payload
  PROVE  Reached(t, b, m, cut, closed)
<1>1. m \in Nat /\ m + 3 < SeqMod /\ SeqMod \in Nat /\ cut \in [Nat -> Nat]
  <2>1. InputLen \in Nat /\ SeqMod \in Nat
    BY SenderAssumption, SeqModAssumption
  <2>2. m \in 0..InputLen /\ cut \in [Nat -> Nat] /\ InputLen + 3 < SeqMod
    BY DEF Cuts, ConnectionIsShort
  <2> QED BY ONLY <2>1, <2>2
<1>2. PICK j \in 0..m + 1 : /\ r.next = Number(b, j)
                            /\ j = m + 1 => closed /\ r.handed = Cells(0, cut[m])
                            /\ j # m + 1 => r.handed = Cells(0, cut[j])
  <2>1. CASE \E j \in 0..m : r.next = Number(b, j) /\ r.handed = Cells(0, cut[j])
    <3>1. PICK j \in 0..m : r.next = Number(b, j) /\ r.handed = Cells(0, cut[j])
      BY <2>1
    <3>2. j \in 0..m + 1 /\ j # m + 1
      BY <1>1
    <3> QED BY <3>1, <3>2
  <2>2. CASE closed /\ r.next = Number(b, m + 1) /\ r.handed = Cells(0, cut[m])
    <3>1. m + 1 \in 0..m + 1
      BY <1>1
    <3> QED BY <2>2, <3>1
  <2> QED BY <2>1, <2>2 DEF Reached
<1>3. ASSUME NEW i \in -2..m, p.seqno = Number(b, i) PROVE i = j
  <2>1. i \in Int /\ j \in Int /\ i - j < SeqMod /\ j - i < SeqMod
    <3>1. i \in -2..m /\ j \in 0..m + 1 /\ m \in Nat /\ m + 3 < SeqMod /\ SeqMod \in Nat
      BY <1>1, <1>2
    <3>2. i \in Int /\ -2 <= i /\ i <= m /\ j \in Int /\ 0 <= j /\ j <= m + 1
      BY ONLY <3>1
    <3>3. i - j <= m /\ j - i <= m + 3
      BY ONLY <3>1, <3>2
    <3> QED BY ONLY <3>1, <3>2, <3>3
  <2>2. Number(b, i) = Number(b, j)
    BY <1>2, <1>3
  <2> QED BY ONLY b \in Seqno, <2>1, <2>2, NumbersDiffer
<1>4. j \in Int /\ t.next = Number(b, j + 1)
  BY <1>1, <1>2, NumberFacts
<1>5. CASE IsPiece(b, m, cut, p)
  <2>1. PICK i \in 0..m - 1 : p.seqno = Number(b, i) /\ p.payload = Cells(cut[i], cut[i + 1])
    BY <1>5 DEF IsPiece
  <2>2. i = j /\ j # m + 1 /\ j + 1 \in 0..m
    <3>1. i \in -2..m
      <4>1. m \in Nat /\ i \in 0..m - 1
        BY <1>1, <2>1
      <4> QED BY ONLY <4>1
    <3>2. i = j
      BY <1>3, <2>1, <3>1
    <3>3. i \in 0..m - 1 /\ m \in Nat
      BY <1>1
    <3>4. i # m + 1 /\ i + 1 \in 0..m
      BY ONLY <3>3
    <3> QED BY ONLY <3>2, <3>4
  <2>3. PICK x, y : x = cut[j] /\ y = cut[j + 1]
    OBVIOUS
  <2>4. x \in Nat /\ y \in Nat /\ x <= y /\ 0 <= x /\ 0 \in Nat
    BY <1>1, <2>1, <2>2, <2>3 DEF Cuts
  <2>5. Cells(0, x) \o Cells(x, y) = Cells(0, y)
    BY ONLY <2>4, CellsFacts
  <2>6. t.handed = Cells(0, y)
    BY <1>2, <2>1, <2>2, <2>3, <2>5
  <2> QED BY <1>4, <2>2, <2>3, <2>6 DEF Reached
<1>6. CASE closed /\ p.payload = <<>> /\ p.seqno = Number(b, m)
  <2>1. j = m
    BY <1>1, <1>3, <1>6
  <2>2. PICK x : x = cut[m]
    OBVIOUS
  <2>3. x \in Nat /\ 0 \in Nat /\ 0 <= x /\ x <= x
    BY <1>1, <2>2
  <2>4. Cells(0, x) \o <<>> = Cells(0, x)
    BY ONLY <2>3, CellsFacts
  <2> QED BY <1>1, <1>2, <1>4, <1>6, <2>1, <2>2, <2>4 DEF Reached
<1>7. CASE p.seqno = b \/ p.seqno = Plus(b, 1)
  <2>1. p.seqno = Number(b, -2) \/ p.seqno = Number(b, -1)
    BY <1>7, NumberFacts
  <2>2. -2 \in -2..m /\ -1 \in -2..m /\ -2 # j /\ -1 # j
    BY <1>1
  <2> QED BY <1>3, <2>1, <2>2
<1> QED BY <1>5, <1>6, <1>7 DEF Belongs

(* A second connection is never opened: no packet has the number that its  *)
(* first ACK must have.                                                    *)
LEMMA FirstAckFacts ==
  ASSUME ConnectionIsShort, NEW b \in Seqno, NEW m, NEW cut, NEW closed, Cuts(m, cut),
         NEW r, Answered(r, b, m, closed),
         NEW p, Belongs(b, m, cut, closed, p), p.flags = {"Ack"}, p.seqno = r.next
  PROVE  r.next = Plus(b, 1)
<1>1. p.seqno = Plus(b, 1) \/ p.seqno = Number(b, m)
  BY DEF Belongs
<1>2. PICK n, k : n = m + 1 /\ k = -1
  OBVIOUS
<1>3. /\ n \in Int /\ m \in Int /\ k \in Int /\ n - m < SeqMod /\ m - n < SeqMod
      /\ n - k < SeqMod /\ k - n < SeqMod /\ n # m /\ n # k
  <2>1. InputLen \in Nat /\ SeqMod \in Nat
    BY SenderAssumption, SeqModAssumption
  <2>2. m \in 0..InputLen /\ InputLen + 3 < SeqMod
    BY DEF Cuts, ConnectionIsShort
  <2> QED BY ONLY <1>2, <2>1, <2>2
<1>4. Number(b, n) # Number(b, m)
  BY ONLY b \in Seqno, <1>3, NumbersDiffer
<1>5. Number(b, n) # Number(b, k)
  BY ONLY b \in Seqno, <1>3, NumbersDiffer
<1>6. Plus(b, 1) = Number(b, k)
  BY <1>2, NumberFacts
<1> QED BY <1>1, <1>2, <1>4, <1>5, <1>6 DEF Answered

LEMMA NoCells == Cells(0, 0) = <<>>
<1>1. 0 \in Nat /\ 0 <= 0
  OBVIOUS
<1> QED BY ONLY <1>1, CellsFacts

LEMMA ReceiverOrderStep ==
  ASSUME ConnectionIsShort, ReceiverNext, UNCHANGED sVars,
         NEW b, NEW m, NEW cut, NEW closed, Numbering(b, m, cut, closed)
  PROVE  Numbering(b, m, cut, closed)'
<1>2. /\ b \in Seqno /\ closed \in BOOLEAN /\ Cuts(m, cut) /\ m \in Nat
      /\ cut \in [Nat -> Nat] /\ cut[0] = 0
      /\ SenderNumbers(b, m, cut, closed) /\ ReceiverNumbers(b, m, cut, closed)
      /\ IsRcv(rcv) /\ BagToSet(rcv.order) \subseteq c2s
  <2>1. /\ b \in Seqno /\ closed \in BOOLEAN /\ Cuts(m, cut)
        /\ SenderNumbers(b, m, cut, closed) /\ ReceiverNumbers(b, m, cut, closed)
    BY DEF Numbering
  <2>2. m \in Nat /\ cut \in [Nat -> Nat] /\ cut[0] = 0
    BY <2>1, SenderAssumption DEF Cuts
  <2>3. IsRcv(rcv) /\ BagToSet(rcv.order) \subseteq c2s
    BY <2>1 DEF ReceiverNumbers
  <2> QED BY <2>1, <2>2, <2>3
<1>3. \A p \in c2s : Belongs(b, m, cut, closed, p)
  BY <1>2 DEF SenderNumbers
<1>4. c2s' = c2s
  BY DEF ReceiverNext, WaitForFirstSyn, SendSynAck, KeepEarly, WaitForAck, SynAckTimeout,
         AbandonAttempt, ReceivePackets, ReceiveTurn, SendFinAck, WaitForLastAck,
         FinAckTimeout, ReceiverGivesUp, SpawnAckSender, TakeAcks, SendAckRange, netVars
<1>5. ASSUME ReceiverNumbers(b, m, cut, closed)' PROVE Numbering(b, m, cut, closed)'
  <2>1. SenderNumbers(b, m, cut, closed)'
    BY <1>2, <1>4 DEF SenderNumbers, sVars
  <2> QED BY <1>2, <1>5, <2>1 DEF Numbering
<1>6. CASE WaitForFirstSyn
  <2>1. PICK p \in c2s :
          /\ p.flags = {"Syn"}
          /\ rcv' = [NotConnected EXCEPT
                       !.next = Plus(p.seqno, 1),
                       !.send = {SynAckPacket(p.seqno)},
                       !.seqnos = NewSeqnoTracker(Plus(p.seqno, 2))]
          /\ rState' = "SendSynAck"
    BY <1>6 DEF WaitForFirstSyn
  <2>2. /\ IsRcv(rcv') /\ rcv'.next = Plus(p.seqno, 1) /\ rcv'.order = EmptyBag
        /\ rcv'.handed = <<>>
    BY <2>1 DEF NotConnected, IsRcv
  <2>3. p.seqno = b \/ (closed /\ p.seqno = Number(b, m))
    BY <1>3, <2>1 DEF Belongs
  <2>4. Answered(rcv', b, m, closed)
    <3>1. m \in Int /\ Plus(Number(b, m), 1) = Number(b, m + 1)
      BY <1>2, NumberFacts
    <3> QED BY <2>2, <2>3, <3>1 DEF Answered
  <2>5. BagToSet(rcv'.order) = {} /\ rcv'.handed = Cells(0, 0)
    BY <2>2, NoCells DEF BagToSet, EmptyBag, SetToBag
  <2> QED BY <1>2, <1>5, <2>1, <2>2, <2>4, <2>5 DEF ReceiverNumbers
<1>7. CASE SendSynAck \/ SendFinAck
  <2>1. /\ IsRcv(rcv') /\ rcv'.next = rcv.next /\ rcv'.order = rcv.order
        /\ rcv'.handed = rcv.handed
    BY <1>2, <1>7 DEF SendSynAck, SendFinAck, FlushR, IsRcv
  <2> QED BY <1>2, <1>4, <1>5, <1>7, <2>1
          DEF SendSynAck, SendFinAck, ReceiverNumbers, Answered
<1>8. CASE KeepEarly
  <2>1. PICK p \in c2s :
          \/ rcv' = rcv /\ rState' \in {"RecvBufferOverrunOnStart", "Panicked"}
          \/ /\ rcv' = [rcv EXCEPT !.seqnos = AddSeqno(@, p.seqno),
                                   !.order = AddToOrder(@, p)]
             /\ rState' = "WaitForAck"
    BY <1>8 DEF KeepEarly
  <2>2. CASE rcv' = rcv /\ rState' \in {"RecvBufferOverrunOnStart", "Panicked"}
    BY <1>2, <1>4, <1>5, <2>2 DEF ReceiverNumbers
  <2>3. CASE /\ rcv' = [rcv EXCEPT !.seqnos = AddSeqno(@, p.seqno),
                                   !.order = AddToOrder(@, p)]
             /\ rState' = "WaitForAck"
    <3>0. rState = "WaitForAck"
      BY <1>8 DEF KeepEarly
    <3>1. PICK o : o = AddToOrder(rcv.order, p)
      OBVIOUS
    <3>2. BagToSet(o) \subseteq c2s
      BY <1>2, <3>1 DEF AddToOrder, BagToSet, SetToBag, (+)
    <3>3. /\ IsRcv(rcv') /\ rcv'.next = rcv.next /\ rcv'.order = o
          /\ rcv'.handed = rcv.handed
      BY <1>2, <2>3, <3>1 DEF IsRcv
    <3> QED BY <1>2, <1>4, <1>5, <2>3, <3>0, <3>2, <3>3 DEF ReceiverNumbers, Answered
  <2> QED BY <2>1, <2>2, <2>3
<1>9. CASE WaitForAck
  <2>1. PICK p \in c2s : p.flags = {"Ack"} /\ p.seqno = rcv.next
    BY <1>9 DEF WaitForAck, IsFirstAck
  <2>2. /\ IsRcv(rcv') /\ rcv'.next = Plus(rcv.next, 1) /\ rcv'.order = rcv.order
        /\ rcv'.handed = rcv.handed /\ rState = "WaitForAck" /\ rState' = "ReceivePackets"
    BY <1>2, <1>9 DEF WaitForAck, IsRcv
  <2>3. rcv.handed = <<>> /\ Answered(rcv, b, m, closed)
    BY <1>2, <2>2 DEF ReceiverNumbers
  <2>5. rcv.next = Plus(b, 1)
    BY <1>2, <1>3, <2>1, <2>3, FirstAckFacts
  <2>6. rcv'.next = Number(b, 0)
    <3>1. -1 \in Int /\ -1 + 1 = 0
      OBVIOUS
    <3> QED BY <1>2, <2>2, <2>5, <3>1, NumberFacts
  <2>7. Cells(0, 0) = <<>> /\ 0 \in 0..m
    BY <1>2, NoCells
  <2>8. Reached(rcv', b, m, cut, closed)
    BY <1>2, <2>2, <2>3, <2>6, <2>7 DEF Reached
  <2> QED BY <1>2, <1>4, <1>5, <2>2, <2>8 DEF ReceiverNumbers
<1>10. CASE SynAckTimeout \/ FinAckTimeout
  <2>1. /\ IsRcv(rcv') /\ rcv'.next = rcv.next /\ rcv'.order = rcv.order
        /\ rcv'.handed = rcv.handed
    BY <1>2, <1>10 DEF SynAckTimeout, FinAckTimeout, IsRcv
  <2> QED BY <1>2, <1>4, <1>5, <1>10, <2>1
          DEF SynAckTimeout, FinAckTimeout, ReceiverNumbers, Answered
<1>11. CASE AbandonAttempt
  <2>1. /\ IsRcv(rcv') /\ BagToSet(rcv'.order) = {} /\ rcv'.handed = <<>>
        /\ rState' = "WaitForFirstSyn"
    BY <1>11 DEF AbandonAttempt, NotConnected, IsRcv, BagToSet, EmptyBag, SetToBag
  <2>2. rcv'.handed = Cells(0, 0)
    BY <2>1, NoCells
  <2> QED BY <1>2, <1>5, <2>1, <2>2 DEF ReceiverNumbers
<1>12. CASE ReceivePackets
  <2>1. PICK got \in {{}} \cup {{p} : p \in {q \in c2s : PassesReceiver(q)}},
             upTo \in written..Len(rcv.handed), expired \in BOOLEAN :
          ReceiveTurn(got, upTo, expired)
    BY <1>12 DEF ReceivePackets
  <2>2. PICK r : r = PollWriteDataFut(PollRecvStream(rcv, got), upTo)
    OBVIOUS
  <2>3. /\ rState = "ReceivePackets"
        /\ \/ rState' = "Panicked" /\ rcv' = rcv
           \/ \E p \in NextToWrite(r) : rcv' = MakeWriteDataFut(r, p) /\ rState' = rState
           \/ rState' = "TimedOut" /\ rcv' = r
           \/ /\ rState' = "SendFinAck"
              /\ rcv' = [r EXCEPT !.writing = FALSE,
                                  !.send = {FinAckPacket(s) : s \in r.fin}]
           \/ rState' = rState /\ rcv' = r
    BY <2>1, <2>2, Zenon DEF ReceiveTurn
  <2>4. /\ IsRcv(r) /\ r.next = rcv.next /\ r.handed = rcv.handed
        /\ BagToSet(r.order) \subseteq c2s
    <3>1. got \subseteq c2s
      BY <2>1
    <3> QED BY <1>2, <2>2, <3>1, PollsFacts
  <2>5. Reached(r, b, m, cut, closed) /\ \E c \in Nat : r.handed = Cells(0, c)
    BY <1>2, <2>3, <2>4 DEF ReceiverNumbers, Reached
  <2>6. CASE rState' = "Panicked" /\ rcv' = rcv
    BY <1>2, <1>4, <1>5, <2>6 DEF ReceiverNumbers
  <2>7. CASE \E p \in NextToWrite(r) : rcv' = MakeWriteDataFut(r, p) /\ rState' = rState
    <3>1. PICK p \in NextToWrite(r) : rcv' = MakeWriteDataFut(r, p) /\ rState' = rState
      BY <2>7
    <3>2. p \in c2s /\ p.seqno = r.next
      BY <2>4 DEF NextToWrite, Least
    <3>3. /\ IsRcv(rcv') /\ rcv'.next = Plus(r.next, 1) /\ rcv'.handed = r.handed \o p.payload
          /\ BagToSet(rcv'.order) \subseteq c2s
      BY <2>4, <3>1, MakeWriteFacts
    <3>4. Reached(rcv', b, m, cut, closed)
      BY <1>2, <1>3, <2>5, <3>2, <3>3, ReachesNext
    <3>5. \E c \in Nat : rcv'.handed = Cells(0, c)
      BY <1>2, <3>4 DEF Reached
    <3> QED BY <1>4, <1>5, <2>3, <3>1, <3>3, <3>4, <3>5 DEF ReceiverNumbers
  <2>8. CASE rState' \in {"TimedOut", "ReceivePackets"} /\ rcv' = r
    BY <1>4, <1>5, <2>4, <2>5, <2>8 DEF ReceiverNumbers
  <2>9. CASE /\ rState' = "SendFinAck"
             /\ rcv' = [r EXCEPT !.writing = FALSE,
                                 !.send = {FinAckPacket(s) : s \in r.fin}]
    <3>1. /\ IsRcv(rcv') /\ rcv'.order = r.order /\ rcv'.handed = r.handed
      BY <2>4, <2>9 DEF IsRcv
    <3> QED BY <1>4, <1>5, <2>4, <2>5, <2>9, <3>1 DEF ReceiverNumbers
  <2> QED BY <2>3, <2>6, <2>7, <2>8, <2>9
<1>13. CASE WaitForLastAck \/ ReceiverGivesUp \/ SpawnAckSender \/ SendAckRange
  <2>1. rcv' = rcv /\ rState' \in {rState, "DataReceived", "TimedOut"}
    BY <1>13 DEF WaitForLastAck, ReceiverGivesUp, SpawnAckSender, SendAckRange
  <2> QED BY <1>2, <1>4, <1>5, <2>1 DEF ReceiverNumbers
<1>14. CASE TakeAcks
  <2>1. /\ IsRcv(rcv') /\ rcv'.next = rcv.next /\ rcv'.order = rcv.order
        /\ rcv'.handed = rcv.handed /\ rState' = rState
    BY <1>2, <1>14 DEF TakeAcks, IsRcv
  <2> QED BY <1>2, <1>4, <1>5, <2>1 DEF ReceiverNumbers, Reached, Answered
<1> QED BY <1>6, <1>7, <1>8, <1>9, <1>10, <1>11, <1>12, <1>13, <1>14 DEF ReceiverNext

LEMMA InitNumbering ==
  ASSUME Init
  PROVE  \E b, cut : Numbering(b, 0, cut, FALSE) /\ snd.send = {SynPacket(b)}
<1>1. PICK b \in InitSeqnos : snd = [StartData(b) EXCEPT !.send = {SynPacket(b)}]
  BY DEF Init, SenderInit
<1>2. PICK cut : cut = [i \in Nat |-> 0]
  OBVIOUS
<1>3. b \in Seqno /\ Cuts(0, cut)
  BY <1>2, SenderAssumption DEF Cuts
<1>4. /\ snd.next = b /\ snd.taken = 0 /\ snd.send = {SynPacket(b)} /\ c2s = {}
      /\ sState = "SendFirstSyn"
  BY <1>1 DEF StartData, Init, SenderInit, NetInit
<1>5. SenderNumbers(b, 0, cut, FALSE)
  BY <1>4 DEF SenderNumbers, Belongs, SynPacket, ToServer
<1>6. /\ IsRcv(rcv) /\ BagToSet(rcv.order) = {} /\ rcv.handed = <<>>
      /\ rState = "WaitForFirstSyn"
  BY DEF Init, ReceiverInit, NotConnected, IsRcv, BagToSet, EmptyBag, SetToBag
<1>7. rcv.handed = Cells(0, 0)
  BY <1>6, NoCells
<1>8. ReceiverNumbers(b, 0, cut, FALSE)
  BY <1>6, <1>7 DEF ReceiverNumbers
<1> QED BY <1>3, <1>4, <1>5, <1>8 DEF Numbering

LEMMA OrderInvHolds == ASSUME ConnectionIsShort PROVE Spec => []OrderInv
<1>1. Init => OrderInv
  BY InitNumbering DEF OrderInv
<1>2. SenderInv /\ OrderInv /\ [Next]_vars => OrderInv'
  <2>1. OrderInv /\ UNCHANGED vars => OrderInv'
    BY DEF OrderInv, Numbering, SenderNumbers, ReceiverNumbers, vars, sVars, rVars, netVars
  <2>2. SenderInv /\ OrderInv /\ SenderNext /\ UNCHANGED rVars => OrderInv'
    <3> SUFFICES ASSUME SenderInv, OrderInv, SenderNext, UNCHANGED rVars PROVE OrderInv'
      OBVIOUS
    <3>1. PICK b, m, cut, closed : Numbering(b, m, cut, closed)
      BY DEF OrderInv
    <3>2. \E n, more, over : Numbering(b, n, more, over)'
      BY <3>1, SenderOrderStep
    <3> QED BY <3>2 DEF OrderInv
  <2>3. OrderInv /\ ReceiverNext /\ UNCHANGED sVars => OrderInv'
    BY ReceiverOrderStep DEF OrderInv
  <2> QED BY <2>1, <2>2, <2>3 DEF Next, Ended
<1> QED BY <1>1, <1>2, SenderInvHolds, PTL DEF Spec

(* The receiver writes the sender's input: in order, nothing twice and     *)
(* nothing left out, whatever is lost, duplicated or reordered, for        *)
(* windows, packets and buffers of any size.                               *)
THEOREM InputIsWrittenInOrder ==
  ASSUME ConnectionIsShort PROVE Spec => []DeliveredInOrder
<1>1. OrderInv => DeliveredInOrder
  <2> SUFFICES ASSUME OrderInv PROVE DeliveredInOrder
    OBVIOUS
  <2>1. PICK c \in Nat : rcv.handed = Cells(0, c)
    BY DEF OrderInv, Numbering, ReceiverNumbers
  <2> QED BY <2>1, CellsFacts DEF DeliveredInOrder
<1> QED BY <1>1, OrderInvHolds, PTL

-----------------------------------------------------------------------------
(* Acknowledgements.  The receiver's tracker counts positions: position q  *)
(* is the packet of number Number(b, q).                                   *)
Tracked(t) == (0..t.offset - 1) \cup Cover(t.ranges)

(* The tracker and the window's start agree. *)
SeqnosOK(b, st) ==
  /\ st = [tracker |-> st.tracker, start |-> st.start]
  /\ TrackerOK(st.tracker)
  /\ st.start = Number(b, st.tracker.offset)
  /\ Cover(st.tracker.ranges) \subseteq 0..st.tracker.offset + SeqMod - 1

LEMMA NumberOfPosition ==
  ASSUME NEW b \in Seqno, NEW s \in Seqno, NEW o \in Nat
  PROVE  /\ Minus(s, Number(b, o)) \in Nat /\ Minus(s, Number(b, o)) < SeqMod
         /\ Number(b, Minus(s, Number(b, o)) + o) = s
<1>1. PICK N, x, y, p : N = SeqMod /\ x = b + (o + 2) /\ y = x % N /\ p = (s - y) % N
  OBVIOUS
<1>2. /\ N \in Nat \ {0} /\ x \in Int /\ s \in Int /\ s \in 0..N - 1 /\ b \in Int
  BY <1>1, SeqModAssumption DEF Seqno
<1>3. y = Number(b, o) /\ p = Minus(s, Number(b, o))
  BY <1>1 DEF Number, Plus, Minus
<1>4. y \in 0..N - 1
  BY ONLY <1>1, <1>2, ModSmall
<1>5. s - y \in Int /\ p \in 0..N - 1
  <2>1. s - y \in Int
    BY ONLY <1>2, <1>4
  <2>2. PICK z : z = s - y
    OBVIOUS
  <2>3. z \in Int /\ p = z % N
    BY <1>1, <2>1, <2>2
  <2>4. p \in 0..N - 1
    BY ONLY <1>2, <2>3, ModSmall
  <2> QED BY <2>1, <2>4
<1>6. p = (s - x) % N
  BY ONLY <1>1, <1>2, ModAdd
<1>7. (p + x) % N = s
  <2>1. PICK z : z = s - x
    OBVIOUS
  <2>2. z \in Int /\ p = z % N /\ z + x = s
    BY ONLY <1>2, <1>6, <2>1
  <2>3. ((z % N) + x) % N = (z + x) % N
    BY ONLY <1>2, <2>2, ModAdd
  <2>4. s % N = s
    BY ONLY <1>2, ModSmall
  <2> QED BY <2>2, <2>3, <2>4
<1>8. b + ((p + o) + 2) = p + x
  BY ONLY <1>1, <1>2, <1>5, o \in Nat
<1>9. Number(b, p + o) = s
  BY <1>1, <1>7, <1>8 DEF Number, Plus
<1>10. p \in Nat /\ p < SeqMod
  BY <1>1, <1>2, <1>5
<1> QED BY <1>3, <1>9, <1>10

(* add(): the packet's position joins those tracked, unless it is there.   *)
LEMMA AddSeqnoFacts ==
  ASSUME NEW b \in Seqno, NEW st, SeqnosOK(b, st), NEW s \in Seqno, ~AddPanics(st, s)
  PROVE  LET u == AddSeqno(st, s)
         IN  /\ SeqnosOK(b, u) /\ u.start = st.start
             /\ Tracked(st.tracker) \subseteq Tracked(u.tracker)
             /\ \A q \in Tracked(u.tracker) \ Tracked(st.tracker) :
                  Number(b, q) = s /\ IsNew(st, s)
<1>1. PICK t, o, p, q : t = st.tracker /\ o = t.offset /\ p = PosOf(st, s) /\ q = p + o
  OBVIOUS
<1>2. TrackerOK(t) /\ o \in Nat /\ st.start = Number(b, o)
  BY <1>1 DEF SeqnosOK, TrackerOK
<1>3. p \in Nat /\ p < SeqMod /\ Number(b, q) = s
  BY <1>1, <1>2, NumberOfPosition DEF PosOf
<1>4. q \in Nat /\ q \in 0..o + SeqMod - 1 /\ SeqMod \in Nat
  <2>1. SeqMod \in Nat
    BY SeqModAssumption
  <2> QED BY ONLY <1>1, <1>2, <1>3, <2>1
<1>5. IsNew(st, s) <=> IsRangeTracked(t, p, p) # "yes"
  BY <1>1 DEF IsNew
<1>6. IsNew(st, s) => ~TrackPanics(t.ranges, q, q)
  BY <1>1 DEF AddPanics
<1>7. PICK u : u = AddSeqno(st, s)
  OBVIOUS
<1>8. CASE q \notin Cover(t.ranges)
  <2>1. /\ IsNew(st, s) /\ TrackerOK(Track(t, p, p)) /\ Track(t, p, p).offset = o
        /\ Cover(Track(t, p, p).ranges) = Cover(t.ranges) \cup {q}
    BY <1>1, <1>2, <1>3, <1>5, <1>8, TrackOneFacts
  <2>2. u = [tracker |-> Track(t, p, p), start |-> st.start]
    BY <1>1, <1>7, <2>1 DEF AddSeqno, SeqnosOK
  <2>3. SeqnosOK(b, u)
    BY <1>1, <1>2, <1>4, <2>1, <2>2 DEF SeqnosOK
  <2>4. u.tracker.offset = o /\ Cover(u.tracker.ranges) = Cover(t.ranges) \cup {q}
    BY <2>1, <2>2
  <2> QED BY <1>1, <1>3, <1>7, <2>1, <2>2, <2>3, <2>4 DEF Tracked
<1>9. CASE q \in Cover(t.ranges)
  <2>1. IsNew(st, s) => Track(t, p, p) = t
    BY <1>1, <1>2, <1>3, <1>5, <1>6, <1>9, TrackOneFacts
  <2>2. u = st
    BY <1>1, <1>7, <2>1 DEF AddSeqno, SeqnosOK
  <2> QED BY <1>7, <2>2
<1> QED BY <1>8, <1>9

(* take(): the numbers taken or still tracked are the same; none of them   *)
(* is the new start of the window, nor is one that is still tracked.       *)
LEMMA TakeSeqnosFacts ==
  ASSUME NEW b \in Seqno, NEW m \in Nat, m + 1 < SeqMod, NEW st, SeqnosOK(b, st),
         \A q \in Tracked(st.tracker) : Number(b, q) # Number(b, m + 1)
  PROVE  LET u == TakeSeqnos(st)
             t == st.tracker
         IN  /\ SeqnosOK(b, u) /\ Tracked(u.tracker) = Tracked(t)
             /\ CanTake(t) \/ u = st
             /\ \A q \in Cover(t.ranges) : Number(b, q) # u.start
             /\ CanTake(t) => \A q \in Tracked(t) : Number(b, q) # u.start
<1>1. PICK t, o, u : t = st.tracker /\ o = t.offset /\ u = TakeSeqnos(st)
  OBVIOUS
<1>2. /\ TrackerOK(t) /\ o \in Nat /\ st.start = Number(b, o) /\ SeqMod \in Nat \ {0}
      /\ Cover(t.ranges) \subseteq 0..o + SeqMod - 1
  BY <1>1, SeqModAssumption DEF SeqnosOK, TrackerOK
<1>3. CASE ~CanTake(t)
  <2>1. u = st
    BY <1>1, <1>3 DEF TakeSeqnos
  <2>2. \A a \in t.ranges : a[1] \in Nat /\ a[2] \in Nat /\ o <= a[1]
    BY <1>1, <1>2 DEF TrackerOK, DTRange
  <2>3. \A a \in t.ranges : a[1] # o
    <3>1. ASSUME NEW a \in t.ranges, a[1] = o PROVE FALSE
      <4>1. PICK f : f = First(t.ranges)
        OBVIOUS
      <4>2. f \in t.ranges /\ f[1] <= a[1]
        BY <1>2, <4>1, FirstIsLeast DEF TrackerOK
      <4>3. f[1] = o
        BY <1>2, <2>2, <3>1, <4>2
      <4> QED BY <1>1, <1>3, <3>1, <4>1, <4>3 DEF CanTake
    <3> QED BY <3>1
  <2>4. ASSUME NEW q \in Cover(t.ranges), Number(b, q) = Number(b, o) PROVE FALSE
    <3>1. PICK a \in t.ranges : q \in a[1]..a[2]
      BY DEF Cover
    <3>2. q \in Int /\ o \in Int /\ q > o /\ q < o + SeqMod
      BY <1>2, <2>2, <2>3, <3>1
    <3>3. q - o < SeqMod /\ o - q < SeqMod
      BY <1>2, <3>2
    <3>4. q = o
      BY ONLY b \in Seqno, <2>4, <3>2, <3>3, NumbersDiffer
    <3> QED BY <3>2, <3>4
  <2> QED BY <1>1, <1>2, <1>3, <2>1, <2>4
<1>4. CASE CanTake(t)
  <2>1. PICK l : l = First(t.ranges)[2]
    OBVIOUS
  <2>2. /\ TrackerOK(Take(t)) /\ l \in Cover(t.ranges) /\ o <= l
        /\ o..l \subseteq Cover(t.ranges) /\ l + 1 \notin Cover(t.ranges)
        /\ Cover(Take(t).ranges) = Cover(t.ranges) \ (o..l) /\ Take(t).offset = l + 1
    BY <1>1, <1>2, <1>4, <2>1, TakeFacts
  <2>3. l \in Nat
    BY <1>2, <2>2
  <2>4. u.tracker = Take(t) /\ u.start = Number(b, l + 1)
        /\ u = [tracker |-> u.tracker, start |-> u.start]
    <3>1. u = [tracker |-> Take(t), start |-> Plus(Plus(Number(b, o), l - o), 1)]
      BY <1>1, <1>2, <1>4, <2>1 DEF TakeSeqnos, SeqnoAt, TakenLast
    <3>2. PICK x, y : x = o + 2 /\ y = l - o
      OBVIOUS
    <3>3. x \in Int /\ y \in Int /\ x + y = l + 2 /\ b \in Int /\ l \in Int
      BY <1>2, <2>3, <3>2 DEF Seqno
    <3>4. Plus(Plus(b, x), y) = Plus(b, x + y)
      BY ONLY <3>3, SeqnoFacts
    <3>5. Plus(Number(b, o), l - o) = Number(b, l)
      BY <3>2, <3>3, <3>4 DEF Number
    <3>6. Plus(Number(b, l), 1) = Number(b, l + 1)
      BY <3>3, NumberFacts
    <3> QED BY <3>1, <3>5, <3>6
  <2>5. Tracked(u.tracker) = Tracked(t)
    <3>1. \A x : x \in 0..(l + 1) - 1 <=> x \in 0..o - 1 \/ x \in o..l
      BY <1>2, <2>2, <2>3
    <3> QED BY <1>1, <2>2, <2>4, <3>1 DEF Tracked
  <2>6. SeqnosOK(b, u)
    <3>1. Cover(u.tracker.ranges) \subseteq 0..(l + 1) + SeqMod - 1
      BY <1>2, <2>2, <2>3, <2>4
    <3> QED BY <2>2, <2>4, <3>1 DEF SeqnosOK
  <2>7. l <= m
    <3> SUFFICES ASSUME m < l PROVE FALSE
      BY <2>3
    <3>1. m + 1 \in 0..o - 1 \/ m + 1 \in o..l
      BY <1>2, <2>2, <2>3
    <3>2. m + 1 \in Tracked(st.tracker)
      BY <1>1, <2>2, <3>1 DEF Tracked
    <3> QED BY <3>2
  <2>8. ASSUME NEW q \in Tracked(t), Number(b, q) = u.start PROVE FALSE
    <3>1. q \in 0..l \/ q \in Cover(t.ranges)
      BY <1>1, <1>2, <2>2, <2>3 DEF Tracked
    <3>2. PICK n : n = l + 1
      OBVIOUS
    <3>3. q \in Int /\ n \in Int /\ q # n /\ q - n < SeqMod /\ n - q < SeqMod
      <4>1. CASE q \in 0..l
        BY <1>2, <2>3, <2>7, <3>2, <4>1
      <4>2. CASE q \in Cover(t.ranges)
        <5>1. q \in 0..o + SeqMod - 1 /\ q # l + 1
          BY <1>2, <2>2, <4>2
        <5> QED BY <1>2, <2>2, <2>3, <2>7, <3>2, <5>1
      <4> QED BY <3>1, <4>1, <4>2
    <3>4. Number(b, q) = Number(b, n)
      BY <2>4, <2>8, <3>2
    <3> QED BY ONLY b \in Seqno, <3>3, <3>4, NumbersDiffer
  <2>9. \A q \in Cover(t.ranges) : q \in Tracked(t)
    BY DEF Tracked
  <2> QED BY <1>1, <1>4, <2>5, <2>6, <2>8, <2>9
<1> QED BY <1>3, <1>4

-----------------------------------------------------------------------------
(* The numbers of the first m data packets have not gone round.            *)
Flat(b, m) == b + m + 1 < SeqMod

(* The list of packets waiting ends with data packet m - 1.  A: the numbers *)
(* that may have been acknowledged; every other packet is waiting.         *)
Listed(w, b, m) ==
  /\ Len(w) <= m
  /\ \A k \in DOMAIN w : w[k].seqno = Number(b, m + k - Len(w) - 1)

Settled(w, b, i, A) ==
  Number(b, i) \in A \/ \E k \in Unacked(w) : w[k].seqno = Number(b, i)

Sending(w, b, m, A) ==
  Listed(w, b, m) /\ (Flat(b, m) => \A i \in 0..m - 1 : Settled(w, b, i, A))

(* An ACK that names data packets x to y, all in A; with WS all up to y.   *)
Names(p, b, A) ==
  \E x, y \in Nat :
     /\ x <= y /\ p.lo = Number(b, x) /\ p.hi = Number(b, y)
     /\ \A q \in x..y : Number(b, q) \in A
     /\ "WS" \in p.flags => \A q \in 0..y : Number(b, q) \in A

AllNamed(got, b, A) == \A p \in got : Names(p, b, A)

Increasing(w) == \A i, j \in DOMAIN w : i <= j => w[i].seqno <= w[j].seqno

LEMMA EntriesTyped ==
  ASSUME NEW w \in Seq(Entry)
  PROVE  /\ DOMAIN w = 1..Len(w) /\ Len(w) \in Nat
         /\ \A i \in DOMAIN w : /\ i \in Nat /\ w[i] \in Entry
                                /\ w[i].seqno \in Seqno /\ w[i].seqno \in Int
<1>1. \A i \in DOMAIN w : w[i] \in Entry
  OBVIOUS
<1>2. \A s \in Seqno : s \in Int
  BY SeqModAssumption DEF Seqno
<1>3. \A i \in DOMAIN w : w[i].seqno \in Seqno
  BY <1>1 DEF Entry
<1> QED BY <1>1, <1>2, <1>3

LEMMA SelectedFacts ==
  ASSUME NEW w \in Seq(Entry), Increasing(w), NEW lo \in Int, NEW hi \in Int,
         NEW i \in Selected(w, lo, hi)
  PROVE  i \in Unacked(w) /\ lo <= w[i].seqno /\ w[i].seqno <= hi
<1>1. \A k \in DOMAIN w : w[k].seqno \in Int /\ k \in Int
  BY EntriesTyped
<1>2. PICK j \in Unacked(w) : j <= i /\ w[j].seqno >= lo
  BY DEF Selected
<1>3. i \in Unacked(w) /\ i \in DOMAIN w /\ j \in DOMAIN w
  BY DEF Selected, Unacked
<1>4. lo <= w[i].seqno
  BY <1>1, <1>2, <1>3 DEF Increasing
<1>5. i <= i
  BY <1>1, <1>3
<1>6. w[i].seqno <= hi
  BY <1>2, <1>3, <1>5 DEF Selected
<1> QED BY <1>3, <1>4, <1>6

LEMMA InCircular ==
  ASSUME NEW lo \in Seqno, NEW hi \in Seqno, NEW s \in Seqno,
         \/ lo <= s /\ s <= hi
         \/ lo > hi /\ (lo <= s \/ s <= hi)
  PROVE  s \in Circular(lo, hi)
<1>1. PICK N, d, r : N = SeqMod /\ d = hi - lo /\ r = d % N
  OBVIOUS
<1>2. /\ N \in Nat \ {0} /\ lo \in Int /\ hi \in Int /\ s \in Int
      /\ 0 <= lo /\ lo < N /\ 0 <= hi /\ hi < N /\ 0 <= s /\ s < N
  BY <1>1, SeqModAssumption DEF Seqno
<1>3. /\ d \in Int /\ (lo <= hi => d \in 0..N - 1) /\ (lo > hi => d \in -N..-1)
  BY ONLY <1>1, <1>2
<1>4. r \in Int /\ (lo <= hi => r = d) /\ (lo > hi => r = d + N)
  <2>1. r \in 0..N - 1 /\ (d \in 0..N - 1 => r = d) /\ (d \in -N..-1 => r = d + N)
    BY ONLY <1>1, <1>2, <1>3, ModSmall
  <2>2. r \in Int
    BY ONLY <1>2, <2>1
  <2> QED BY ONLY <1>3, <2>1, <2>2
<1>5. s % N = s /\ (s + N) % N = s
  <2>1. PICK z : z = s + N
    OBVIOUS
  <2>2. z \in Int /\ z \in N..2 * N - 1 /\ z - N = s /\ s \in 0..N - 1
    BY ONLY <1>2, <2>1
  <2> QED BY ONLY <1>2, <2>1, <2>2, ModSmall
<1>6. \E i \in 0..r : (lo + i) % N = s
  <2>1. CASE lo <= s
    <3>1. lo + (s - lo) = s /\ s - lo \in 0..r
      BY ONLY <1>1, <1>2, <1>4, <2>1, \/ lo <= s /\ s <= hi
                                      \/ lo > hi /\ (lo <= s \/ s <= hi)
    <3> QED BY <1>5, <3>1
  <2>2. CASE s < lo
    <3>1. lo + (s - lo + N) = s + N /\ s - lo + N \in 0..r
      BY ONLY <1>1, <1>2, <1>4, <2>2, \/ lo <= s /\ s <= hi
                                      \/ lo > hi /\ (lo <= s \/ s <= hi)
    <3> QED BY <1>5, <3>1
  <2> QED BY <1>2, <2>1, <2>2
<1> QED BY <1>1, <1>6 DEF Circular, Plus, Minus

LEMMA ModLess ==
  ASSUME NEW N \in Nat \ {0}, NEW z \in Nat
  PROVE  z % N <= z
OBVIOUS

LEMMA CircularIsNamed ==
  ASSUME NEW b \in Seqno, NEW x \in Nat, NEW y \in Nat, x <= y,
         NEW s \in Circular(Number(b, x), Number(b, y))
  PROVE  \E q \in x..y : s = Number(b, q)
<1>1. PICK u, v, z : u = x + 2 /\ v = y + 2 /\ z = y - x
  OBVIOUS
<1>2. b \in Int /\ u \in Int /\ v \in Int /\ v - u = z /\ z \in Nat /\ SeqMod \in Nat \ {0}
  BY <1>1, SeqModAssumption DEF Seqno
<1>3. Minus(Plus(b, v), Plus(b, u)) = (v - u) % SeqMod
  BY ONLY <1>2, SeqnoFacts
<1>4. z % SeqMod <= z /\ z % SeqMod \in Int
  <2>1. z % SeqMod <= z
    BY ONLY <1>2, ModLess
  <2>2. z \in Int
    BY <1>2
  <2> QED BY ONLY <1>2, <2>1, <2>2, ModSmall
<1>5. PICK i \in 0..(z % SeqMod) : s = Plus(Number(b, x), i)
  BY <1>1, <1>2, <1>3 DEF Circular, Number
<1>6. i \in Int /\ 0 <= i /\ i <= z
  <2>1. PICK r : r = z % SeqMod
    OBVIOUS
  <2>2. r <= z /\ r \in Int /\ i \in 0..r /\ z \in Int
    BY <1>2, <1>4, <1>5, <2>1
  <2> QED BY ONLY <2>2
<1>7. Plus(Plus(b, u), i) = Plus(b, u + i)
  BY ONLY <1>2, <1>6, SeqnoFacts
<1>8. u + i = (x + i) + 2 /\ x + i \in x..y
  BY <1>1, <1>6
<1> QED BY <1>1, <1>5, <1>7, <1>8 DEF Number

LEMMA MarkIsNamed ==
  ASSUME NEW w \in Seq(Entry), NEW I, NEW k \in Unacked(w) \ Unacked(Mark(w, I))
  PROVE  k \in I
<1>1. \A i \in DOMAIN w : w[i] \in Entry
  OBVIOUS
<1>2. k \in DOMAIN w /\ k \in DOMAIN Mark(w, I) /\ ~w[k].acked /\ Mark(w, I)[k].acked
  BY DEF Unacked, Mark
<1> QED BY <1>1, <1>2 DEF Mark, Entry

LEMMA SimilarIncreasing ==
  ASSUME NEW w \in Seq(Entry), Increasing(w), NEW v, Similar(w, v)
  PROVE  Increasing(v)
BY DEF Similar, Increasing

(* What an acknowledgement marks has a number it names.                    *)
LEMMA RemovedIsNamed ==
  ASSUME NEW w \in Seq(Entry), Increasing(w), NEW lo \in Seqno, NEW hi \in Seqno,
         NEW k \in Unacked(w) \ Unacked(Removed(w, lo, hi))
  PROVE  /\ w[k].seqno \in Circular(lo, hi)
         /\ lo <= hi => lo <= w[k].seqno /\ w[k].seqno <= hi
<1>1. PICK F, S : F = FirstPart(w, lo, hi) /\ S = SecondPart(w, lo, hi)
  OBVIOUS
<1>2. /\ lo \in Int /\ hi \in Int /\ SeqMod - 1 \in Int /\ 0 \in Int
      /\ \A i \in DOMAIN w : w[i].seqno \in Seqno /\ w[i].seqno \in Int
  BY SeqModAssumption, EntriesTyped DEF Seqno
<1>3. k \in F \/ k \in S
  BY <1>1, MarkIsNamed DEF Removed
<1>4. k \in DOMAIN w /\ w[k].seqno \in Seqno /\ w[k].seqno \in Int
  BY <1>2 DEF Unacked
<1>5. CASE k \in F
  <2>1. CASE lo > hi
    <3>1. k \in Selected(w, lo, SeqMod - 1)
      BY <1>1, <1>5, <2>1 DEF FirstPart
    <3>2. lo <= w[k].seqno
      BY <1>2, <3>1, SelectedFacts
    <3> QED BY <1>2, <1>4, <2>1, <3>2, InCircular
  <2>2. CASE ~(lo > hi)
    <3>1. k \in Selected(w, lo, hi)
      BY <1>1, <1>5, <2>2 DEF FirstPart
    <3>2. lo <= w[k].seqno /\ w[k].seqno <= hi
      BY <1>2, <3>1, SelectedFacts
    <3> QED BY <1>2, <1>4, <2>2, <3>2, InCircular
  <2> QED BY <2>1, <2>2
<1>6. CASE k \in S
  <2>1. lo > hi /\ k \in Selected(Mark(w, F), 0, hi)
    BY <1>1, <1>6 DEF SecondPart
  <2>2. PICK v : v = Mark(w, F)
    OBVIOUS
  <2>3. Similar(w, v) /\ v \in Seq(Entry)
    BY <2>2, MarkFacts DEF Similar
  <2>4. Increasing(v)
    BY <2>3, SimilarIncreasing
  <2>5. v[k].seqno <= hi
    BY <1>2, <2>1, <2>2, <2>3, <2>4, SelectedFacts
  <2>6. v[k].seqno = w[k].seqno
    BY <1>4, <2>3 DEF Similar
  <2> QED BY <1>2, <1>4, <2>1, <2>5, <2>6, InCircular
<1> QED BY <1>3, <1>5, <1>6

LEMMA ListedFlat ==
  ASSUME NEW b \in Seqno, NEW m \in Nat, NEW w \in Seq(Entry), Listed(w, b, m), Flat(b, m)
  PROVE  /\ \A k \in DOMAIN w : \E i \in 0..m - 1 :
              w[k].seqno = b + i + 2 /\ Number(b, i) = w[k].seqno
         /\ Increasing(w)
<1>1. PICK len : len = Len(w)
  OBVIOUS
<1>2. /\ b \in Int /\ 0 <= b /\ SeqMod \in Nat \ {0} /\ b + m + 1 < SeqMod
      /\ len \in Nat /\ len <= m /\ DOMAIN w = 1..len
      /\ \A k \in DOMAIN w : k \in Nat /\ w[k].seqno = Number(b, m + k - len - 1)
  BY <1>1, EntriesTyped, SeqModAssumption DEF Seqno, Flat, Listed
<1>3. \A i \in 0..m - 1 : Number(b, i) = b + i + 2
  <2> TAKE i \in 0..m - 1
  <2>1. PICK z : z = b + (i + 2)
    OBVIOUS
  <2>2. z \in Int /\ z \in 0..SeqMod - 1 /\ z = b + i + 2
    BY <1>2, <2>1
  <2>3. z % SeqMod = z
    BY ONLY <1>2, <2>2, ModSmall
  <2> QED BY <2>1, <2>2, <2>3 DEF Number, Plus
<1>4. \A k \in DOMAIN w : m + k - len - 1 \in 0..m - 1
  BY <1>2
<1>5. \A k \in DOMAIN w : w[k].seqno = b + (m + k - len - 1) + 2
  BY <1>2, <1>3, <1>4
<1>6. Increasing(w)
  BY <1>2, <1>5 DEF Increasing
<1> QED BY <1>2, <1>3, <1>4, <1>6

(* What an ACK marks has arrived, although the comparisons are raw: until  *)
(* the numbers go round they are those of the packets' order.              *)
LEMMA SyncedIsNamed ==
  ASSUME NEW b \in Seqno, NEW m \in Nat, NEW w \in Seq(Entry), Listed(w, b, m), Flat(b, m),
         Unacked(w) # {}, NEW A, NEW p, Names(p, b, A),
         NEW k \in Unacked(w) \ Unacked(Removed(WindowSynced(w, p), p.lo, p.hi))
  PROVE  w[k].seqno \in A
<1>1. PICK x \in Nat, y \in Nat :
        /\ x <= y /\ p.lo = Number(b, x) /\ p.hi = Number(b, y)
        /\ \A q \in x..y : Number(b, q) \in A
        /\ "WS" \in p.flags => \A q \in 0..y : Number(b, q) \in A
  BY DEF Names
<1>2. PICK lo, hi, v : lo = p.lo /\ hi = p.hi /\ v = WindowSynced(w, p)
  OBVIOUS
<1>3. lo \in Seqno /\ hi \in Seqno
  <2>1. x \in Int /\ y \in Int
    OBVIOUS
  <2> QED BY <1>1, <1>2, <2>1, NumberFacts
<1>4. /\ Increasing(w)
      /\ \A j \in DOMAIN w : \E i \in 0..m - 1 :
           w[j].seqno = b + i + 2 /\ Number(b, i) = w[j].seqno
  BY ListedFlat
<1>5. Similar(w, v) /\ v \in Seq(Entry)
  <2>1. Similar(w, w)
    BY DEF Similar
  <2> QED BY <1>2, <2>1, RemovedFacts DEF WindowSynced, Similar
<1>6. Increasing(v) /\ k \in DOMAIN w
  BY <1>4, <1>5, SimilarIncreasing DEF Unacked
<1>7. CASE k \in Unacked(v)
  <2>1. k \in Unacked(v) \ Unacked(Removed(v, lo, hi))
    BY <1>2, <1>7
  <2>2. v[k].seqno \in Circular(lo, hi)
    BY ONLY <1>3, <1>5, <1>6, <2>1, RemovedIsNamed
  <2>3. v[k].seqno = w[k].seqno
    BY <1>5, <1>6 DEF Similar
  <2>4. \E q \in x..y : v[k].seqno = Number(b, q)
    BY <1>1, <1>2, <2>2, CircularIsNamed
  <2> QED BY <1>1, <2>3, <2>4
<1>8. CASE k \notin Unacked(v)
  <2>1. PICK f, start : f = FirstUnacked(w) /\ start = w[f].seqno
    OBVIOUS
  <2>2. /\ "WS" \in p.flags /\ lo \in start..(start + SenderWindow - 1)
        /\ v = Removed(w, start, lo)
    BY <1>2, <1>8, <2>1 DEF WindowSynced
  <2>3. start \in Seqno
    BY <2>1, FirstUnackedFacts, EntriesTyped
  <2>4. k \in Unacked(w) \ Unacked(Removed(w, start, lo))
    BY <1>8, <2>2
  <2>5. start <= lo => start <= w[k].seqno /\ w[k].seqno <= lo
    BY ONLY <1>3, <1>4, <2>3, <2>4, w \in Seq(Entry), RemovedIsNamed
  <2>6. PICK i \in 0..m - 1 : w[k].seqno = b + i + 2 /\ Number(b, i) = w[k].seqno
    BY <1>4, <1>6
  <2>7. start <= lo
    <3>1. start \in Int /\ SenderWindow \in Int
      BY <2>3, SenderAssumption, SeqModAssumption DEF Seqno
    <3> QED BY <2>2, <3>1
  <2>8. lo <= b + x + 2
    <3>1. PICK z : z = b + (x + 2)
      OBVIOUS
    <3>2. z \in Nat /\ SeqMod \in Nat \ {0} /\ z = b + x + 2
      BY <3>1, SeqModAssumption DEF Seqno
    <3>3. z % SeqMod <= z
      BY ONLY <3>2, ModLess
    <3> QED BY <1>1, <1>2, <3>1, <3>2, <3>3 DEF Number, Plus
  <2>9. i \in 0..y
    <3>1. b \in Int /\ lo \in Int
      BY <1>3, SeqModAssumption DEF Seqno
    <3> QED BY <1>1, <2>5, <2>6, <2>7, <2>8, <3>1
  <2> QED BY <1>1, <2>2, <2>6, <2>9
<1> QED BY <1>7, <1>8

LEMMA SendingDrops ==
  ASSUME NEW b \in Seqno, NEW m \in Nat, NEW A, NEW w \in Seq(Entry), Sending(w, b, m, A),
         NEW v, NEW d \in Nat, DropsFront(w, v, d)
  PROVE  Sending(v, b, m, A)
<1>1. /\ v \in Seq(Entry) /\ Len(w) \in Nat /\ Len(v) \in Nat /\ Len(v) = Len(w) - d
      /\ DOMAIN w = 1..Len(w) /\ DOMAIN v = 1..Len(v)
      /\ \A i \in 1..Len(v) : i + d \in DOMAIN w /\ v[i] = w[i + d]
      /\ \A i \in Unacked(w) : d < i
  BY DEF DropsFront
<1>2. \A i \in DOMAIN v : m + (i + d) - Len(w) - 1 = m + i - Len(v) - 1
  BY <1>1
<1>3. Listed(v, b, m)
  <2>1. Len(w) <= m /\ \A k \in DOMAIN w : w[k].seqno = Number(b, m + k - Len(w) - 1)
    BY DEF Sending, Listed
  <2>2. Len(v) <= m
    BY ONLY <1>1, <2>1, m \in Nat, d \in Nat
  <2>3. ASSUME NEW i \in DOMAIN v PROVE v[i].seqno = Number(b, m + i - Len(v) - 1)
    <3>1. v[i] = w[i + d] /\ i + d \in DOMAIN w
      BY <1>1
    <3>2. w[i + d].seqno = Number(b, m + (i + d) - Len(w) - 1)
      BY <2>1, <3>1
    <3> QED BY <1>2, <3>1, <3>2
  <2> QED BY <2>2, <2>3 DEF Listed
<1>4. ASSUME NEW k \in Unacked(w) PROVE \E j \in Unacked(v) : v[j] = w[k]
  <2>1. k \in 1..Len(w) /\ d < k /\ ~w[k].acked
    BY <1>1 DEF Unacked
  <2>2. PICK j : j = k - d
    OBVIOUS
  <2>3. j \in 1..Len(v) /\ j + d = k
    BY <1>1, <2>1, <2>2
  <2>4. v[j] = w[k] /\ j \in DOMAIN v
    BY <1>1, <2>3
  <2> QED BY <2>1, <2>4 DEF Unacked
<1> QED BY <1>3, <1>4 DEF Sending, Settled

LEMMA SendingAppend ==
  ASSUME NEW b \in Seqno, NEW m \in Nat, NEW A, NEW w \in Seq(Entry), Sending(w, b, m, A),
         NEW e \in Entry, e.seqno = Number(b, m), ~e.acked
  PROVE  Sending(Append(w, e), b, m + 1, A)
<1>1. PICK v, len : v = Append(w, e) /\ len = Len(w)
  OBVIOUS
<1>2. /\ v \in Seq(Entry) /\ len \in Nat /\ Len(v) = len + 1 /\ DOMAIN v = 1..len + 1
      /\ v[len + 1] = e /\ \A i \in 1..len : v[i] = w[i]
      /\ DOMAIN w = 1..len /\ len <= m
  BY <1>1 DEF Sending, Listed
<1>3. Listed(v, b, m + 1)
  <2>1. Len(v) <= m + 1
    BY <1>2
  <2>2. ASSUME NEW k \in DOMAIN v PROVE v[k].seqno = Number(b, (m + 1) + k - Len(v) - 1)
    <3>1. CASE k \in 1..len
      <4>1. (m + 1) + k - Len(v) - 1 = m + k - len - 1
        BY <1>2, <3>1
      <4>2. v[k] = w[k] /\ k \in DOMAIN w
        BY <1>2, <3>1
      <4> QED BY <1>1, <4>1, <4>2 DEF Sending, Listed
    <3>2. CASE k = len + 1
      <4>1. (m + 1) + k - Len(v) - 1 = m
        BY <1>2, <3>2
      <4> QED BY <1>2, <3>2, <4>1
    <3> QED BY <1>2, <3>1, <3>2
  <2> QED BY <2>1, <2>2 DEF Listed
<1>4. ASSUME Flat(b, m + 1), NEW i \in 0..m PROVE Settled(v, b, i, A)
  <2>1. Flat(b, m)
    <3>1. b \in Int /\ SeqMod \in Int /\ b + (m + 1) + 1 < SeqMod
      BY <1>4, SeqModAssumption DEF Seqno, Flat
    <3> QED BY <3>1 DEF Flat
  <2>2. \A k \in Unacked(w) : k \in Unacked(v) /\ v[k] = w[k]
    BY <1>2 DEF Unacked
  <2>3. CASE i = m
    <3>1. len + 1 \in Unacked(v)
      BY <1>2 DEF Unacked
    <3> QED BY <1>2, <2>3, <3>1 DEF Settled
  <2>4. CASE i # m
    <3>1. i \in 0..m - 1
      BY <2>4
    <3>2. Settled(w, b, i, A)
      BY <2>1, <3>1 DEF Sending
    <3> QED BY <2>2, <3>2 DEF Settled
  <2> QED BY <2>3, <2>4
<1>5. 0..(m + 1) - 1 = 0..m
  OBVIOUS
<1> QED BY <1>1, <1>3, <1>4, <1>5 DEF Sending

LEMMA SendingAcked ==
  ASSUME NEW b \in Seqno, NEW m \in Nat, NEW A, NEW w \in Seq(Entry), Sending(w, b, m, A),
         NEW v, Similar(w, v),
         Flat(b, m) => \A k \in Unacked(w) \ Unacked(v) : w[k].seqno \in A
  PROVE  Sending(v, b, m, A)
<1>1. /\ Len(v) = Len(w) /\ DOMAIN v = DOMAIN w /\ Unacked(w) \subseteq DOMAIN w
      /\ \A i \in DOMAIN w : v[i].seqno = w[i].seqno
  BY DEF Similar, Unacked
<1>2. Listed(v, b, m)
  BY <1>1 DEF Sending, Listed
<1>3. ASSUME Flat(b, m), NEW i \in 0..m - 1 PROVE Settled(v, b, i, A)
  <2>1. Settled(w, b, i, A)
    BY <1>3 DEF Sending
  <2>2. CASE Number(b, i) \in A
    BY <2>2 DEF Settled
  <2>3. CASE \E k \in Unacked(w) : w[k].seqno = Number(b, i)
    <3>1. PICK k \in Unacked(w) : w[k].seqno = Number(b, i)
      BY <2>3
    <3>2. CASE k \in Unacked(v)
      BY <1>1, <3>1, <3>2 DEF Settled
    <3>3. CASE k \notin Unacked(v)
      BY <1>3, <3>1, <3>3 DEF Settled
    <3> QED BY <3>2, <3>3
  <2> QED BY <2>1, <2>2, <2>3 DEF Settled
<1> QED BY <1>2, <1>3 DEF Sending

(* What may have been acknowledged, and more.                              *)
LEMMA SendingMore ==
  ASSUME NEW b, NEW m, NEW w, NEW A, NEW C, Sending(w, b, m, A), A \subseteq C
  PROVE  Sending(w, b, m, C)
BY DEF Sending, Settled

(* Every packet more than a window before the last is acknowledged.        *)
Passed(b, m, A) ==
  Flat(b, m) => \A i \in 0..m - 1 : m - i > SenderWindow => Number(b, i) \in A

LEMMA SendingPasses ==
  ASSUME NEW b \in Seqno, NEW m \in Nat, m < SeqMod, NEW A, NEW w \in Seq(Entry),
         Sending(w, b, m, A), \A k \in Unacked(w) : Len(w) + 1 - k <= SenderWindow
  PROVE  Passed(b, m, A)
<1> SUFFICES ASSUME Flat(b, m), NEW i \in 0..m - 1, m - i > SenderWindow,
                    NEW k \in Unacked(w), w[k].seqno = Number(b, i)
             PROVE  FALSE
  BY DEF Passed, Sending, Settled
<1>1. PICK j, len : j = m + k - len - 1 /\ len = Len(w)
  OBVIOUS
<1>2. /\ k \in 1..len /\ len \in Nat /\ len <= m /\ SeqMod \in Nat /\ SenderWindow \in Nat
      /\ len + 1 - k <= SenderWindow /\ w[k].seqno = Number(b, j)
  <2>1. k \in DOMAIN w /\ DOMAIN w = 1..len /\ len \in Nat
    BY <1>1, EntriesTyped DEF Unacked
  <2>2. len <= m /\ w[k].seqno = Number(b, j)
    BY <1>1, <2>1 DEF Sending, Listed
  <2>3. SeqMod \in Nat /\ SenderWindow \in Nat
    BY SenderAssumption, SeqModAssumption
  <2> QED BY <1>1, <2>1, <2>2, <2>3
<1>3. i \in Int /\ j \in Int /\ i - j < SeqMod /\ j - i < SeqMod /\ j # i
  BY <1>1, <1>2
<1>4. Number(b, i) = Number(b, j)
  BY <1>2
<1> QED BY ONLY b \in Seqno, <1>3, <1>4, NumbersDiffer

-----------------------------------------------------------------------------
(* A turn keeps the list.                                                  *)
LEMMA SendingRoom ==
  ASSUME NEW b \in Seqno, NEW m \in Nat, NEW A, NEW s, SndOK(s), Sending(s.wait, b, m, A)
  PROVE  RoomInWait(s) \in Seq(Entry) /\ Sending(RoomInWait(s), b, m, A)
<1>1. PICK w : w = s.wait
  OBVIOUS
<1>2. w \in Seq(Entry)
  BY <1>1 DEF SndOK
<1>3. PICK d \in Nat : DropsFront(w, Cleaned(w), d)
  BY <1>2, CleanedFacts
<1>4. Sending(Cleaned(w), b, m, A) /\ Cleaned(w) \in Seq(Entry)
  <2>1. Sending(w, b, m, A)
    BY <1>1
  <2>2. PICK v : v = Cleaned(w)
    OBVIOUS
  <2>3. DropsFront(w, v, d)
    BY <1>3, <2>2
  <2>4. Sending(v, b, m, A)
    BY ONLY b \in Seqno, m \in Nat, <1>2, <2>1, d \in Nat, <2>3, SendingDrops
  <2> QED BY <2>2, <2>3, <2>4 DEF DropsFront
<1> QED BY <1>1, <1>2, <1>4 DEF RoomInWait

LEMMA SendingSends ==
  ASSUME NEW b \in Seqno, NEW m \in Nat, NEW n \in Nat, m <= n, n + 1 < SeqMod, NEW A,
         NEW s, NEW t, SndOK(s), Sends(s, t), s.next = Number(b, m), t.next = Number(b, n),
         Sending(s.wait, b, m, A)
  PROVE  n \in {m, m + 1} /\ Sending(t.wait, b, n, A)
<1>1. m \in Int /\ n \in Int /\ SeqMod \in Int
  BY SeqModAssumption
<1>2. CASE t = s \/ Resent(s, t)
  <2>1. Number(b, n) = Number(b, m) /\ t.wait = s.wait
    BY <1>2 DEF Resent
  <2>2. n - m < SeqMod /\ m - n < SeqMod
    BY <1>1
  <2>3. n = m
    BY ONLY b \in Seqno, <1>1, <2>1, <2>2, NumbersDiffer
  <2> QED BY <2>1, <2>3
<1>3. CASE FirstSent(s, t)
  <2>1. PICK d \in Inputs(s) :
          /\ t.next = Plus(s.next, 1)
          /\ t.wait = Append(RoomInWait(s),
                        [seqno |-> s.next, payload |-> d.payload, acked |-> FALSE])
    BY <1>3 DEF FirstSent
  <2>2. PICK k : k = m + 1
    OBVIOUS
  <2>3. k \in Int /\ Number(b, n) = Number(b, k)
    BY <1>1, <2>1, <2>2, NumberFacts
  <2>4. n - k < SeqMod /\ k - n < SeqMod
    BY <1>1, <2>2
  <2>5. n = k
    BY ONLY b \in Seqno, <1>1, <2>3, <2>4, NumbersDiffer
  <2>6. PICK e : e = [seqno |-> s.next, payload |-> d.payload, acked |-> FALSE]
    OBVIOUS
  <2>7. e \in Entry /\ e.seqno = Number(b, m) /\ ~e.acked
    BY <2>6 DEF Entry, SndOK, Inputs, Item
  <2>8. PICK w : w = RoomInWait(s)
    OBVIOUS
  <2>9. w \in Seq(Entry) /\ Sending(w, b, m, A)
    BY <2>8, SendingRoom
  <2>10. Sending(Append(w, e), b, m + 1, A)
    BY ONLY b \in Seqno, m \in Nat, <2>7, <2>9, SendingAppend
  <2> QED BY <2>1, <2>2, <2>5, <2>6, <2>8, <2>10
<1> QED BY <1>2, <1>3 DEF Sends

LEMMA SendingReceives ==
  ASSUME NEW b \in Seqno, NEW m \in Nat, NEW A, NEW s, SndOK(s), Sending(s.wait, b, m, A),
         NEW got, \A p \in got : Names(p, b, A)
  PROVE  Sending(PollReceivePackets(s, got).wait, b, m, A)
<1>1. CASE ~ReceiveActive(s, got)
  BY <1>1 DEF PollReceivePackets
<1>2. CASE ReceiveActive(s, got)
  <2>1. PICK p : p = CHOOSE x \in got : TRUE
    OBVIOUS
  <2>2. PICK w, v : w = s.wait /\ v = Removed(WindowSynced(w, p), p.lo, p.hi)
    OBVIOUS
  <2>3. PollReceivePackets(s, got) = [s EXCEPT !.wait = v]
    BY <1>2, <2>1, <2>2, Zenon DEF PollReceivePackets
  <2>4. PollReceivePackets(s, got).wait = v
    BY <2>3 DEF SndOK
  <2>5. w \in Seq(Entry) /\ Unacked(w) # {} /\ p \in got
    BY <1>2, <2>1, <2>2 DEF ReceiveActive, SndOK
  <2>6. Names(p, b, A) /\ Similar(w, v) /\ Sending(w, b, m, A)
    BY <2>2, <2>5, SyncedFacts
  <2>7. ASSUME Flat(b, m), NEW k \in Unacked(w) \ Unacked(v) PROVE w[k].seqno \in A
    <3>1. Listed(w, b, m)
      BY <2>6 DEF Sending
    <3>2. k \in Unacked(w) \ Unacked(Removed(WindowSynced(w, p), p.lo, p.hi))
      BY <2>2, <2>7
    <3> QED BY ONLY b \in Seqno, m \in Nat, <2>5, <2>6, <2>7, <3>1, <3>2, SyncedIsNamed
  <2>8. Sending(v, b, m, A)
    BY ONLY b \in Seqno, m \in Nat, <2>5, <2>6, <2>7, SendingAcked
  <2> QED BY <2>4, <2>8
<1> QED BY <1>1, <1>2

LEMMA SendingKeeps ==
  ASSUME NEW b \in Seqno, NEW m \in Nat, NEW A, NEW s, NEW t, SndOK(s), Keeps(s, t),
         Sending(s.wait, b, m, A)
  PROVE  Sending(t.wait, b, m, A)
<1>1. PICK w, v : w = s.wait /\ v = t.wait
  OBVIOUS
<1>2. PICK d \in Nat : DropsFront(w, v, d)
  BY <1>1 DEF Keeps
<1>3. w \in Seq(Entry) /\ Sending(w, b, m, A)
  BY <1>1 DEF SndOK
<1>4. Sending(v, b, m, A)
  BY ONLY b \in Seqno, m \in Nat, d \in Nat, <1>2, <1>3, SendingDrops
<1> QED BY <1>1, <1>4

(* A turn: every packet made is acknowledged or waiting afterwards.        *)
LEMMA SendingTurn ==
  ASSUME NEW b \in Seqno, NEW m \in Nat, NEW n \in Nat, m <= n, n + 1 < SeqMod, NEW A,
         NEW got, AllNamed(got, b, A),
         NEW s, NEW s1, NEW s2, NEW s3, NEW s4, NEW s5, NEW s6, NEW s7,
         SndOK(s), Turn(s, s1, s2, s3, s4, s5, s6, s7), s5 = PollReceivePackets(s4, got),
         s.next = Number(b, m), s3.next = Number(b, n), Sending(s.wait, b, m, A)
  PROVE  n \in {m, m + 1} /\ Sending(s3.wait, b, n, A) /\ Sending(s7.wait, b, n, A)
<1>1. /\ Keeps(s, s1) /\ Fills(s1, s2) /\ Sends(s2, s3) /\ Flushes(s3, s4) /\ Acks(s4, s5)
      /\ Requeues(s5, s6) /\ Keeps(s6, s7)
  BY DEF Turn, Prepares
<1>2. SndOK(s2) /\ SndOK(s4) /\ SndOK(s6)
  BY <1>1 DEF Fills, Flushes, Requeues
<1>3. Sending(s1.wait, b, m, A)
  BY <1>1, SendingKeeps
<1>4. Sending(s2.wait, b, m, A) /\ s2.next = Number(b, m)
  BY <1>1, <1>3 DEF Fills, Keeps
<1>5. n \in {m, m + 1} /\ Sending(s3.wait, b, n, A)
  BY <1>1, <1>2, <1>4, SendingSends
<1>6. Sending(s4.wait, b, n, A)
  BY <1>1, <1>5 DEF Flushes
<1>7. Sending(s5.wait, b, n, A)
  BY <1>2, <1>6, SendingReceives DEF AllNamed
<1>8. Sending(s6.wait, b, n, A)
  BY <1>1, <1>7 DEF Requeues
<1>9. Sending(s7.wait, b, n, A)
  BY <1>1, <1>2, <1>8, SendingKeeps
<1> QED BY <1>5, <1>9

LEMMA TurnPasses ==
  ASSUME WindowIsSmaller, NEW b \in Seqno, NEW n \in Nat, n < SeqMod, NEW A,
         NEW s, NEW s1, NEW s2, NEW s3, NEW s4, NEW s5, NEW s6, NEW s7,
         SndOK(s), WaitOK(s), Turn(s, s1, s2, s3, s4, s5, s6, s7), Sending(s3.wait, b, n, A)
  PROVE  Passed(b, n, A)
<1>1. /\ Prepares(s, s1, s2) /\ Keeps(s, s1) /\ Fills(s1, s2) /\ Sends(s2, s3)
      /\ SndOK(s1) /\ SndOK(s2) /\ SndOK(s3)
  BY DEF Turn, Prepares, Keeps, Fills, Sends
<1>2. WaitOK(s1)
  BY <1>1, KeepsWaitOK
<1>3. WaitOK(s2)
  BY <1>1, <1>2, FillsWaitOK
<1>4. WaitOK(s3)
  BY <1>1, <1>3, SendsWaitOK
<1>5. PICK w : w = s3.wait
  OBVIOUS
<1>6. w \in Seq(Entry) /\ \A k \in Unacked(w) : Len(w) + 1 - k <= SenderWindow
  BY <1>1, <1>4, <1>5 DEF SndOK, WaitOK
<1>7. Sending(w, b, n, A)
  BY <1>5
<1> QED BY ONLY b \in Seqno, n \in Nat, n < SeqMod, <1>6, <1>7, SendingPasses

-----------------------------------------------------------------------------
(* The cells of the packets.                                               *)
LEMMA CellsOfCells ==
  ASSUME NEW x \in Nat, NEW y \in Nat
  PROVE  CellsOf(Cells(x, y)) = x + 1..y
<1>1. PICK c : c = Cells(x, y)
  OBVIOUS
<1>2. DOMAIN c = 1..y - x /\ \A k \in 1..y - x : c[k] = x + k
  BY <1>1 DEF Cells
<1>3. ASSUME NEW z \in x + 1..y PROVE z \in CellsOf(c)
  <2>1. z - x \in 1..y - x /\ x + (z - x) = z
    OBVIOUS
  <2>2. c[z - x] = z
    BY <1>2, <2>1
  <2> QED BY <1>2, <2>1, <2>2 DEF CellsOf
<1>4. ASSUME NEW z \in CellsOf(c) PROVE z \in x + 1..y
  <2>1. PICK k \in 1..y - x : z = x + k
    BY <1>2 DEF CellsOf
  <2> QED BY <2>1
<1> QED BY <1>1, <1>3, <1>4

LEMMA CellsOfBoth ==
  ASSUME NEW g \in Seq(Nat), NEW h \in Seq(Nat)
  PROVE  CellsOf(g \o h) = CellsOf(g) \cup CellsOf(h)
<1>1. PICK c, k, l : c = g \o h /\ k = Len(g) /\ l = Len(h)
  OBVIOUS
<1>2. k \in Nat /\ l \in Nat /\ DOMAIN g = 1..k /\ DOMAIN h = 1..l
  BY <1>1
<1>3. /\ DOMAIN c = 1..k + l
      /\ \A i \in 1..k : c[i] = g[i]
      /\ \A i \in k + 1..k + l : c[i] = h[i - k]
  BY <1>1
<1>4. ASSUME NEW z \in CellsOf(g) PROVE z \in CellsOf(c)
  <2>1. PICK i \in 1..k : z = g[i]
    BY <1>2 DEF CellsOf
  <2> QED BY <1>2, <1>3, <2>1 DEF CellsOf
<1>5. ASSUME NEW z \in CellsOf(h) PROVE z \in CellsOf(c)
  <2>1. PICK i \in 1..l : z = h[i]
    BY <1>2 DEF CellsOf
  <2>2. PICK j : j = i + k
    OBVIOUS
  <2>3. j \in k + 1..k + l /\ j \in 1..k + l /\ j - k = i
    BY <1>2, <2>2
  <2> QED BY <1>3, <2>1, <2>3 DEF CellsOf
<1>6. ASSUME NEW z \in CellsOf(c) PROVE z \in CellsOf(g) \cup CellsOf(h)
  <2>1. PICK i \in 1..k + l : z = c[i]
    BY <1>3 DEF CellsOf
  <2>2. CASE i \in 1..k
    BY <1>2, <1>3, <2>1, <2>2 DEF CellsOf
  <2>3. CASE i \notin 1..k
    <3>1. i \in k + 1..k + l /\ i - k \in 1..l
      BY <1>2, <2>3
    <3> QED BY <1>2, <1>3, <2>1, <3>1 DEF CellsOf
  <2> QED BY <2>2, <2>3
<1> QED BY <1>1, <1>4, <1>5, <1>6

LEMMA CutsGrow ==
  ASSUME NEW m, NEW cut, Cuts(m, cut)
  PROVE  /\ m \in Nat /\ cut[m] \in Nat
         /\ \A i \in 0..m : cut[i] \in Nat /\ cut[i] <= cut[m]
<1>1. /\ m \in Nat /\ cut \in [Nat -> Nat]
      /\ \A i \in 0..m - 1 : cut[i] <= cut[i + 1]
  BY SenderAssumption DEF Cuts
<1>2. ASSUME NEW i \in 0..m, cut[m] < cut[i] PROVE FALSE
  <2>1. PICK T : T = {j \in 0..m : i <= j /\ cut[j] < cut[i]}
    OBVIOUS
  <2>2. T \subseteq Nat /\ m \in T
    BY <1>1, <1>2, <2>1
  <2>3. PICK j \in T : \A k \in T : j <= k
    BY <2>2, NatMin
  <2>4. j \in 0..m /\ i <= j /\ cut[j] < cut[i]
    BY <2>1
  <2>5. PICK k : k = j - 1
    OBVIOUS
  <2>6. k \in 0..m - 1 /\ i <= k /\ k + 1 = j /\ k < j /\ k \in 0..m /\ k \in Nat
    <3>1. j # i
      BY <1>1, <2>4
    <3> QED BY <1>1, <2>4, <2>5, <3>1
  <2>7. k \notin T
    BY <2>3, <2>4, <2>6
  <2>8. ~(cut[k] < cut[i]) /\ cut[k] <= cut[j]
    BY <1>1, <2>1, <2>6, <2>7
  <2>9. cut[k] \in Nat /\ cut[j] \in Nat /\ cut[i] \in Nat
    BY <1>1, <2>4, <2>6
  <2> QED BY <2>4, <2>8, <2>9
<1>3. \A i \in 0..m : cut[i] \in Nat
  BY <1>1
<1>4. m \in 0..m
  BY <1>1
<1>5. ASSUME NEW i \in 0..m PROVE cut[i] <= cut[m]
  <2>1. cut[i] \in Nat /\ cut[m] \in Nat
    BY <1>3, <1>4
  <2> QED BY <1>2, <2>1
<1> QED BY <1>1, <1>3, <1>4, <1>5

LEMMA CellPiece ==
  ASSUME NEW m, NEW cut, Cuts(m, cut), NEW x \in 1..cut[m]
  PROVE  \E i \in 0..m - 1 : x \in cut[i] + 1..cut[i + 1]
<1>1. m \in Nat /\ cut[0] = 0 /\ cut[m] \in Nat /\ \A i \in 0..m : cut[i] \in Nat
  BY CutsGrow DEF Cuts
<1>2. PICK T : T = {j \in 0..m : x <= cut[j]}
  OBVIOUS
<1>3. T \subseteq Nat /\ m \in T
  BY <1>1, <1>2
<1>4. PICK j \in T : \A k \in T : j <= k
  BY <1>3, NatMin
<1>5. j \in 0..m /\ x <= cut[j] /\ j # 0
  BY <1>1, <1>2
<1>6. PICK k : k = j - 1
  OBVIOUS
<1>7. k \in 0..m - 1 /\ k + 1 = j /\ k < j /\ k \in 0..m
  BY <1>1, <1>5, <1>6
<1>8. k \notin T
  BY <1>4, <1>5, <1>7
<1>9. ~(x <= cut[k]) /\ cut[k] \in Nat /\ cut[j] \in Nat
  BY <1>1, <1>2, <1>5, <1>7, <1>8
<1>10. x \in cut[k] + 1..cut[k + 1]
  BY <1>1, <1>5, <1>7, <1>9
<1> QED BY <1>7, <1>10

LEMMA ShortFacts ==
  ASSUME ConnectionIsShort, NEW m, NEW cut, Cuts(m, cut)
  PROVE  m \in Nat /\ m + 3 < SeqMod /\ SeqMod \in Nat
<1>1. InputLen \in Nat /\ SeqMod \in Nat
  BY SenderAssumption, SeqModAssumption
<1>2. m \in 0..InputLen /\ InputLen + 3 < SeqMod
  BY DEF Cuts, ConnectionIsShort
<1> QED BY ONLY <1>1, <1>2

(* The number of a packet tells what it is.                                *)
LEMMA PacketNumber ==
  ASSUME ConnectionIsShort, NEW b \in Seqno, NEW m, NEW cut, NEW closed, Cuts(m, cut),
         NEW p, Belongs(b, m, cut, closed, p)
  PROVE  /\ p.seqno # Number(b, m + 1)
         /\ \A i \in 0..m - 1 : p.seqno = Number(b, i) =>
              IsPiece(b, m, cut, p) /\ p.payload = Cells(cut[i], cut[i + 1])
<1>1. m \in Nat /\ m + 3 < SeqMod /\ SeqMod \in Nat
  BY ShortFacts
<1>2. ASSUME NEW i \in -2..m, NEW j \in -2..m + 1, Number(b, i) = Number(b, j) PROVE i = j
  <2>1. i \in Int /\ j \in Int /\ i - j < SeqMod /\ j - i < SeqMod
    <3>1. /\ i \in Int /\ -2 <= i /\ i <= m /\ j \in Int /\ -2 <= j /\ j <= m + 1
          /\ m \in Nat /\ SeqMod \in Nat /\ m + 3 < SeqMod
      BY <1>1
    <3> QED BY ONLY <3>1
  <2> QED BY ONLY b \in Seqno, <1>2, <2>1, NumbersDiffer
<1>3. PICK i \in -2..m : /\ p.seqno = Number(b, i)
                         /\ i \in 0..m - 1 => /\ IsPiece(b, m, cut, p)
                                              /\ p.payload = Cells(cut[i], cut[i + 1])
  <2>1. CASE IsPiece(b, m, cut, p)
    <3>1. PICK i \in 0..m - 1 : p.seqno = Number(b, i) /\ p.payload = Cells(cut[i], cut[i + 1])
      BY <2>1 DEF IsPiece
    <3>2. i \in -2..m
      BY <1>1, <3>1
    <3> QED BY <2>1, <3>1, <3>2
  <2>2. CASE p.seqno = b
    <3>1. -2 \in -2..m /\ -2 \notin 0..m - 1
      BY <1>1
    <3> QED BY <2>2, <3>1, NumberFacts
  <2>3. CASE p.seqno = Plus(b, 1)
    <3>1. -1 \in -2..m /\ -1 \notin 0..m - 1
      BY <1>1
    <3> QED BY <2>3, <3>1, NumberFacts
  <2>4. CASE p.seqno = Number(b, m)
    <3>1. m \in -2..m /\ m \notin 0..m - 1
      BY <1>1
    <3> QED BY <2>4, <3>1
  <2> QED BY <2>1, <2>2, <2>3, <2>4 DEF Belongs
<1>4. p.seqno # Number(b, m + 1)
  <2>1. PICK j : j = m + 1
    OBVIOUS
  <2>2. j \in -2..m + 1 /\ i # j
    BY <1>1, <1>3, <2>1
  <2> QED BY <1>2, <1>3, <2>1, <2>2
<1>5. ASSUME NEW j \in 0..m - 1, p.seqno = Number(b, j) PROVE i = j
  <2>1. j \in -2..m + 1
    BY <1>1, <1>5
  <2> QED BY <1>2, <1>3, <1>5, <2>1
<1> QED BY <1>3, <1>4, <1>5

LEMMA BelongsPayload ==
  ASSUME NEW b, NEW m, NEW cut, NEW closed, Cuts(m, cut), NEW p, Belongs(b, m, cut, closed, p)
  PROVE  p.payload \in Seq(Nat)
<1>1. CASE IsPiece(b, m, cut, p)
  <2>1. PICK i \in 0..m - 1 : p.payload = Cells(cut[i], cut[i + 1])
    BY <1>1 DEF IsPiece
  <2>2. m \in Nat /\ cut \in [Nat -> Nat] /\ cut[i] <= cut[i + 1]
    BY SenderAssumption DEF Cuts
  <2>3. PICK x, y : x = cut[i] /\ y = cut[i + 1]
    OBVIOUS
  <2>4. x \in Nat /\ y \in Nat /\ x <= y /\ y <= y
    BY <2>1, <2>2, <2>3
  <2>5. Cells(x, y) \in Seq(Nat)
    BY ONLY <2>4, CellsFacts
  <2> QED BY <2>1, <2>3, <2>5
<1>2. CASE p.payload = <<>>
  BY <1>2
<1> QED BY <1>1, <1>2 DEF Belongs

-----------------------------------------------------------------------------
(* What has been received, and the copies of each packet in the order.     *)
ReceivedIn(r) ==
  CellsOf(r.handed) \cup UNION {CellsOf(p.payload) : p \in BagToSet(r.order)}

CountsOK(o) == \A p \in DOMAIN o : o[p] \in Nat \ {0}

LEMMA AddToOrderFacts ==
  ASSUME NEW o, CountsOK(o), NEW p
  PROVE  /\ CountsOK(AddToOrder(o, p))
         /\ BagToSet(AddToOrder(o, p)) = BagToSet(o) \cup {p}
<1>1. PICK q : q = AddToOrder(o, p)
  OBVIOUS
<1>2. /\ DOMAIN q = DOMAIN o \cup {p}
      /\ \A x \in DOMAIN q : q[x] = (IF x \in DOMAIN o THEN o[x] ELSE 0)
                                      + (IF x \in {p} THEN 1 ELSE 0)
  BY <1>1 DEF AddToOrder, SetToBag, (+)
<1>3. ASSUME NEW x \in DOMAIN q PROVE q[x] \in Nat \ {0}
  <2>1. CASE x \in DOMAIN o
    <3>1. o[x] \in Nat \ {0}
      BY <2>1 DEF CountsOK
    <3> QED BY <1>2, <2>1, <3>1
  <2>2. CASE x \notin DOMAIN o
    BY <1>2, <2>2
  <2> QED BY <2>1, <2>2
<1> QED BY <1>1, <1>2, <1>3 DEF CountsOK, BagToSet

LEMMA TakeFromOrderFacts ==
  ASSUME NEW o, CountsOK(o), NEW p
  PROVE  LET q == o (-) SetToBag({p})
         IN  /\ CountsOK(q) /\ BagToSet(o) \ {p} \subseteq BagToSet(q)
             /\ BagToSet(q) \subseteq BagToSet(o)
<1>1. PICK c : c = [x \in DOMAIN o |-> IF x \in {p} THEN o[x] - 1 ELSE o[x]]
  OBVIOUS
<1>2. PICK q : q = o (-) SetToBag({p})
  OBVIOUS
<1>3. q = [x \in {d \in DOMAIN c : c[d] > 0} |-> c[x]]
  <2>1. DOMAIN SetToBag({p}) = {p} /\ \A x \in {p} : SetToBag({p})[x] = 1
    BY DEF SetToBag
  <2>2. c = [x \in DOMAIN o |-> IF x \in DOMAIN SetToBag({p}) THEN o[x] - SetToBag({p})[x]
                                ELSE o[x]]
    BY <1>1, <2>1
  <2> QED BY <1>2, <2>2 DEF (-)
<1>4. ASSUME NEW x \in DOMAIN q PROVE q[x] \in Nat \ {0} /\ x \in DOMAIN o
  <2>1. x \in DOMAIN o /\ c[x] > 0 /\ q[x] = c[x]
    BY <1>1, <1>3
  <2>2. o[x] \in Nat \ {0}
    BY <2>1 DEF CountsOK
  <2> QED BY <1>1, <2>1, <2>2
<1>5. ASSUME NEW x \in DOMAIN o, x # p PROVE x \in DOMAIN q
  <2>1. o[x] \in Nat \ {0} /\ c[x] = o[x]
    BY <1>1, <1>5 DEF CountsOK
  <2>2. c[x] > 0 /\ x \in DOMAIN c
    BY <1>1, <2>1
  <2> QED BY <1>3, <2>2
<1> QED BY <1>2, <1>4, <1>5 DEF CountsOK, BagToSet

(* What a turn does before it takes a packet for writing: a packet that is *)
(* tracked from now on has been received.                                  *)
Tracks(r, t, p) ==
  /\ ~AddPanics(r.seqnos, p.seqno) /\ t.seqnos = AddSeqno(r.seqnos, p.seqno)
  /\ IsNew(r.seqnos, p.seqno) => CellsOf(p.payload) \subseteq ReceivedIn(t)

LEMMA PollsTrack ==
  ASSUME NEW r, IsRcv(r), CountsOK(r.order), NEW got, NEW upTo, ~RecvPanics(r, got)
  PROVE  LET t == PollWriteDataFut(PollRecvStream(r, got), upTo)
         IN  /\ CountsOK(t.order) /\ ReceivedIn(r) \subseteq ReceivedIn(t)
             /\ t.seqnos = r.seqnos \/ \E p \in got : Tracks(r, t, p)
             /\ t.fin = r.fin \/ \E p \in got : "Fin" \in p.flags
             /\ t.send = r.send
<1>1. PICK u : u = PollRecvStream(r, got)
  OBVIOUS
<1>2. /\ IsRcv(u) /\ CountsOK(u.order) /\ ReceivedIn(r) \subseteq ReceivedIn(u)
      /\ u.seqnos = r.seqnos \/ \E p \in got : Tracks(r, u, p)
      /\ u.fin = r.fin \/ \E p \in got : "Fin" \in p.flags
      /\ u.send = r.send
  <2>1. CASE ~RecvActive(r, got)
    BY <1>1, <2>1 DEF PollRecvStream
  <2>2. CASE RecvActive(r, got)
    <3>1. PICK p : p = CHOOSE x \in got : TRUE
      OBVIOUS
    <3>2. p \in got
      BY <2>2, <3>1 DEF RecvActive
    <3>3. CASE "Fin" \in p.flags
      <4>1. u = [r EXCEPT !.fin = {p.seqno}]
        BY <1>1, <2>2, <3>1, <3>3, Zenon DEF PollRecvStream
      <4>2. /\ IsRcv(u) /\ u.order = r.order /\ u.handed = r.handed /\ u.seqnos = r.seqnos
            /\ u.send = r.send
        BY <4>1 DEF IsRcv
      <4> QED BY <3>2, <3>3, <4>2 DEF ReceivedIn
    <3>4. CASE "Fin" \notin p.flags
      <4>1. PICK o : o = IF IsNew(r.seqnos, p.seqno) /\ p.payload # <<>>
                         THEN AddToOrder(r.order, p) ELSE r.order
        OBVIOUS
      <4>2. u = [r EXCEPT !.seqnos = AddSeqno(@, p.seqno),
                          !.order = IF IsNew(r.seqnos, p.seqno) /\ p.payload # <<>>
                                    THEN AddToOrder(@, p) ELSE @]
        <5>1. ~(~RecvActive(r, got)) /\ ~(RecvActive(r, got) /\ "Fin" \in p.flags)
          BY <2>2, <3>4
        <5> QED BY <1>1, <3>1, <5>1 DEF PollRecvStream
      <4>3. u = [r EXCEPT !.seqnos = AddSeqno(r.seqnos, p.seqno), !.order = o]
        BY <4>1, <4>2 DEF IsRcv
      <4>4. /\ IsRcv(u) /\ u.handed = r.handed /\ u.order = o /\ u.fin = r.fin
            /\ u.seqnos = AddSeqno(r.seqnos, p.seqno) /\ u.send = r.send
        BY <4>3 DEF IsRcv
      <4>5. CountsOK(o) /\ BagToSet(r.order) \subseteq BagToSet(o)
        BY <4>1, AddToOrderFacts
      <4>6. ReceivedIn(r) \subseteq ReceivedIn(u)
        BY <4>4, <4>5 DEF ReceivedIn
      <4>7. ASSUME IsNew(r.seqnos, p.seqno) PROVE CellsOf(p.payload) \subseteq ReceivedIn(u)
        <5>1. CASE p.payload = <<>>
          BY <5>1 DEF CellsOf
        <5>2. CASE p.payload # <<>>
          <6>1. p \in BagToSet(u.order)
            BY <4>1, <4>4, <4>7, <5>2, AddToOrderFacts
          <6> QED BY <6>1 DEF ReceivedIn
        <5> QED BY <5>1, <5>2
      <4>8. ~AddPanics(r.seqnos, p.seqno)
        BY <3>2, <3>4 DEF RecvPanics
      <4> QED BY <3>2, <4>4, <4>5, <4>6, <4>7, <4>8 DEF Tracks
    <3> QED BY <3>3, <3>4
  <2> QED BY <2>1, <2>2
<1>3. PICK t : t = PollWriteDataFut(u, upTo)
  OBVIOUS
<1>4. /\ t.handed = u.handed /\ t.order = u.order /\ t.seqnos = u.seqnos /\ t.fin = u.fin
      /\ t.send = u.send
  BY <1>2, <1>3 DEF PollWriteDataFut, IsRcv
<1>5. ReceivedIn(t) = ReceivedIn(u)
  BY <1>4 DEF ReceivedIn
<1> QED BY <1>1, <1>2, <1>3, <1>4, <1>5 DEF Tracks

(* What is taken for writing stays received.                               *)
LEMMA MakeWriteTracks ==
  ASSUME NEW r, IsRcv(r), CountsOK(r.order), r.handed \in Seq(Nat),
         NEW p, p.payload \in Seq(Nat)
  PROVE  LET t == MakeWriteDataFut(r, p)
         IN  /\ CountsOK(t.order) /\ ReceivedIn(r) \subseteq ReceivedIn(t)
             /\ t.seqnos = r.seqnos /\ t.fin = r.fin /\ t.send = r.send
<1>1. PICK o, t : o = r.order (-) SetToBag({p}) /\ t = MakeWriteDataFut(r, p)
  OBVIOUS
<1>2. /\ t.handed = r.handed \o p.payload /\ t.order = o
      /\ t.seqnos = r.seqnos /\ t.fin = r.fin /\ t.send = r.send
  BY <1>1 DEF MakeWriteDataFut, IsRcv
<1>3. CountsOK(o) /\ BagToSet(r.order) \ {p} \subseteq BagToSet(o)
  BY <1>1, TakeFromOrderFacts
<1>4. CellsOf(t.handed) = CellsOf(r.handed) \cup CellsOf(p.payload)
  BY <1>2, CellsOfBoth
<1>5. ASSUME NEW z \in ReceivedIn(r) PROVE z \in ReceivedIn(t)
  <2>1. CASE z \in CellsOf(r.handed) \cup CellsOf(p.payload)
    BY <1>4, <2>1 DEF ReceivedIn
  <2>2. CASE z \notin CellsOf(r.handed) \cup CellsOf(p.payload)
    <3>1. PICK q \in BagToSet(r.order) : z \in CellsOf(q.payload)
      BY <1>5, <2>2 DEF ReceivedIn
    <3>2. q # p
      BY <2>2, <3>1
    <3> QED BY <1>2, <1>3, <3>1, <3>2 DEF ReceivedIn
  <2> QED BY <2>1, <2>2
<1> QED BY <1>1, <1>2, <1>3, <1>5

-----------------------------------------------------------------------------
(* What is tracked has arrived: net, the packets sent; r, the receiver.    *)
Arrived(net, r, s) == \E p \in net : p.seqno = s /\ CellsOf(p.payload) \subseteq ReceivedIn(r)

TracksArrived(net, b, r) ==
  /\ SeqnosOK(b, r.seqnos)
  /\ \A q \in Tracked(r.seqnos.tracker) : Arrived(net, r, Number(b, q))

(* The numbers an acknowledgement may name: tracked ones, and never the    *)
(* start of the window.                                                    *)
Named(b, st) ==
  {s \in Seqno : s # st.start /\ \E q \in Tracked(st.tracker) : s = Number(b, q)}

(* The ACK sending task's ranges name such numbers only.                   *)
AckerOK(b, a, A) ==
  /\ a = [spawned |-> a.spawned, stopped |-> a.stopped, ranges |-> a.ranges,
          base |-> a.base, ws |-> a.ws]
  /\ a.ranges \subseteq DTRange
  /\ a.ranges # {} => \E o \in Nat :
       /\ a.base = Number(b, o)
       /\ \A x \in a.ranges : \A q \in o + x[1]..o + x[2] : Number(b, q) \in A
       /\ a.ws => \A q \in 0..o + First(a.ranges)[2] : Number(b, q) \in A

LEMMA TrackedIsNat ==
  ASSUME NEW b, NEW st, SeqnosOK(b, st), NEW q \in Tracked(st.tracker)
  PROVE  q \in Nat
<1>1. TrackerOK(st.tracker)
  BY DEF SeqnosOK
<1>2. st.tracker.offset \in Nat /\ st.tracker.ranges \subseteq DTRange
  BY <1>1 DEF TrackerOK
<1>3. CASE q \in 0..st.tracker.offset - 1
  BY <1>2, <1>3
<1>4. CASE q \in Cover(st.tracker.ranges)
  <2>1. PICK a \in st.tracker.ranges : q \in a[1]..a[2]
    BY <1>4 DEF Cover
  <2>2. a[1] \in Nat /\ a[2] \in Nat
    BY <1>2 DEF DTRange
  <2> QED BY <2>1, <2>2
<1> QED BY <1>3, <1>4 DEF Tracked

LEMMA StillArrived ==
  ASSUME NEW net, NEW b, NEW r, NEW t, NEW more, TracksArrived(net, b, r), t.seqnos = r.seqnos,
         net \subseteq more, ReceivedIn(r) \subseteq ReceivedIn(t)
  PROVE  TracksArrived(more, b, t)
BY DEF TracksArrived, Arrived

LEMMA AddsArrived ==
  ASSUME NEW net, NEW b \in Seqno, NEW r, NEW t, TracksArrived(net, b, r),
         ReceivedIn(r) \subseteq ReceivedIn(t),
         NEW p \in net, p.seqno \in Seqno, Tracks(r, t, p)
  PROVE  TracksArrived(net, b, t) /\ Named(b, r.seqnos) \subseteq Named(b, t.seqnos)
<1>1. PICK st, u, s : st = r.seqnos /\ u = AddSeqno(st, s) /\ s = p.seqno
  OBVIOUS
<1>2. /\ SeqnosOK(b, st) /\ ~AddPanics(st, s) /\ s \in Seqno /\ t.seqnos = u
      /\ IsNew(st, s) => CellsOf(p.payload) \subseteq ReceivedIn(t)
  BY <1>1 DEF TracksArrived, Tracks
<1>3. /\ SeqnosOK(b, u) /\ u.start = st.start
      /\ Tracked(st.tracker) \subseteq Tracked(u.tracker)
      /\ \A q \in Tracked(u.tracker) \ Tracked(st.tracker) : Number(b, q) = s /\ IsNew(st, s)
  BY <1>1, <1>2, AddSeqnoFacts
<1>4. ASSUME NEW q \in Tracked(u.tracker) PROVE Arrived(net, t, Number(b, q))
  <2>1. CASE q \in Tracked(st.tracker)
    BY <1>1, <2>1 DEF TracksArrived, Arrived
  <2>2. CASE q \notin Tracked(st.tracker)
    BY <1>1, <1>2, <1>3, <1>4, <2>2 DEF Arrived
  <2> QED BY <2>1, <2>2
<1>5. Named(b, st) \subseteq Named(b, u)
  BY <1>3 DEF Named
<1> QED BY <1>1, <1>2, <1>3, <1>4, <1>5 DEF TracksArrived

(* First(Relative(t)) *)
LEMMA RelativeFirst ==
  ASSUME NEW t, TrackerOK(t), t.ranges # {}
  PROVE  /\ Relative(t) \subseteq DTRange /\ Relative(t) # {}
         /\ First(Relative(t))[1] = First(t.ranges)[1] - t.offset
         /\ First(Relative(t))[2] = First(t.ranges)[2] - t.offset
<1>1. PICK o, R, Q, f, g : o = t.offset /\ R = t.ranges /\ Q = Relative(t)
                            /\ f = First(R) /\ g = First(Q)
  OBVIOUS
<1>2. /\ o \in Nat /\ R \subseteq DTRange /\ R # {} /\ Separated(R)
      /\ \A a \in R : o <= a[1] /\ a[1] \in Nat /\ a[2] \in Nat /\ a[1] <= a[2]
  BY <1>1 DEF TrackerOK, DTRange
<1>3. \A x : x \in Q <=> \E a \in R : x = <<a[1] - o, a[2] - o>>
  BY <1>1 DEF Relative
<1>4. Q \subseteq DTRange
  <2> SUFFICES ASSUME NEW x \in Q PROVE x \in DTRange
    OBVIOUS
  <2>1. PICK a \in R : x = <<a[1] - o, a[2] - o>>
    BY <1>3
  <2>2. a[1] - o \in Nat /\ a[2] - o \in Nat /\ a[1] - o <= a[2] - o
    BY <1>2, <2>1
  <2> QED BY <2>1, <2>2 DEF DTRange
<1>5. Q # {}
  BY <1>2, <1>3
<1>6. f \in R /\ \A a \in R : f[1] <= a[1]
  BY <1>1, <1>2, FirstIsLeast
<1>7. g \in Q /\ \A x \in Q : g[1] <= x[1]
  BY <1>1, <1>4, <1>5, FirstIsLeast
<1>8. PICK a \in R : g = <<a[1] - o, a[2] - o>>
  BY <1>3, <1>7
<1>9. a[1] <= f[1]
  <2>1. <<f[1] - o, f[2] - o>> \in Q
    BY <1>3, <1>6
  <2>2. g[1] <= f[1] - o /\ g[1] = a[1] - o
    BY <1>7, <1>8, <2>1
  <2> QED BY <1>2, <1>6, <2>2
<1>10. a = f
  <2>1. a[1] \in Nat /\ a[2] \in Nat /\ f[1] \in Nat /\ f[2] \in Nat /\ f[1] <= f[2] /\ a[1] <= a[2]
        /\ a[1] = f[1]
    BY <1>2, <1>6, <1>9
  <2>2. ~(a[2] + 1 < f[1]) /\ ~(f[2] + 1 < a[1])
    BY <2>1
  <2> QED BY <1>2, <1>6, <2>2 DEF Separated
<1>11. g[1] = f[1] - o /\ g[2] = f[2] - o
  BY <1>8, <1>10
<1> QED BY <1>1, <1>4, <1>5, <1>11

(* The task's fields when it takes what is to be acknowledged.             *)
TakesFrom(a, st, c) ==
  /\ ReportedRanges(st) # {}
  /\ c = [a EXCEPT !.ranges = ReportedRanges(st), !.base = st.start,
                   !.ws = First(ReportedRanges(st))[1] = 0]

(* The acknowledgements taken name what was tracked.                       *)
LEMMA TakesArrived ==
  ASSUME NEW net, NEW b \in Seqno, NEW m \in Nat, m + 1 < SeqMod,
         NEW r, NEW t, TracksArrived(net, b, r), t.seqnos = TakeSeqnos(r.seqnos),
         ReceivedIn(t) = ReceivedIn(r), \A p \in net : p.seqno # Number(b, m + 1),
         NEW a, NEW c, NEW A, AckerOK(b, a, A), TakesFrom(a, r.seqnos, c)
  PROVE  /\ TracksArrived(net, b, t) /\ Named(b, r.seqnos) \subseteq Named(b, t.seqnos)
         /\ AckerOK(b, c, Named(b, t.seqnos))
<1>1. PICK st, u, k, o, R : st = r.seqnos /\ u = TakeSeqnos(st) /\ k = st.tracker
                            /\ o = k.offset /\ R = Relative(k)
  OBVIOUS
<1>2. SeqnosOK(b, st) /\ t.seqnos = u
  BY <1>1 DEF TracksArrived
<1>3. ASSUME NEW q \in Tracked(k) PROVE Number(b, q) # Number(b, m + 1)
  BY <1>1, <1>3 DEF TracksArrived, Arrived
<1>4. /\ SeqnosOK(b, u) /\ Tracked(u.tracker) = Tracked(k)
      /\ CanTake(k) \/ u = st
      /\ \A q \in Cover(k.ranges) : Number(b, q) # u.start
      /\ CanTake(k) => \A q \in Tracked(k) : Number(b, q) # u.start
  BY <1>1, <1>2, <1>3, TakeSeqnosFacts
<1>5. TracksArrived(net, b, t)
  BY <1>1, <1>2, <1>4 DEF TracksArrived, Arrived
<1>6. Named(b, st) \subseteq Named(b, u)
  BY <1>1, <1>4 DEF Named
<1>7. /\ TrackerOK(k) /\ o \in Nat /\ st.start = Number(b, o) /\ k.ranges \subseteq DTRange
      /\ \A x \in k.ranges : o <= x[1] /\ x[1] \in Nat /\ x[2] \in Nat
  BY <1>1, <1>2 DEF SeqnosOK, TrackerOK, DTRange
<1>8. R # {} /\ k.ranges # {}
  BY <1>1 DEF ReportedRanges, Relative, TakesFrom
<1>9. /\ R \subseteq DTRange /\ First(R)[1] = First(k.ranges)[1] - o
      /\ First(R)[2] = First(k.ranges)[2] - o
  BY <1>1, <1>7, <1>8, RelativeFirst
<1>10. ASSUME NEW q \in Tracked(k), Number(b, q) # u.start PROVE Number(b, q) \in Named(b, u)
  <2>1. q \in Int /\ Number(b, q) \in Seqno
    <3>1. q \in Nat
      BY <1>1, <1>2, TrackedIsNat
    <3> QED BY <3>1, NumberFacts
  <2> QED BY <1>4, <1>10, <2>1 DEF Named
<1>11. ASSUME NEW x \in R, NEW q \in o + x[1]..o + x[2] PROVE Number(b, q) \in Named(b, u)
  <2>1. PICK y \in k.ranges : x = <<y[1] - o, y[2] - o>>
    BY <1>1 DEF Relative
  <2>2. o + x[1] = y[1] /\ o + x[2] = y[2]
    BY <1>7, <2>1
  <2>3. q \in Cover(k.ranges) /\ q \in Tracked(k)
    BY <2>2 DEF Cover, Tracked
  <2> QED BY <1>4, <1>10, <2>3
<1>12. ASSUME First(R)[1] = 0, NEW q \in 0..o + First(R)[2] PROVE Number(b, q) \in Named(b, u)
  <2>1. PICK f : f = First(k.ranges)
    OBVIOUS
  <2>2. f \in k.ranges
    BY <1>7, <1>8, <2>1, FirstIsLeast
  <2>3. f[1] \in Nat /\ f[2] \in Nat
    BY <1>7, <2>2
  <2>4. f[1] = o /\ o + First(R)[2] = f[2]
    BY <1>7, <1>9, <1>12, <2>1, <2>3
  <2>5. CanTake(k)
    BY <1>1, <1>8, <2>1, <2>4 DEF CanTake
  <2>6. q \in 0..o - 1 \/ q \in f[1]..f[2]
    BY <1>7, <1>12, <2>3, <2>4
  <2>7. q \in Tracked(k)
    BY <1>1, <2>2, <2>6 DEF Tracked, Cover
  <2> QED BY <1>4, <1>10, <2>5, <2>7
<1>13. ReportedRanges(st) = R
  BY <1>1 DEF ReportedRanges
<1>14. PICK w : w = (First(R)[1] = 0)
  OBVIOUS
<1>15. c = [spawned |-> a.spawned, stopped |-> a.stopped, ranges |-> R, base |-> st.start,
            ws |-> w]
  BY <1>1, <1>13, <1>14 DEF AckerOK, TakesFrom
<1>16. /\ c = [spawned |-> c.spawned, stopped |-> c.stopped, ranges |-> c.ranges,
               base |-> c.base, ws |-> c.ws]
       /\ c.ranges = R /\ c.base = Number(b, o) /\ c.ws = w
  <2>1. PICK x1, x2, base : x1 = a.spawned /\ x2 = a.stopped /\ base = st.start
    OBVIOUS
  <2>2. c = [spawned |-> x1, stopped |-> x2, ranges |-> R, base |-> base, ws |-> w]
    BY <1>15, <2>1
  <2>3. c.spawned = x1 /\ c.stopped = x2 /\ c.ranges = R /\ c.base = base /\ c.ws = w
    BY ONLY <2>2
  <2> QED BY <1>7, <2>1, <2>2, <2>3
<1>17. c.ws => First(R)[1] = 0
  <2>1. c.ws = (First(R)[1] = 0)
    BY <1>14, <1>16
  <2> QED BY ONLY <2>1
<1>18. AckerOK(b, c, Named(b, u))
  BY <1>7, <1>9, <1>11, <1>12, <1>16, <1>17 DEF AckerOK
<1> QED BY <1>1, <1>2, <1>5, <1>6, <1>18

(* The ACK of the first range names what was reported.                     *)
LEMMA SendsNamed ==
  ASSUME NEW b \in Seqno, NEW A, NEW a, AckerOK(b, a, A), a.ranges # {},
         NEW x, x = First(a.ranges)
  PROVE  /\ AckerOK(b, [a EXCEPT !.ranges = @ \ {x}, !.ws = FALSE], A)
         /\ Names(ToClient({"Ack"} \cup (IF a.ws THEN {"WS"} ELSE {}),
                           Plus(a.base, x[1]), Plus(a.base, x[2])), b, A)
<1>1. PICK c : c = [a EXCEPT !.ranges = @ \ {x}, !.ws = FALSE]
  OBVIOUS
<1>2. PICK o \in Nat : /\ a.base = Number(b, o)
                       /\ \A y \in a.ranges : \A q \in o + y[1]..o + y[2] : Number(b, q) \in A
                       /\ a.ws => \A q \in 0..o + First(a.ranges)[2] : Number(b, q) \in A
  BY DEF AckerOK
<1>3. x \in a.ranges /\ x[1] \in Nat /\ x[2] \in Nat /\ x[1] <= x[2]
  <2>1. a.ranges \subseteq DTRange
    BY DEF AckerOK
  <2>2. x \in a.ranges
    BY <2>1, FirstIsLeast
  <2> QED BY <2>1, <2>2 DEF DTRange
<1>4. AckerOK(b, c, A)
  <2>1. c = [spawned |-> a.spawned, stopped |-> a.stopped, ranges |-> a.ranges \ {x},
             base |-> a.base, ws |-> FALSE]
    BY <1>1 DEF AckerOK
  <2>2. /\ c = [spawned |-> c.spawned, stopped |-> c.stopped, ranges |-> c.ranges,
                base |-> c.base, ws |-> c.ws]
        /\ c.ranges = a.ranges \ {x} /\ c.base = a.base /\ ~c.ws
    BY <2>1
  <2>3. c.ranges \subseteq DTRange /\ c.ranges \subseteq a.ranges
    BY <2>2 DEF AckerOK
  <2> QED BY <1>2, <2>2, <2>3 DEF AckerOK
<1>5. PICK i, j : i = o + x[1] /\ j = o + x[2]
  OBVIOUS
<1>6. i \in Nat /\ j \in Nat /\ i <= j
  BY <1>3, <1>5
<1>7. Plus(a.base, x[1]) = Number(b, i) /\ Plus(a.base, x[2]) = Number(b, j)
  <2>1. PICK y, v, w : y = o + 2 /\ v = x[1] /\ w = x[2]
    OBVIOUS
  <2>2. b \in Int /\ y \in Int /\ v \in Int /\ w \in Int
    BY <1>3, <2>1, SeqModAssumption DEF Seqno
  <2>3. Plus(Plus(b, y), v) = Plus(b, y + v) /\ Plus(Plus(b, y), w) = Plus(b, y + w)
    BY ONLY <2>2, SeqnoFacts, ZenonT(60)
  <2>4. y + v = i + 2 /\ y + w = j + 2
    BY <1>3, <1>5, <2>1
  <2> QED BY <1>2, <2>1, <2>3, <2>4 DEF Number
<1>8. PICK p : p = ToClient({"Ack"} \cup (IF a.ws THEN {"WS"} ELSE {}),
                            Plus(a.base, x[1]), Plus(a.base, x[2]))
  OBVIOUS
<1>9. p.lo = Number(b, i) /\ p.hi = Number(b, j) /\ ("WS" \in p.flags => a.ws)
  BY <1>7, <1>8 DEF ToClient
<1>10. \A q \in i..j : Number(b, q) \in A
  BY <1>2, <1>3, <1>5
<1>11. a.ws => \A q \in 0..j : Number(b, q) \in A
  BY <1>2, <1>5
<1>12. Names(p, b, A)
  BY <1>6, <1>9, <1>10, <1>11 DEF Names
<1> QED BY <1>1, <1>4, <1>8, <1>12

-----------------------------------------------------------------------------
(* The receiver follows the connection's packets once it has answered its  *)
(* SYN.                                                                    *)
Following(b) ==
  \/ rState \in {"SendSynAck", "WaitForAck"} /\ rcv.next = Plus(b, 1)
  \/ rState = "ReceivePackets"
  \/ acker.spawned

Reported(b) == IF acker.spawned THEN Named(b, rcv.seqnos) ELSE {}

TrackInv(b) ==
  /\ CountsOK(rcv.order)
  /\ acker.spawned => rState \notin {"WaitForFirstSyn", "SendSynAck", "WaitForAck"}
  /\ Following(b) => TracksArrived(c2s, b, rcv)

AckInv(b) ==
  /\ AckerOK(b, acker, Reported(b))
  /\ \A p \in s2c : "Syn" \in p.flags \/ "Fin" \in p.flags \/ Names(p, b, Reported(b))
  /\ rState = "SendSynAck" => \A p \in rcv.send : "Syn" \in p.flags
  /\ rState = "SendFinAck" => \A p \in rcv.send : "Fin" \in p.flags

LEMMA AckerMore ==
  ASSUME NEW b, NEW a, NEW A, NEW C, AckerOK(b, a, A), A \subseteq C
  PROVE  AckerOK(b, a, C)
BY DEF AckerOK

LEMMA NamesMore ==
  ASSUME NEW b, NEW p, NEW A, NEW C, Names(p, b, A), A \subseteq C
  PROVE  Names(p, b, C)
BY DEF Names

LEMMA AckerSets ==
  ASSUME NEW b, NEW a, NEW A, AckerOK(b, a, A)
  PROVE  /\ AckerOK(b, [a EXCEPT !.stopped = TRUE], A)
         /\ [a EXCEPT !.stopped = TRUE].spawned = a.spawned
         /\ AckerOK(b, [a EXCEPT !.spawned = TRUE], A)
         /\ [a EXCEPT !.spawned = TRUE].spawned
<1>1. PICK c, d : c = [a EXCEPT !.stopped = TRUE] /\ d = [a EXCEPT !.spawned = TRUE]
  OBVIOUS
<1>2. /\ c = [spawned |-> a.spawned, stopped |-> TRUE, ranges |-> a.ranges,
              base |-> a.base, ws |-> a.ws]
      /\ d = [spawned |-> TRUE, stopped |-> a.stopped, ranges |-> a.ranges,
              base |-> a.base, ws |-> a.ws]
  BY <1>1 DEF AckerOK
<1>3. AckerOK(b, c, A) /\ c.spawned = a.spawned
  BY <1>2 DEF AckerOK
<1>4. AckerOK(b, d, A) /\ d.spawned
  BY <1>2 DEF AckerOK
<1> QED BY <1>1, <1>3, <1>4

LEMMA NetFacts ==
  ASSUME ConnectionIsShort, NEW b, NEW m, NEW cut, NEW closed, Numbering(b, m, cut, closed)
  PROVE  /\ b \in Seqno /\ m \in Nat /\ m + 3 < SeqMod /\ SeqMod \in Nat /\ Cuts(m, cut)
         /\ \A p \in c2s : /\ Belongs(b, m, cut, closed, p) /\ p.seqno \in Seqno
                           /\ p.payload \in Seq(Nat) /\ p.seqno # Number(b, m + 1)
         /\ IsRcv(rcv) /\ rcv.handed \in Seq(Nat) /\ BagToSet(rcv.order) \subseteq c2s
<1>1. b \in Seqno /\ Cuts(m, cut) /\ \A p \in c2s : Belongs(b, m, cut, closed, p)
  BY DEF Numbering, SenderNumbers
<1>2. m \in Nat /\ m + 3 < SeqMod /\ SeqMod \in Nat
  BY <1>1, ShortFacts
<1>3. ASSUME NEW p \in c2s
      PROVE  p.seqno \in Seqno /\ p.payload \in Seq(Nat) /\ p.seqno # Number(b, m + 1)
  <2>1. p.payload \in Seq(Nat) /\ p.seqno # Number(b, m + 1)
    <3>1. b \in Seqno /\ Cuts(m, cut) /\ Belongs(b, m, cut, closed, p)
      BY <1>1, <1>3
    <3>2. p.payload \in Seq(Nat)
      BY ONLY <3>1, BelongsPayload
    <3>3. p.seqno # Number(b, m + 1)
      BY ONLY ConnectionIsShort, <3>1, PacketNumber
    <3> QED BY <3>2, <3>3
  <2>2. \A i \in 0..m : Number(b, i) \in Seqno
    BY <1>1, NumberFacts
  <2>3. Plus(b, 1) \in Seqno /\ m \in 0..m
    <3>1. -1 \in Int
      OBVIOUS
    <3> QED BY <1>1, <1>2, <3>1, NumberFacts
  <2>4. IsPiece(b, m, cut, p) => p.seqno \in Seqno
    <3>1. \A i \in 0..m - 1 : i \in 0..m
      BY <1>2
    <3> QED BY <2>2, <3>1 DEF IsPiece
  <2> QED BY <1>1, <1>3, <2>1, <2>2, <2>3, <2>4 DEF Belongs
<1>4. IsRcv(rcv) /\ BagToSet(rcv.order) \subseteq c2s /\ \E c \in Nat : rcv.handed = Cells(0, c)
  BY DEF Numbering, ReceiverNumbers
<1>5. rcv.handed \in Seq(Nat)
  <2>1. PICK c \in Nat : rcv.handed = Cells(0, c)
    BY <1>4
  <2>2. 0 \in Nat /\ 0 <= c /\ c <= c
    OBVIOUS
  <2> QED BY ONLY c \in Nat, <2>1, <2>2, CellsFacts
<1> QED BY <1>1, <1>2, <1>3, <1>4, <1>5

LEMMA StartsTracking ==
  ASSUME NEW b \in Seqno, NEW net, NEW r, r.seqnos = NewSeqnoTracker(Plus(b, 2))
  PROVE  TracksArrived(net, b, r)
<1>1. PICK st : st = r.seqnos
  OBVIOUS
<1>2. PICK t : t = EmptyTracker
  OBVIOUS
<1>3. t = [ranges |-> {}, offset |-> 0]
  BY <1>2 DEF EmptyTracker
<1>4. st = [tracker |-> t, start |-> Plus(b, 2)]
  BY <1>1, <1>2 DEF NewSeqnoTracker
<1>5. TrackerOK(t) /\ t.offset = 0 /\ t.ranges = {} /\ Cover(t.ranges) = {}
  BY <1>3 DEF TrackerOK, Separated, Cover
<1>6. Tracked(t) = {}
  BY <1>5 DEF Tracked
<1>7. Plus(b, 2) = Number(b, 0)
  BY DEF Number
<1>8. SeqnosOK(b, st)
  BY <1>4, <1>5, <1>7 DEF SeqnosOK
<1> QED BY <1>1, <1>4, <1>6, <1>8 DEF TracksArrived

(* Steps that leave what is received, tracked and to be acknowledged.      *)
LEMMA QuietStep ==
  ASSUME NEW b, TrackInv(b), c2s' = c2s, acker' = acker,
         rcv'.seqnos = rcv.seqnos, rcv'.order = rcv.order, rcv'.handed = rcv.handed,
         Following(b)' => Following(b),
         acker.spawned => rState' \notin {"WaitForFirstSyn", "SendSynAck", "WaitForAck"}
  PROVE  TrackInv(b)' /\ Reported(b)' = Reported(b)
<1>1. ReceivedIn(rcv') = ReceivedIn(rcv)
  BY DEF ReceivedIn
<1>2. TracksArrived(c2s, b, rcv) => TracksArrived(c2s', b, rcv')
  BY <1>1, StillArrived
<1> QED BY <1>2 DEF TrackInv, Reported

LEMMA AckInvKept ==
  ASSUME NEW b, AckInv(b), acker' = acker, s2c' = s2c, Reported(b) \subseteq Reported(b)',
         rState' = "SendSynAck" => \A p \in rcv'.send : "Syn" \in p.flags,
         rState' = "SendFinAck" => \A p \in rcv'.send : "Fin" \in p.flags
  PROVE  AckInv(b)'
BY AckerMore, NamesMore DEF AckInv

(* A step of the receiver: what is tracked has arrived, ACKs name what is  *)
(* tracked, and what may have been acknowledged stays so.                  *)
LEMMA TrackStep ==
  ASSUME ConnectionIsShort, ReceiverNext, UNCHANGED sVars,
         NEW b, NEW m, NEW cut, NEW closed, Numbering(b, m, cut, closed),
         TrackInv(b), AckInv(b)
  PROVE  TrackInv(b)' /\ AckInv(b)' /\ Reported(b) \subseteq Reported(b)'
<1> DEFINE Goal == TrackInv(b)' /\ AckInv(b)' /\ Reported(b) \subseteq Reported(b)'
<1>1. /\ b \in Seqno /\ m \in Nat /\ m + 3 < SeqMod /\ SeqMod \in Nat /\ Cuts(m, cut)
      /\ \A p \in c2s : /\ Belongs(b, m, cut, closed, p) /\ p.seqno \in Seqno
                        /\ p.payload \in Seq(Nat) /\ p.seqno # Number(b, m + 1)
      /\ IsRcv(rcv) /\ rcv.handed \in Seq(Nat) /\ BagToSet(rcv.order) \subseteq c2s
  BY NetFacts
<1>2. /\ CountsOK(rcv.order)
      /\ acker.spawned => rState \notin {"WaitForFirstSyn", "SendSynAck", "WaitForAck"}
      /\ Following(b) => TracksArrived(c2s, b, rcv)
  BY DEF TrackInv
<1>3. c2s' = c2s
  BY ZenonT(60) DEF ReceiverNext, WaitForFirstSyn, SendSynAck, KeepEarly, WaitForAck, SynAckTimeout,
         AbandonAttempt, ReceivePackets, ReceiveTurn, SendFinAck, WaitForLastAck,
         FinAckTimeout, ReceiverGivesUp, SpawnAckSender, TakeAcks, SendAckRange, netVars
<1>4. ASSUME acker' = acker, s2c' = s2c, TrackInv(b)', Reported(b) \subseteq Reported(b)',
             rState' = "SendSynAck" => \A p \in rcv'.send : "Syn" \in p.flags,
             rState' = "SendFinAck" => \A p \in rcv'.send : "Fin" \in p.flags
      PROVE  Goal
  BY <1>4, AckInvKept
<1>5. CASE WaitForFirstSyn
  <2>1. PICK p \in c2s :
          /\ p.flags = {"Syn"}
          /\ rcv' = [NotConnected EXCEPT
                       !.next = Plus(p.seqno, 1),
                       !.send = {SynAckPacket(p.seqno)},
                       !.seqnos = NewSeqnoTracker(Plus(p.seqno, 2))]
    BY <1>5 DEF WaitForFirstSyn
  <2>2. /\ rState = "WaitForFirstSyn" /\ rState' = "SendSynAck" /\ acker' = acker /\ s2c' = s2c
        /\ ~acker.spawned
    BY <1>2, <1>5 DEF WaitForFirstSyn, netVars
  <2>3. /\ rcv'.next = Plus(p.seqno, 1) /\ rcv'.order = EmptyBag
        /\ rcv'.send = {SynAckPacket(p.seqno)}
        /\ rcv'.seqnos = NewSeqnoTracker(Plus(p.seqno, 2))
    BY <2>1 DEF NotConnected
  <2>4. CountsOK(rcv'.order)
    BY <2>3 DEF CountsOK, EmptyBag, SetToBag
  <2>5. ASSUME rcv'.next = Plus(b, 1) PROVE p.seqno = b
    <3>1. p.seqno = b \/ p.seqno = Number(b, m)
      BY <1>1, <2>1 DEF Belongs
    <3>2. PICK n, k : n = m + 1 /\ k = -1
      OBVIOUS
    <3>3. n \in Int /\ k \in Int /\ n - k < SeqMod /\ k - n < SeqMod /\ n # k
      BY ONLY <3>2, <1>1
    <3>4. Number(b, n) # Number(b, k)
      BY ONLY <1>1, <3>3, NumbersDiffer
    <3>5. m \in Int /\ Plus(Number(b, m), 1) = Number(b, n) /\ Plus(b, 1) = Number(b, k)
      BY <1>1, <3>2, NumberFacts
    <3> QED BY <2>3, <2>5, <3>1, <3>4, <3>5
  <2>6. ASSUME Following(b)' PROVE TracksArrived(c2s', b, rcv')
    <3>1. rcv'.next = Plus(b, 1)
      BY <2>2, <2>6 DEF Following
    <3>2. rcv'.seqnos = NewSeqnoTracker(Plus(b, 2))
      BY <2>3, <2>5, <3>1
    <3> QED BY <1>1, <3>2, StartsTracking
  <2>7. TrackInv(b)'
    BY <2>2, <2>4, <2>6 DEF TrackInv
  <2>8. Reported(b) = {} /\ \A x \in rcv'.send : "Syn" \in x.flags
    BY <2>2, <2>3 DEF Reported, SynAckPacket, ToClient
  <2> QED BY <1>4, <2>2, <2>7, <2>8
<1>6. ASSUME NEW f \in {"Syn", "Fin"}, \A p \in rcv.send : f \in p.flags,
             s2c' = s2c \cup rcv.send, rcv' = FlushR(rcv), acker' = acker,
             rState' \in {"WaitForAck", "WaitForLastAck"},
             Following(b)' => Following(b),
             acker.spawned => rState' # "WaitForAck"
      PROVE  Goal
  <2>1. /\ rcv'.seqnos = rcv.seqnos /\ rcv'.order = rcv.order /\ rcv'.handed = rcv.handed
    BY <1>1, <1>6 DEF FlushR, IsRcv
  <2>2. TrackInv(b)' /\ Reported(b)' = Reported(b)
    BY <1>3, <1>6, <2>1, QuietStep
  <2> QED BY <1>6, <2>2 DEF AckInv
<1>7. CASE SendSynAck
  <2>1. /\ rState = "SendSynAck" /\ rState' = "WaitForAck" /\ acker' = acker
        /\ s2c' = s2c \cup rcv.send /\ rcv' = FlushR(rcv) /\ ~acker.spawned
        /\ \A p \in rcv.send : "Syn" \in p.flags
    BY <1>2, <1>7 DEF SendSynAck, AckInv
  <2>2. rcv'.next = rcv.next
    BY <1>1, <2>1 DEF FlushR, IsRcv
  <2>3. Following(b)' => Following(b)
    BY <2>1, <2>2 DEF Following
  <2> QED BY <1>6, <2>1, <2>3
<1>8. CASE SendFinAck
  <2>1. /\ rState = "SendFinAck" /\ rState' = "WaitForLastAck" /\ acker' = acker
        /\ s2c' = s2c \cup rcv.send /\ rcv' = FlushR(rcv)
        /\ \A p \in rcv.send : "Fin" \in p.flags
    BY <1>8 DEF SendFinAck, AckInv
  <2>2. Following(b)' => Following(b)
    BY <2>1 DEF Following
  <2> QED BY <1>6, <2>1, <2>2
<1>9. CASE KeepEarly
  <2>1. PICK p \in c2s :
          \/ rcv' = rcv /\ rState' \in {"RecvBufferOverrunOnStart", "Panicked"}
          \/ /\ ~AddPanics(rcv.seqnos, p.seqno)
             /\ rcv' = [rcv EXCEPT !.seqnos = AddSeqno(@, p.seqno),
                                   !.order = AddToOrder(@, p)]
             /\ rState' = rState
    BY <1>9 DEF KeepEarly
  <2>2. rState = "WaitForAck" /\ acker' = acker /\ s2c' = s2c /\ ~acker.spawned
    BY <1>2, <1>9 DEF KeepEarly, netVars
  <2>3. Reported(b) = {}
    BY <2>2 DEF Reported
  <2>4. TrackInv(b)'
    <3>1. CASE rcv' = rcv /\ rState' \in {"RecvBufferOverrunOnStart", "Panicked"}
      BY <1>2, <2>2, <3>1 DEF TrackInv, Following
    <3>2. CASE /\ ~AddPanics(rcv.seqnos, p.seqno)
               /\ rcv' = [rcv EXCEPT !.seqnos = AddSeqno(@, p.seqno),
                                     !.order = AddToOrder(@, p)]
               /\ rState' = rState
      <4>1. /\ rcv'.seqnos = AddSeqno(rcv.seqnos, p.seqno) /\ rcv'.next = rcv.next
            /\ rcv'.order = AddToOrder(rcv.order, p) /\ rcv'.handed = rcv.handed
        BY <1>1, <3>2 DEF IsRcv
      <4>2. /\ CountsOK(rcv'.order)
            /\ BagToSet(rcv'.order) = BagToSet(rcv.order) \cup {p}
        BY <1>2, <4>1, AddToOrderFacts
      <4>3. /\ ReceivedIn(rcv) \subseteq ReceivedIn(rcv')
            /\ CellsOf(p.payload) \subseteq ReceivedIn(rcv')
        BY <4>1, <4>2 DEF ReceivedIn
      <4>4. PICK t : t = rcv'
        OBVIOUS
      <4>5. Tracks(rcv, t, p)
        BY <3>2, <4>1, <4>3, <4>4 DEF Tracks
      <4>6. TracksArrived(c2s, b, rcv) => TracksArrived(c2s, b, t)
        BY <1>1, <4>3, <4>4, <4>5, AddsArrived
      <4>7. Following(b)' => Following(b)
        BY <2>2, <3>2, <4>1 DEF Following
      <4> QED BY <1>2, <1>3, <2>2, <3>2, <4>2, <4>4, <4>6, <4>7 DEF TrackInv
    <3> QED BY <2>1, <3>1, <3>2
  <2> QED BY <1>4, <2>1, <2>2, <2>3, <2>4
<1>10. CASE WaitForAck
  <2>1. PICK p \in c2s : p.flags = {"Ack"} /\ p.seqno = rcv.next
    BY <1>10 DEF WaitForAck, IsFirstAck
  <2>2. /\ rState = "WaitForAck" /\ rState' = "ReceivePackets" /\ acker' = acker /\ s2c' = s2c
        /\ rcv' = [rcv EXCEPT !.next = Plus(@, 1)]
    BY <1>10 DEF WaitForAck, netVars
  <2>3. rcv'.seqnos = rcv.seqnos /\ rcv'.order = rcv.order /\ rcv'.handed = rcv.handed
    BY <1>1, <2>2 DEF IsRcv
  <2>4. Answered(rcv, b, m, closed)
    BY <2>2 DEF Numbering, ReceiverNumbers
  <2>5. rcv.next = Plus(b, 1)
    <3>1. b \in Seqno /\ Cuts(m, cut) /\ Belongs(b, m, cut, closed, p)
      BY <1>1
    <3> QED BY ONLY ConnectionIsShort, <2>1, <2>4, <3>1, FirstAckFacts
  <2>6. Following(b)
    BY <2>2, <2>5 DEF Following
  <2>7. TrackInv(b)' /\ Reported(b)' = Reported(b)
    BY <1>3, <2>2, <2>3, <2>6, QuietStep
  <2> QED BY <1>4, <2>2, <2>7
<1>11. CASE SynAckTimeout
  <2>1. /\ rState = "WaitForAck" /\ rState' = "SendSynAck" /\ acker' = acker /\ s2c' = s2c
        /\ rcv' = [rcv EXCEPT !.send = {SynAckPacket(Minus(rcv.next, 1))}]
    BY <1>11 DEF SynAckTimeout, netVars
  <2>2. /\ rcv'.seqnos = rcv.seqnos /\ rcv'.order = rcv.order /\ rcv'.handed = rcv.handed
        /\ rcv'.next = rcv.next /\ rcv'.send = {SynAckPacket(Minus(rcv.next, 1))}
    BY <1>1, <2>1 DEF IsRcv
  <2>3. (Following(b)' => Following(b)) /\ ~acker.spawned
    BY <1>2, <2>1, <2>2 DEF Following
  <2>4. TrackInv(b)' /\ Reported(b)' = Reported(b)
    BY <1>3, <2>1, <2>2, <2>3, QuietStep
  <2>5. \A x \in rcv'.send : "Syn" \in x.flags
    BY <2>2 DEF SynAckPacket, ToClient
  <2> QED BY <1>4, <2>1, <2>4, <2>5
<1>12. CASE FinAckTimeout
  <2>1. /\ rState = "WaitForLastAck" /\ rState' = "SendFinAck" /\ acker' = acker /\ s2c' = s2c
        /\ rcv' = [rcv EXCEPT !.send = {FinAckPacket(s) : s \in rcv.fin}]
    BY <1>12 DEF FinAckTimeout, netVars
  <2>2. /\ rcv'.seqnos = rcv.seqnos /\ rcv'.order = rcv.order /\ rcv'.handed = rcv.handed
        /\ rcv'.send = {FinAckPacket(s) : s \in rcv.fin}
    BY <1>1, <2>1 DEF IsRcv
  <2>3. Following(b)' => Following(b)
    BY <2>1 DEF Following
  <2>4. TrackInv(b)' /\ Reported(b)' = Reported(b)
    BY <1>3, <2>1, <2>2, <2>3, QuietStep
  <2>5. \A x \in rcv'.send : "Fin" \in x.flags
    BY <2>2 DEF FinAckPacket, ToClient
  <2> QED BY <1>4, <2>1, <2>4, <2>5
<1>13. CASE AbandonAttempt
  <2>1. /\ rState = "WaitForAck" /\ rState' = "WaitForFirstSyn" /\ acker' = acker
        /\ s2c' = s2c /\ rcv' = NotConnected /\ ~acker.spawned
    BY <1>2, <1>13 DEF AbandonAttempt, netVars
  <2>2. CountsOK(rcv'.order)
    BY <2>1 DEF NotConnected, CountsOK, EmptyBag, SetToBag
  <2>3. TrackInv(b)' /\ Reported(b) = {}
    BY <2>1, <2>2 DEF TrackInv, Following, Reported
  <2> QED BY <1>4, <2>1, <2>3
<1>14. CASE WaitForLastAck \/ ReceiverGivesUp
  <2>1. /\ rcv' = rcv /\ acker' = acker /\ s2c' = s2c /\ rState = "WaitForLastAck"
        /\ rState' \in {"DataReceived", "TimedOut"}
    BY <1>14 DEF WaitForLastAck, ReceiverGivesUp, netVars
  <2>2. Following(b)' => Following(b)
    BY <2>1 DEF Following
  <2>3. TrackInv(b)' /\ Reported(b)' = Reported(b)
    BY <1>3, <2>1, <2>2, QuietStep
  <2> QED BY <1>4, <2>1, <2>3
<1>15. CASE SpawnAckSender
  <2>1. /\ rcv' = rcv /\ s2c' = s2c /\ rState' = rState /\ rState = "ReceivePackets"
        /\ ~acker.spawned /\ acker' = [acker EXCEPT !.spawned = TRUE]
    BY <1>15 DEF SpawnAckSender, netVars
  <2>2. Following(b) /\ Reported(b) = {}
    BY <2>1 DEF Following, Reported
  <2>3. TrackInv(b)'
    BY <1>2, <1>3, <2>1, <2>2 DEF TrackInv
  <2>4. AckerOK(b, acker', Reported(b))
    BY <2>1, AckerSets DEF AckInv
  <2>5. AckInv(b)'
    BY <2>1, <2>2, <2>4, AckerMore, NamesMore DEF AckInv
  <2> QED BY <2>2, <2>3, <2>5
<1>16. CASE TakeAcks
  <2>1. /\ acker.spawned /\ ReportedRanges(rcv.seqnos) # {} /\ s2c' = s2c /\ rState' = rState
        /\ acker' = [acker EXCEPT !.ranges = ReportedRanges(rcv.seqnos),
                                  !.base = rcv.seqnos.start,
                                  !.ws = First(ReportedRanges(rcv.seqnos))[1] = 0]
        /\ rcv' = [rcv EXCEPT !.seqnos = TakeSeqnos(@)]
    BY <1>16 DEF TakeAcks, netVars
  <2>2. /\ rcv'.seqnos = TakeSeqnos(rcv.seqnos) /\ rcv'.order = rcv.order
        /\ rcv'.handed = rcv.handed /\ rcv'.send = rcv.send
    BY <1>1, <2>1 DEF IsRcv
  <2>3. AckerOK(b, acker, Reported(b)) /\ TracksArrived(c2s, b, rcv)
    BY <1>2, <2>1 DEF AckInv, Following
  <2>4. PICK t, c : t = rcv' /\ c = acker'
    OBVIOUS
  <2>5. ReceivedIn(t) = ReceivedIn(rcv) /\ t.seqnos = TakeSeqnos(rcv.seqnos)
    BY <2>2, <2>4 DEF ReceivedIn
  <2>6. m + 1 < SeqMod /\ \A p \in c2s : p.seqno # Number(b, m + 1)
    BY <1>1
  <2>7. c = [acker EXCEPT !.ranges = ReportedRanges(rcv.seqnos), !.base = rcv.seqnos.start,
                          !.ws = First(ReportedRanges(rcv.seqnos))[1] = 0]
    BY <2>1, <2>4
  <2>8. /\ TracksArrived(c2s, b, t) /\ Named(b, rcv.seqnos) \subseteq Named(b, t.seqnos)
        /\ AckerOK(b, c, Named(b, t.seqnos))
    <3>1. PICK net, r, a, A : net = c2s /\ r = rcv /\ a = acker /\ A = Reported(b)
      OBVIOUS
    <3>2. /\ TracksArrived(net, b, r) /\ t.seqnos = TakeSeqnos(r.seqnos)
          /\ ReceivedIn(t) = ReceivedIn(r) /\ AckerOK(b, a, A)
          /\ \A p \in net : p.seqno # Number(b, m + 1)
          /\ TakesFrom(a, r.seqnos, c)
      BY <2>1, <2>3, <2>5, <2>6, <2>7, <3>1 DEF TakesFrom
    <3>3. b \in Seqno /\ m \in Nat /\ m + 1 < SeqMod
      BY <1>1, <2>6
    <3>4. /\ TracksArrived(net, b, t) /\ Named(b, r.seqnos) \subseteq Named(b, t.seqnos)
          /\ AckerOK(b, c, Named(b, t.seqnos))
      BY ONLY <3>2, <3>3, TakesArrived
    <3> QED BY <3>1, <3>4
  <2>9. c.spawned
    BY <2>1, <2>3, <2>7 DEF AckerOK
  <2>10. Reported(b)' = Named(b, t.seqnos) /\ Reported(b) = Named(b, rcv.seqnos)
    BY <2>1, <2>4, <2>9 DEF Reported
  <2>11. TrackInv(b)'
    BY <1>2, <1>3, <2>1, <2>2, <2>4, <2>8, <2>9 DEF TrackInv
  <2>12. AckInv(b)'
    BY <2>1, <2>2, <2>4, <2>8, <2>10, NamesMore DEF AckInv
  <2> QED BY <2>8, <2>10, <2>11, <2>12
<1>17. CASE SendAckRange
  <2>1. PICK a : a = First(acker.ranges)
    OBVIOUS
  <2>2. PICK p : p = ToClient({"Ack"} \cup (IF acker.ws THEN {"WS"} ELSE {}),
                              Plus(acker.base, a[1]), Plus(acker.base, a[2]))
    OBVIOUS
  <2>3. /\ acker.ranges # {} /\ s2c' = s2c \cup {p} /\ rcv' = rcv /\ rState' = rState
        /\ acker' = [acker EXCEPT !.ranges = @ \ {a}, !.ws = FALSE]
    BY <1>17, <2>1, <2>2 DEF SendAckRange
  <2>4. AckerOK(b, acker, Reported(b))
    BY DEF AckInv
  <2>5. AckerOK(b, acker', Reported(b)) /\ Names(p, b, Reported(b))
    BY <1>1, <2>1, <2>2, <2>3, <2>4, SendsNamed
  <2>6. acker'.spawned = acker.spawned
    BY <2>3, <2>4 DEF AckerOK
  <2>7. Reported(b)' = Reported(b) /\ TrackInv(b)'
    BY <1>2, <1>3, <2>3, <2>6 DEF Reported, TrackInv, Following
  <2>8. AckInv(b)'
    BY <2>3, <2>5, <2>7 DEF AckInv
  <2> QED BY <2>7, <2>8
<1>18. CASE ReceivePackets
  <2>1. PICK got \in {{}} \cup {{p} : p \in {q \in c2s : PassesReceiver(q)}},
             upTo \in written..Len(rcv.handed), expired \in BOOLEAN :
          ReceiveTurn(got, upTo, expired)
    BY <1>18 DEF ReceivePackets
  <2>2. PICK r : r = PollWriteDataFut(PollRecvStream(rcv, got), upTo)
    OBVIOUS
  <2>3. /\ rState = "ReceivePackets" /\ acker.spawned /\ s2c' = s2c
        /\ \/ rState' = "Panicked" /\ rcv' = rcv /\ acker' = acker
           \/ /\ ~RecvPanics(rcv, got)
              /\ \/ /\ \E p \in NextToWrite(r) : rcv' = MakeWriteDataFut(r, p)
                    /\ rState' = rState /\ acker' = acker
                 \/ /\ rState' = "TimedOut" /\ rcv' = r
                    /\ acker' = [acker EXCEPT !.stopped = TRUE]
                 \/ /\ rState' = "SendFinAck" /\ acker' = [acker EXCEPT !.stopped = TRUE]
                    /\ rcv' = [r EXCEPT !.writing = FALSE,
                                        !.send = {FinAckPacket(s) : s \in r.fin}]
                 \/ rState' = rState /\ rcv' = r /\ acker' = acker
    <3>1. UNCHANGED <<rTries, netVars>>
      BY <2>1 DEF ReceiveTurn
    <3>2. s2c' = s2c
      BY <3>1 DEF netVars
    <3> QED BY <2>1, <2>2, <3>2, Zenon DEF ReceiveTurn
  <2>4. got \subseteq c2s
    BY <2>1
  <2>5. TracksArrived(c2s, b, rcv) /\ Reported(b) = Named(b, rcv.seqnos)
    BY <1>2, <2>3 DEF Following, Reported
  <2>6. CASE rState' = "Panicked" /\ rcv' = rcv /\ acker' = acker
    <3>1. TrackInv(b)' /\ Reported(b)' = Reported(b)
      BY <1>2, <1>3, <2>5, <2>6 DEF TrackInv, Reported
    <3> QED BY <1>4, <2>3, <2>6, <3>1
  <2>7. ASSUME ~RecvPanics(rcv, got)
        PROVE  /\ IsRcv(r) /\ CountsOK(r.order) /\ r.handed = rcv.handed
               /\ BagToSet(r.order) \subseteq c2s
               /\ TracksArrived(c2s, b, r) /\ Named(b, rcv.seqnos) \subseteq Named(b, r.seqnos)
    <3>1. IsRcv(r) /\ r.handed = rcv.handed /\ BagToSet(r.order) \subseteq c2s
      BY <1>1, <2>2, <2>4, PollsFacts
    <3>2. /\ CountsOK(r.order) /\ ReceivedIn(rcv) \subseteq ReceivedIn(r)
          /\ r.seqnos = rcv.seqnos \/ \E p \in got : Tracks(rcv, r, p)
      BY <1>1, <1>2, <2>2, <2>7, PollsTrack
    <3>3. CASE r.seqnos = rcv.seqnos
      BY <2>5, <3>1, <3>2, <3>3, StillArrived
    <3>4. CASE \E p \in got : Tracks(rcv, r, p)
      <4>1. PICK p \in c2s : Tracks(rcv, r, p) /\ p.seqno \in Seqno
        BY <1>1, <2>4, <3>4
      <4> QED BY <1>1, <2>5, <3>1, <3>2, <4>1, AddsArrived
    <3> QED BY <3>2, <3>3, <3>4
  <2>8. ASSUME CountsOK(rcv'.order), TracksArrived(c2s, b, rcv'),
               Named(b, rcv.seqnos) \subseteq Named(b, rcv'.seqnos),
               acker' \in {acker, [acker EXCEPT !.stopped = TRUE]},
               rState' \notin {"WaitForFirstSyn", "SendSynAck", "WaitForAck"},
               rState' = "SendFinAck" => \A p \in rcv'.send : "Fin" \in p.flags
        PROVE  Goal
    <3>1. AckerOK(b, acker', Reported(b)) /\ acker'.spawned = acker.spawned
      <4>1. AckerOK(b, acker, Reported(b))
        BY DEF AckInv
      <4>2. CASE acker' = acker
        BY <4>1, <4>2
      <4>3. CASE acker' = [acker EXCEPT !.stopped = TRUE]
        BY <4>1, <4>3, AckerSets
      <4> QED BY <2>8, <4>2, <4>3
    <3>2. Reported(b)' = Named(b, rcv'.seqnos)
      BY <2>3, <3>1 DEF Reported
    <3>3. TrackInv(b)'
      BY <1>3, <2>8 DEF TrackInv
    <3>4. AckInv(b)'
      BY <2>3, <2>5, <2>8, <3>1, <3>2, AckerMore, NamesMore DEF AckInv
    <3> QED BY <2>5, <2>8, <3>2, <3>3, <3>4
  <2>9. CASE ~RecvPanics(rcv, got) /\ rcv' = r
             /\ rState' \in {"ReceivePackets", "TimedOut"}
             /\ acker' \in {acker, [acker EXCEPT !.stopped = TRUE]}
    BY <2>7, <2>8, <2>9
  <2>10. CASE ~RecvPanics(rcv, got) /\ rState' = "SendFinAck"
              /\ acker' = [acker EXCEPT !.stopped = TRUE]
              /\ rcv' = [r EXCEPT !.writing = FALSE,
                                  !.send = {FinAckPacket(s) : s \in r.fin}]
    <3>1. /\ rcv'.seqnos = r.seqnos /\ rcv'.order = r.order /\ rcv'.handed = r.handed
          /\ rcv'.send = {FinAckPacket(s) : s \in r.fin}
      BY <2>7, <2>10 DEF IsRcv
    <3>2. ReceivedIn(r) \subseteq ReceivedIn(rcv')
      BY <3>1 DEF ReceivedIn
    <3>3. TracksArrived(c2s, b, rcv')
      BY <2>7, <2>10, <3>1, <3>2, StillArrived
    <3>4. \A p \in rcv'.send : "Fin" \in p.flags
      BY <3>1 DEF FinAckPacket, ToClient
    <3> QED BY <2>7, <2>8, <2>10, <3>1, <3>3, <3>4
  <2>11. CASE ~RecvPanics(rcv, got) /\ rState' = rState /\ acker' = acker
              /\ \E p \in NextToWrite(r) : rcv' = MakeWriteDataFut(r, p)
    <3>1. PICK p \in NextToWrite(r) : rcv' = MakeWriteDataFut(r, p)
      BY <2>11
    <3>2. p \in c2s /\ p.payload \in Seq(Nat) /\ r.handed \in Seq(Nat)
      BY <1>1, <2>7, <2>11 DEF NextToWrite, Least
    <3>3. /\ CountsOK(rcv'.order) /\ ReceivedIn(r) \subseteq ReceivedIn(rcv')
          /\ rcv'.seqnos = r.seqnos
      BY <2>7, <2>11, <3>1, <3>2, MakeWriteTracks
    <3>4. TracksArrived(c2s, b, rcv')
      BY <2>7, <2>11, <3>3, StillArrived
    <3> QED BY <2>3, <2>7, <2>8, <2>11, <3>3, <3>4
  <2> QED BY <2>3, <2>6, <2>9, <2>10, <2>11
<1> QED BY <1>5, <1>7, <1>8, <1>9, <1>10, <1>11, <1>12, <1>13, <1>14, <1>15, <1>16, <1>17,
           <1>18 DEF ReceiverNext

-----------------------------------------------------------------------------
(* What the sender has sent, and no longer waits for.  A turn that ends in *)
(* a timeout or a panic may have sent a packet that its state, which is    *)
(* dropped, does not count.                                                *)
Left(s, b, m, cut, A) ==
  \/ m = 0 /\ s.taken = 0
  \/ \E k \in 0..m : m <= k + 1 /\ Numbered(s, b, k, cut) /\ Sending(s.wait, b, k, A)

SendInv(b, m, cut, closed) ==
  /\ sState = "SendFirstSyn" => \E p \in snd.send : p.seqno = b
  /\ sState # "SendFirstSyn" => \E p \in c2s : p.seqno = b
  /\ sState = "SendData" => Sending(snd.wait, b, m, Reported(b))
  /\ sState \notin {"SendFirstSyn", "WaitForSynAck", "SendAck", "SendData"} /\ ~closed =>
       Left(snd, b, m, cut, Reported(b))
  /\ closed => /\ snd.taken = cut[m] /\ snd.next \in {Number(b, m), Number(b, m + 1)}
               /\ Flat(b, m) => \A i \in 0..m - 1 : Number(b, i) \in Reported(b)
  /\ WindowIsSmaller => Passed(b, m, Reported(b))

(* A FIN has been answered: everything made was taken for writing.         *)
Over(m, cut, closed) ==
  closed /\ rcv.order = EmptyBag /\ \E c \in 0..cut[m] : rcv.handed = Cells(0, c)

FinSent == \E p \in s2c : "Fin" \in p.flags

FinInv(m, cut, closed) ==
  /\ rcv.fin # {} => closed
  /\ rState = "SendSynAck" => \A p \in rcv.send : "Fin" \notin p.flags
  /\ rState \in {"SendFinAck", "WaitForLastAck", "DataReceived"} => Over(m, cut, closed)
  /\ FinSent => /\ Over(m, cut, closed)
                /\ rState \in {"SendFinAck", "WaitForLastAck", "DataReceived", "TimedOut"}
  /\ sState \in {"SendLastAck", "DataSent"} => FinSent

LEMMA PassedMore ==
  ASSUME NEW b, NEW m, NEW A, NEW C, Passed(b, m, A), A \subseteq C
  PROVE  Passed(b, m, C)
BY DEF Passed

LEMMA LeftMore ==
  ASSUME NEW s, NEW b, NEW m, NEW cut, NEW A, NEW C, Left(s, b, m, cut, A), A \subseteq C
  PROVE  Left(s, b, m, cut, C)
BY SendingMore DEF Left

LEMMA SendInvMore ==
  ASSUME NEW b, NEW m, NEW cut, NEW closed, SendInv(b, m, cut, closed),
         UNCHANGED sVars, c2s' = c2s, Reported(b) \subseteq Reported(b)'
  PROVE  SendInv(b, m, cut, closed)'
<1>1. PICK A, C : A = Reported(b) /\ C = Reported(b)'
  OBVIOUS
<1>2. snd' = snd /\ sState' = sState /\ A \subseteq C
  BY <1>1 DEF sVars
<1>3. Sending(snd.wait, b, m, A) => Sending(snd.wait, b, m, C)
  BY <1>2, SendingMore
<1>4. Left(snd, b, m, cut, A) => Left(snd, b, m, cut, C)
  BY <1>2, LeftMore
<1>5. Passed(b, m, A) => Passed(b, m, C)
  BY <1>2, PassedMore
<1> QED BY <1>1, <1>2, <1>3, <1>4, <1>5 DEF SendInv

LEMMA NumberedGrows ==
  ASSUME NEW s, NEW b, NEW m \in Nat, NEW n \in Nat, NEW cut, NEW more,
         Grows(m, cut, n, more), Numbered(s, b, m, cut)
  PROVE  Numbered(s, b, m, more)
<1>1. more[m] = cut[m] /\ Grows(m, cut, m, more)
  <2>1. m \in 0..m /\ m <= m
    OBVIOUS
  <2> QED BY <2>1 DEF Grows
<1>2. \A x : IsPiece(b, m, cut, x) => IsPiece(b, m, more, x)
  BY <1>1, PieceGrows
<1> QED BY <1>1, <1>2 DEF Numbered

LEMMA SenderSends ==
  ASSUME SenderInv, SenderNext
  PROVE  c2s \subseteq c2s' /\ s2c' = s2c
<1>1. CASE ~SendDataStep
  BY <1>1 DEF SenderNext, SendFirstSyn, WaitForSynAck, SynTimeout, SenderGivesUp, SendAck,
              SendFin, WaitForFinAck, FinTimeout, SendLastAck, netVars
<1>2. CASE SendDataStep
  <2>1. PICK stdin \in StdinOutcomes, writable \in BOOLEAN,
             got \in {{}} \cup {{p} : p \in {q \in s2c : PassesSender(q)}},
             timer \in {"none", "ack", "connection"} :
          SendData(stdin, writable, got, timer)
    BY <1>2 DEF SendDataStep
  <2>2. c2s \subseteq c2s' /\ UNCHANGED <<sTries, s2c>>
    BY <2>1, SendDataIsATurn DEF SenderInv
  <2> QED BY <2>2
<1> QED BY <1>1, <1>2

LEMMA SendTurnStep ==
  ASSUME ConnectionIsShort, SenderInv, SenderNext, UNCHANGED rVars,
         WindowIsSmaller => WaitOK(snd), NEW b, NEW m, NEW cut, NEW closed,
         Numbering(b, m, cut, closed), AckInv(b), FinInv(m, cut, closed),
         SendInv(b, m, cut, closed),
         NEW n, NEW more, NEW over, Numbering(b, n, more, over)',
         Follows(b, m, cut, closed, n, more, over), sState = "SendData"
  PROVE  SendInv(b, n, more, over)'
<1>1. /\ b \in Seqno /\ m \in Nat /\ Cuts(m, cut) /\ ~closed /\ Numbered(snd, b, m, cut)
      /\ snd.next = Number(b, m) /\ SndOK(snd)
  BY NetFacts DEF Numbering, SenderNumbers, SenderInv, Numbered
<1>2. /\ Grows(m, cut, n, more) /\ m <= n /\ Turned(b, n, more)
      /\ (over <=> sState' = "SendFin")
  BY DEF Follows, Grows
<1>3. Cuts(n, more)
  BY DEF Numbering
<1>4. n \in Nat /\ n + 3 < SeqMod /\ SeqMod \in Nat
  BY <1>3, ShortFacts
<1>5. n < SeqMod /\ n + 1 < SeqMod
  BY ONLY <1>4
<1>6. PICK got, s1, s2, s3, s4, s5, s6, s7 :
        /\ got = {} \/ \E p \in s2c : PassesSender(p) /\ got = {p}
        /\ Turn(snd, s1, s2, s3, s4, s5, s6, s7) /\ s5 = PollReceivePackets(s4, got)
        /\ Numbered(s3, b, n, more)
        /\ \/ sState' \in {"Panicked", "TimedOut"} /\ snd' = snd
           \/ sState' = "SendFin" /\ ClosesWith(s7, snd')
           \/ sState' = "SendData" /\ snd' = s7
  BY <1>2 DEF Turned
<1>7. PICK A : A = Reported(b)
  OBVIOUS
<1>8. Reported(b)' = A
  BY <1>7 DEF Reported, rVars
<1>9. AllNamed(got, b, A)
  <2> SUFFICES ASSUME NEW p \in s2c, PassesSender(p) PROVE Names(p, b, A)
    BY <1>6 DEF AllNamed
  <2>1. "Syn" \notin p.flags
    BY DEF PassesSender
  <2>2. "Fin" \notin p.flags
    BY <1>1 DEF FinInv, FinSent, Over
  <2> QED BY <1>7, <2>1, <2>2 DEF AckInv
<1>10. Sending(snd.wait, b, m, A) /\ s3.next = Number(b, n)
  BY <1>6, <1>7 DEF SendInv, Numbered
<1>11. n \in {m, m + 1} /\ Sending(s3.wait, b, n, A) /\ Sending(s7.wait, b, n, A)
  <2>1. PICK s : s = snd
    OBVIOUS
  <2>2. /\ SndOK(s) /\ Turn(s, s1, s2, s3, s4, s5, s6, s7) /\ s5 = PollReceivePackets(s4, got)
        /\ s.next = Number(b, m) /\ s3.next = Number(b, n) /\ Sending(s.wait, b, m, A)
        /\ b \in Seqno /\ m \in Nat /\ n \in Nat /\ m <= n
    BY <1>1, <1>2, <1>4, <1>6, <1>10, <2>1
  <2> QED BY ONLY <1>5, <1>9, <2>2, SendingTurn
<1>12. WindowIsSmaller => Passed(b, n, A)
  <2> SUFFICES ASSUME WindowIsSmaller PROVE Passed(b, n, A)
    OBVIOUS
  <2>1. PICK s : s = snd
    OBVIOUS
  <2>2. /\ SndOK(s) /\ WaitOK(s) /\ Turn(s, s1, s2, s3, s4, s5, s6, s7)
        /\ Sending(s3.wait, b, n, A) /\ b \in Seqno /\ n \in Nat
    BY <1>1, <1>4, <1>6, <1>11, <2>1
  <2> QED BY ONLY WindowIsSmaller, <1>5, <2>2, TurnPasses
<1>13. (\E p \in c2s' : p.seqno = b) /\ sState' # "SendFirstSyn"
  <2>1. \E p \in c2s : p.seqno = b
    BY DEF SendInv
  <2> QED BY <1>6, <2>1, SenderSends
<1>14. CASE sState' \in {"Panicked", "TimedOut"} /\ snd' = snd
  <2>1. Numbered(snd, b, m, more)
    BY <1>1, <1>2, <1>4, NumberedGrows
  <2>2. m \in 0..n /\ n <= m + 1
    BY <1>1, <1>2, <1>4, <1>11
  <2>3. Left(snd, b, n, more, A)
    BY <1>10, <2>1, <2>2 DEF Left
  <2>4. ~over
    BY <1>2, <1>14
  <2> QED BY <1>8, <1>12, <1>13, <1>14, <2>3, <2>4 DEF SendInv
<1>15. CASE sState' = "SendData" /\ snd' = s7
  <2>1. ~over
    BY <1>2, <1>15
  <2> QED BY <1>8, <1>11, <1>12, <1>13, <1>15, <2>1 DEF SendInv
<1>16. CASE sState' = "SendFin" /\ ClosesWith(s7, snd')
  <2>1. Numbered(s7, b, n, more)
    <3>1. /\ SndOK(s3) /\ Flushes(s3, s4) /\ Acks(s4, s5) /\ Requeues(s5, s6) /\ Keeps(s6, s7)
      BY <1>6 DEF Turn, Sends
    <3> QED BY <1>6, <3>1, NumberedRest
  <2>2. s7.wait = <<>> /\ s7.nextData = {} /\ snd'.taken = s7.taken /\ snd'.next = s7.next
    BY <1>16 DEF ClosesWith, StartData
  <2>3. snd'.taken = more[n] /\ snd'.next = Number(b, n)
    BY <2>1, <2>2 DEF Numbered, Inputs
  <2>4. Unacked(s7.wait) = {}
    BY <2>2 DEF Unacked
  <2>5. Flat(b, n) => \A i \in 0..n - 1 : Number(b, i) \in A
    BY <1>11, <2>4 DEF Sending, Settled
  <2>6. over
    BY <1>2, <1>16
  <2> QED BY <1>8, <1>12, <1>13, <1>16, <2>3, <2>5, <2>6 DEF SendInv
<1> QED BY <1>6, <1>14, <1>15, <1>16

LEMMA SendInvStep ==
  ASSUME ConnectionIsShort, SenderInv, SenderNext, UNCHANGED rVars,
         WindowIsSmaller => WaitOK(snd), NEW b, NEW m, NEW cut, NEW closed,
         Numbering(b, m, cut, closed), AckInv(b), FinInv(m, cut, closed),
         SendInv(b, m, cut, closed),
         NEW n, NEW more, NEW over, Numbering(b, n, more, over)',
         Follows(b, m, cut, closed, n, more, over)
  PROVE  SendInv(b, n, more, over)'
<1>1. CASE sState = "SendData"
  BY <1>1, SendTurnStep
<1>2. CASE sState # "SendData"
  <2>1. n = m /\ more = cut /\ over = closed
    BY <1>2 DEF Follows
  <2>2. SenderNumbers(b, m, cut, closed) /\ m \in Nat /\ b \in Seqno /\ SndOK(snd)
    BY NetFacts DEF Numbering, SenderInv
  <2>3. PICK A : A = Reported(b)
    OBVIOUS
  <2>4. Reported(b)' = A /\ (WindowIsSmaller => Passed(b, m, A))
    BY <2>3 DEF Reported, rVars, SendInv
  <2>5. c2s \subseteq c2s'
    BY SenderSends
  <2>6. sState # "SendFirstSyn" => \E p \in c2s' : p.seqno = b
    BY <2>5 DEF SendInv
  <2>7. CASE SendFirstSyn
    <3>1. ~closed /\ \E p \in c2s' : p.seqno = b
      BY <2>2, <2>7 DEF SendFirstSyn, SenderNumbers, SendInv
    <3>2. sState' = "WaitForSynAck"
      BY <2>7 DEF SendFirstSyn
    <3> QED BY <2>1, <2>4, <3>1, <3>2 DEF SendInv
  <2>8. CASE WaitForSynAck
    <3>1. ~closed /\ sState' = "SendAck" /\ sState = "WaitForSynAck"
      BY <2>2, <2>8 DEF WaitForSynAck, SenderNumbers
    <3> QED BY <2>1, <2>4, <2>6, <3>1 DEF SendInv
  <2>9. CASE SynTimeout
    <3>1. ~closed /\ sState' = "SendFirstSyn" /\ snd.next = b
      BY <2>2, <2>9 DEF SynTimeout, SenderNumbers
    <3>2. snd'.send = {SynPacket(b)}
      BY <2>2, <2>9, <3>1 DEF SynTimeout, SndOK
    <3>3. \E p \in snd'.send : p.seqno = b
      BY <3>2 DEF SynPacket, ToServer
    <3> QED BY <2>1, <2>4, <3>1, <3>3 DEF SendInv
  <2>10. CASE SenderGivesUp
    <3>1. sState \in {"WaitForSynAck", "WaitForFinAck"} /\ sState' = "TimedOut" /\ snd' = snd
      BY <2>10 DEF SenderGivesUp
    <3>2. ~closed => m = 0 /\ snd.taken = 0
      BY <2>2, <3>1 DEF SenderNumbers
    <3>3. ~closed => Left(snd', b, m, cut, A)
      BY <3>1, <3>2 DEF Left
    <3> QED BY <2>1, <2>3, <2>4, <2>6, <3>1, <3>3 DEF SendInv
  <2>11. CASE SendAck
    <3>1. ~closed /\ sState' = "SendData" /\ m = 0 /\ snd'.wait = <<>> /\ sState = "SendAck"
      BY <2>2, <2>11 DEF SendAck, SenderNumbers, StartData
    <3>2. Sending(<<>>, b, 0, A)
      BY DEF Sending, Listed
    <3> QED BY <2>1, <2>4, <2>6, <3>1, <3>2 DEF SendInv
  <2>12. ASSUME closed, snd'.taken = snd.taken, snd'.next \in {Number(b, m), Number(b, m + 1)},
                sState # "SendFirstSyn",
                sState' \in {"SendFin", "WaitForFinAck", "SendLastAck", "DataSent"}
         PROVE  SendInv(b, n, more, over)'
    BY <2>1, <2>3, <2>4, <2>6, <2>12 DEF SendInv
  <2>13. CASE SendFin \/ SendLastAck
    <3>1. /\ snd'.taken = snd.taken /\ snd'.next = snd.next
          /\ sState \in {"SendFin", "SendLastAck"} /\ sState' \in {"WaitForFinAck", "DataSent"}
      BY <2>2, <2>13 DEF SendFin, SendLastAck, Flush, SndOK
    <3>2. closed
      BY <2>2, <3>1 DEF SenderNumbers
    <3>3. snd.next \in {Number(b, m), Number(b, m + 1)}
      BY <3>2 DEF SendInv
    <3> QED BY <2>12, <3>1, <3>2, <3>3
  <2>14. CASE FinTimeout
    <3>1. /\ snd'.taken = snd.taken /\ snd'.next = snd.next
          /\ sState = "WaitForFinAck" /\ sState' = "SendFin"
      BY <2>2, <2>14 DEF FinTimeout, SndOK
    <3>2. closed /\ snd.next = Number(b, m)
      BY <2>2, <3>1 DEF SenderNumbers
    <3> QED BY <2>12, <3>1, <3>2
  <2>15. CASE WaitForFinAck
    <3>1. /\ snd'.taken = snd.taken /\ snd'.next = Plus(snd.next, 1)
          /\ sState = "WaitForFinAck" /\ sState' = "SendLastAck"
      BY <2>2, <2>15 DEF WaitForFinAck, SndOK
    <3>2. closed /\ snd.next = Number(b, m)
      BY <2>2, <3>1 DEF SenderNumbers
    <3>3. m \in Int
      BY <2>2
    <3>4. snd'.next = Number(b, m + 1)
      BY <2>2, <3>1, <3>2, <3>3, NumberFacts
    <3> QED BY <2>12, <3>1, <3>2, <3>4
  <2>16. ~SendDataStep
    <3> SUFFICES ASSUME SendDataStep PROVE FALSE
      OBVIOUS
    <3>1. PICK stdin \in StdinOutcomes, writable \in BOOLEAN,
               got \in {{}} \cup {{p} : p \in {q \in s2c : PassesSender(q)}},
               timer \in {"none", "ack", "connection"} :
            SendData(stdin, writable, got, timer)
      BY DEF SendDataStep
    <3> QED BY <1>2, <2>2, <3>1, SendDataIsATurn
  <2> QED BY <2>7, <2>8, <2>9, <2>10, <2>11, <2>13, <2>14, <2>15, <2>16 DEF SenderNext
<1> QED BY <1>1, <1>2

-----------------------------------------------------------------------------
(* The end of the connection.                                              *)
LEMMA FinInvSender ==
  ASSUME SenderInv, SenderNext, UNCHANGED rVars, NEW b, NEW m, NEW cut, NEW closed,
         Cuts(m, cut), FinInv(m, cut, closed),
         NEW n, NEW more, NEW over, Follows(b, m, cut, closed, n, more, over)
  PROVE  FinInv(n, more, over)'
<1>1. s2c' = s2c /\ rcv' = rcv /\ rState' = rState /\ FinSent' = FinSent
  BY SenderSends DEF FinSent, rVars
<1>2. closed => over /\ n = m /\ more[m] = cut[m]
  <2>1. m \in 0..m
    BY CutsGrow
  <2> QED BY <2>1 DEF Follows, Grows
<1>3. Over(m, cut, closed) => Over(n, more, over)'
  BY <1>1, <1>2 DEF Over
<1>4. sState' \in {"SendLastAck", "DataSent"} => FinSent
  <2>1. CASE sState = "SendData"
    <3>1. ~(sState' \in {"SendLastAck", "DataSent"})
      BY <2>1 DEF Follows, Turned
    <3> QED BY <3>1
  <2>2. CASE WaitForFinAck
    BY <2>2 DEF WaitForFinAck, IsFinAck, FinSent
  <2>3. CASE SendLastAck
    BY <2>3 DEF SendLastAck, FinInv
  <2>4. CASE SendFirstSyn \/ WaitForSynAck \/ SynTimeout \/ SenderGivesUp \/ SendAck
             \/ SendFin \/ FinTimeout
    BY <2>4 DEF SendFirstSyn, WaitForSynAck, SynTimeout, SenderGivesUp, SendAck, SendFin,
                FinTimeout
  <2>5. SendDataStep => sState = "SendData"
    BY DEF SendDataStep, SendData
  <2> QED BY <2>1, <2>2, <2>3, <2>4, <2>5 DEF SenderNext
<1> QED BY <1>1, <1>2, <1>3, <1>4 DEF FinInv

LEMMA FinInvReceiver ==
  ASSUME ConnectionIsShort, ReceiverNext, UNCHANGED sVars,
         NEW b, NEW m, NEW cut, NEW closed, Numbering(b, m, cut, closed),
         TrackInv(b), AckInv(b), FinInv(m, cut, closed)
  PROVE  FinInv(m, cut, closed)'
<1>1. /\ Cuts(m, cut) /\ IsRcv(rcv) /\ \A p \in c2s : Belongs(b, m, cut, closed, p)
      /\ CountsOK(rcv.order) /\ ReceiverNumbers(b, m, cut, closed)
  BY NetFacts DEF TrackInv, Numbering, SenderNumbers
<1>2. sState' = sState
  BY DEF sVars
<1> DEFINE Closing == {"SendFinAck", "WaitForLastAck", "DataReceived"}
(* Before the connection is closed. *)
<1>3. ASSUME s2c \subseteq s2c', FinSent' => FinSent,
             rState \notin Closing \cup {"TimedOut"}, rState' \notin Closing,
             rcv'.fin # {} => closed,
             rState' = "SendSynAck" => \A p \in rcv'.send : "Fin" \notin p.flags
      PROVE  FinInv(m, cut, closed)'
  <2>1. ~FinSent /\ ~FinSent'
    BY <1>3 DEF FinInv
  <2> QED BY <1>2, <1>3, <2>1 DEF FinInv
(* From then on. *)
<1>4. ASSUME s2c \subseteq s2c', rState \in Closing, rState' \in Closing \cup {"TimedOut"},
             rcv'.order = rcv.order, rcv'.handed = rcv.handed, rcv'.fin = rcv.fin
      PROVE  FinInv(m, cut, closed)'
  <2>1. Over(m, cut, closed) /\ Over(m, cut, closed)'
    BY <1>4 DEF FinInv, Over
  <2>2. FinSent => FinSent'
    BY <1>4 DEF FinSent
  <2> QED BY <1>2, <1>4, <2>1, <2>2 DEF FinInv, Over
(* The steps of the ACK sending task. *)
<1>5. ASSUME s2c \subseteq s2c', FinSent' => FinSent, rState' = rState,
             rcv'.order = rcv.order, rcv'.handed = rcv.handed, rcv'.fin = rcv.fin,
             rcv'.send = rcv.send
      PROVE  FinInv(m, cut, closed)'
  <2>1. Over(m, cut, closed) = Over(m, cut, closed)'
    BY <1>5 DEF Over
  <2>2. FinSent = FinSent'
    BY <1>5 DEF FinSent
  <2> QED BY <1>2, <1>5, <2>1, <2>2 DEF FinInv
<1>6. s2c' = s2c => (FinSent' => FinSent)
  BY DEF FinSent
<1>7. CASE WaitForFirstSyn
  <2>1. PICK p \in c2s :
          rcv' = [NotConnected EXCEPT
                       !.next = Plus(p.seqno, 1),
                       !.send = {SynAckPacket(p.seqno)},
                       !.seqnos = NewSeqnoTracker(Plus(p.seqno, 2))]
    BY <1>7 DEF WaitForFirstSyn
  <2>2. rcv'.fin = {} /\ rcv'.send = {SynAckPacket(p.seqno)}
    BY <2>1 DEF NotConnected
  <2>3. \A q \in rcv'.send : "Fin" \notin q.flags
    BY <2>2 DEF SynAckPacket, ToClient
  <2>4. s2c' = s2c /\ rState = "WaitForFirstSyn" /\ rState' = "SendSynAck"
    BY <1>7 DEF WaitForFirstSyn, netVars
  <2> QED BY <1>3, <1>6, <2>2, <2>3, <2>4
<1>8. CASE SendSynAck
  <2>1. /\ rState = "SendSynAck" /\ rState' = "WaitForAck" /\ s2c' = s2c \cup rcv.send
        /\ rcv'.fin = rcv.fin
    BY <1>1, <1>8 DEF SendSynAck, FlushR, IsRcv
  <2>2. FinSent' => FinSent
    BY <2>1 DEF FinInv, FinSent
  <2>3. rcv'.fin # {} => closed
    BY <2>1 DEF FinInv
  <2> QED BY <1>3, <2>1, <2>2, <2>3
<1>9. CASE KeepEarly
  <2>1. PICK p \in c2s :
          \/ rcv' = rcv /\ rState' \in {"RecvBufferOverrunOnStart", "Panicked"}
          \/ /\ rcv' = [rcv EXCEPT !.seqnos = AddSeqno(@, p.seqno),
                                   !.order = AddToOrder(@, p)]
             /\ rState' = rState
    BY <1>9 DEF KeepEarly
  <2>2. rcv'.fin = rcv.fin /\ rState = "WaitForAck" /\ s2c' = s2c
    BY <1>1, <1>9, <2>1 DEF KeepEarly, IsRcv, netVars
  <2>3. rState' \in {"RecvBufferOverrunOnStart", "Panicked", "WaitForAck"}
    BY <2>1, <2>2
  <2>4. rcv'.fin # {} => closed
    BY <2>2 DEF FinInv
  <2> QED BY <1>3, <1>6, <2>2, <2>3, <2>4
<1>10. CASE WaitForAck \/ SynAckTimeout \/ AbandonAttempt
  <2>1. /\ rcv'.fin \in {rcv.fin, {}} /\ rState = "WaitForAck" /\ s2c' = s2c
        /\ rState' \in {"ReceivePackets", "SendSynAck", "WaitForFirstSyn"}
    BY <1>1, <1>10 DEF WaitForAck, SynAckTimeout, AbandonAttempt, NotConnected, IsRcv, netVars
  <2>2. rState' = "SendSynAck" => \A p \in rcv'.send : "Fin" \notin p.flags
    <3> SUFFICES ASSUME rState' = "SendSynAck" PROVE \A p \in rcv'.send : "Fin" \notin p.flags
      OBVIOUS
    <3>1. SynAckTimeout
      BY <1>10 DEF WaitForAck, AbandonAttempt
    <3>2. rcv'.send = {SynAckPacket(Minus(rcv.next, 1))}
      BY <1>1, <3>1 DEF SynAckTimeout, IsRcv
    <3> QED BY <3>2 DEF SynAckPacket, ToClient
  <2>3. rcv'.fin # {} => closed
    BY <2>1 DEF FinInv
  <2> QED BY <1>3, <1>6, <2>1, <2>2, <2>3
<1>11. CASE SendFinAck \/ WaitForLastAck \/ FinAckTimeout \/ ReceiverGivesUp
  <2>1. /\ s2c \subseteq s2c' /\ rState \in Closing /\ rState' \in Closing \cup {"TimedOut"}
        /\ rcv'.order = rcv.order /\ rcv'.handed = rcv.handed /\ rcv'.fin = rcv.fin
    BY <1>1, <1>11 DEF SendFinAck, WaitForLastAck, FinAckTimeout, ReceiverGivesUp, FlushR,
                       IsRcv, netVars
  <2> QED BY <1>4, <2>1
<1>12. CASE SpawnAckSender \/ TakeAcks
  <2>1. /\ s2c' = s2c /\ rState' = rState /\ rcv'.send = rcv.send
        /\ rcv'.order = rcv.order /\ rcv'.handed = rcv.handed /\ rcv'.fin = rcv.fin
    BY <1>1, <1>12 DEF SpawnAckSender, TakeAcks, IsRcv, netVars
  <2> QED BY <1>5, <1>6, <2>1
<1>13. CASE SendAckRange
  <2>1. /\ rcv' = rcv /\ rState' = rState
        /\ \E lo, hi : s2c' = s2c \cup {ToClient({"Ack"} \cup (IF acker.ws THEN {"WS"} ELSE {}),
                                                  lo, hi)}
    BY <1>13 DEF SendAckRange
  <2>2. s2c \subseteq s2c' /\ (FinSent' => FinSent)
    BY <2>1 DEF FinSent, ToClient
  <2> QED BY <1>5, <2>1, <2>2
<1>14. CASE ReceivePackets
  <2>1. PICK got \in {{}} \cup {{p} : p \in {q \in c2s : PassesReceiver(q)}},
             upTo \in written..Len(rcv.handed), expired \in BOOLEAN :
          ReceiveTurn(got, upTo, expired)
    BY <1>14 DEF ReceivePackets
  <2>2. PICK r : r = PollWriteDataFut(PollRecvStream(rcv, got), upTo)
    OBVIOUS
  <2>3. /\ rState = "ReceivePackets" /\ s2c' = s2c
        /\ \/ rState' = "Panicked" /\ rcv' = rcv
           \/ /\ ~RecvPanics(rcv, got)
              /\ \/ \E p \in NextToWrite(r) : rcv' = MakeWriteDataFut(r, p) /\ rState' = rState
                 \/ rState' \in {"TimedOut", "ReceivePackets"} /\ rcv' = r
                 \/ /\ rState' = "SendFinAck" /\ Finished(r)
                    /\ rcv' = [r EXCEPT !.writing = FALSE,
                                        !.send = {FinAckPacket(s) : s \in r.fin}]
    <3>1. UNCHANGED <<rTries, netVars>>
      BY <2>1 DEF ReceiveTurn
    <3>2. s2c' = s2c
      BY <3>1 DEF netVars
    <3> QED BY <2>1, <2>2, <3>2, Zenon DEF ReceiveTurn
  <2>4. got \subseteq c2s
    BY <2>1
  <2>5. IsRcv(r) /\ r.next = rcv.next /\ r.handed = rcv.handed
    BY <1>1, <2>2, PollsFacts
  <2>6. ASSUME ~RecvPanics(rcv, got) PROVE r.fin # {} => closed
    <3>1. r.fin = rcv.fin \/ \E p \in got : "Fin" \in p.flags
      BY <1>1, <2>2, <2>6, PollsTrack
    <3>2. CASE r.fin = rcv.fin
      BY <3>2 DEF FinInv
    <3>3. CASE \E p \in got : "Fin" \in p.flags
      BY <1>1, <2>4, <3>3 DEF Belongs
    <3> QED BY <3>1, <3>2, <3>3
  <2>7. CASE rState' = "Panicked" /\ rcv' = rcv
    <3>1. rcv'.fin # {} => closed
      BY <2>7 DEF FinInv
    <3> QED BY <1>3, <1>6, <2>3, <2>7, <3>1
  <2>8. CASE ~RecvPanics(rcv, got) /\ rcv' = r /\ rState' \in {"TimedOut", "ReceivePackets"}
    BY <1>3, <1>6, <2>3, <2>6, <2>8
  <2>9. CASE /\ ~RecvPanics(rcv, got) /\ rState' = rState
             /\ \E p \in NextToWrite(r) : rcv' = MakeWriteDataFut(r, p)
    <3>1. rcv'.fin = r.fin
      BY <2>5, <2>9 DEF MakeWriteDataFut, IsRcv
    <3> QED BY <1>3, <1>6, <2>3, <2>6, <2>9, <3>1
  <2>10. CASE /\ ~RecvPanics(rcv, got) /\ rState' = "SendFinAck" /\ Finished(r)
              /\ rcv' = [r EXCEPT !.writing = FALSE,
                                  !.send = {FinAckPacket(s) : s \in r.fin}]
    <3>1. rcv'.fin = r.fin /\ rcv'.order = EmptyBag /\ rcv'.handed = rcv.handed /\ closed
      BY <2>5, <2>6, <2>10 DEF IsRcv, Finished
    <3>2. Reached(rcv, b, m, cut, closed)
      BY <1>1, <2>3 DEF ReceiverNumbers
    <3>3. \E c \in 0..cut[m] : rcv.handed = Cells(0, c)
      <4>1. PICK j \in 0..m : rcv.handed = Cells(0, cut[j])
        <5>1. m \in 0..m
          BY <1>1, CutsGrow
        <5> QED BY <3>2, <5>1 DEF Reached
      <4>2. cut[j] \in 0..cut[m]
        <5>1. cut[j] \in Nat /\ cut[m] \in Nat /\ cut[j] <= cut[m]
          BY <1>1, CutsGrow
        <5> QED BY <5>1
      <4> QED BY <4>1, <4>2
    <3>4. Over(m, cut, closed)'
      BY <3>1, <3>3 DEF Over
    <3>5. FinSent' = FinSent
      BY <2>3 DEF FinSent
    <3> QED BY <1>2, <2>10, <3>1, <3>4, <3>5 DEF FinInv
  <2> QED BY <2>3, <2>7, <2>8, <2>9, <2>10
<1> QED BY <1>7, <1>8, <1>9, <1>10, <1>11, <1>12, <1>13, <1>14 DEF ReceiverNext

-----------------------------------------------------------------------------
(* The inductive invariant: the connection, with what its sender, its      *)
(* receiver and the packets sent know of it.                               *)
Flow(b, m, cut, closed) ==
  /\ Numbering(b, m, cut, closed)
  /\ TrackInv(b) /\ AckInv(b)
  /\ SendInv(b, m, cut, closed)
  /\ FinInv(m, cut, closed)

FlowInv == \E b, m, cut, closed : Flow(b, m, cut, closed)

LEMMA InitFlow ==
  ASSUME Init
  PROVE  FlowInv
<1>1. PICK b, cut : Numbering(b, 0, cut, FALSE) /\ snd.send = {SynPacket(b)}
  BY InitNumbering
<1>2. /\ sState = "SendFirstSyn" /\ rState = "WaitForFirstSyn" /\ s2c = {}
      /\ acker = NoAcker /\ rcv.order = EmptyBag /\ rcv.fin = {}
  BY DEF Init, SenderInit, ReceiverInit, NetInit, NotConnected
<1>3. TrackInv(b)
  BY <1>2 DEF TrackInv, Following, CountsOK, NoAcker, EmptyBag, SetToBag
<1>4. AckInv(b)
  <2>1. AckerOK(b, acker, Reported(b))
    BY <1>2 DEF AckerOK, NoAcker
  <2> QED BY <1>2, <2>1 DEF AckInv
<1>5. SendInv(b, 0, cut, FALSE)
  <2>1. \E p \in snd.send : p.seqno = b
    BY <1>1 DEF SynPacket, ToServer
  <2>2. Passed(b, 0, Reported(b))
    BY DEF Passed
  <2> QED BY <1>2, <2>1, <2>2 DEF SendInv
<1>6. FinInv(0, cut, FALSE)
  BY <1>2 DEF FinInv, FinSent
<1> QED BY <1>1, <1>3, <1>4, <1>5, <1>6 DEF FlowInv, Flow

LEMMA SenderFlow ==
  ASSUME ConnectionIsShort, SenderInv, WindowIsSmaller => WaitOK(snd), FlowInv,
         SenderNext, UNCHANGED rVars
  PROVE  FlowInv'
<1>1. PICK b, m, cut, closed : Flow(b, m, cut, closed)
  BY DEF FlowInv
<1>2. /\ Numbering(b, m, cut, closed) /\ TrackInv(b) /\ AckInv(b)
      /\ SendInv(b, m, cut, closed) /\ FinInv(m, cut, closed) /\ Cuts(m, cut)
  BY <1>1 DEF Flow, Numbering
<1>3. PICK n, more, over :
        Numbering(b, n, more, over)' /\ Follows(b, m, cut, closed, n, more, over)
  BY <1>2, SenderOrderStep
<1>4. SendInv(b, n, more, over)'
  BY <1>2, <1>3, SendInvStep
<1>5. FinInv(n, more, over)'
  BY <1>2, <1>3, FinInvSender
<1>6. c2s \subseteq c2s' /\ s2c' = s2c /\ rcv' = rcv /\ rState' = rState /\ acker' = acker
  BY SenderSends DEF rVars
<1>7. TrackInv(b)'
  <2>1. TracksArrived(c2s, b, rcv) => TracksArrived(c2s', b, rcv)
    BY <1>6, StillArrived
  <2> QED BY <1>2, <1>6, <2>1 DEF TrackInv, Following
<1>8. AckInv(b)'
  BY <1>2, <1>6 DEF AckInv, Reported
<1> QED BY <1>3, <1>4, <1>5, <1>7, <1>8 DEF FlowInv, Flow

LEMMA ReceiverFlow ==
  ASSUME ConnectionIsShort, FlowInv, ReceiverNext, UNCHANGED sVars
  PROVE  FlowInv'
<1>1. PICK b, m, cut, closed : Flow(b, m, cut, closed)
  BY DEF FlowInv
<1>2. /\ Numbering(b, m, cut, closed) /\ TrackInv(b) /\ AckInv(b)
      /\ SendInv(b, m, cut, closed) /\ FinInv(m, cut, closed)
  BY <1>1 DEF Flow
<1>3. Numbering(b, m, cut, closed)'
  BY <1>2, ReceiverOrderStep
<1>4. TrackInv(b)' /\ AckInv(b)' /\ Reported(b) \subseteq Reported(b)'
  BY <1>2, TrackStep
<1>5. FinInv(m, cut, closed)'
  BY <1>2, FinInvReceiver
<1>6. c2s' = c2s
  BY ZenonT(60) DEF ReceiverNext, WaitForFirstSyn, SendSynAck, KeepEarly, WaitForAck, SynAckTimeout,
         AbandonAttempt, ReceivePackets, ReceiveTurn, SendFinAck, WaitForLastAck,
         FinAckTimeout, ReceiverGivesUp, SpawnAckSender, TakeAcks, SendAckRange, netVars
<1>7. SendInv(b, m, cut, closed)'
  BY <1>2, <1>4, <1>6, SendInvMore
<1> QED BY <1>3, <1>4, <1>5, <1>7 DEF FlowInv, Flow

LEMMA StutterFlow ==
  ASSUME FlowInv, UNCHANGED vars
  PROVE  FlowInv'
<1>1. PICK b, m, cut, closed : Flow(b, m, cut, closed)
  BY DEF FlowInv
<1>2. UNCHANGED <<sState, sTries, snd, rState, rTries, rcv, acker, written, c2s, s2c>>
  BY DEF vars, sVars, rVars, netVars
<1>3. Numbering(b, m, cut, closed)'
  BY <1>1, <1>2 DEF Flow, Numbering, SenderNumbers, ReceiverNumbers
<1>4. TrackInv(b)' /\ AckInv(b)' /\ Reported(b)' = Reported(b)
  BY <1>1, <1>2 DEF Flow, TrackInv, AckInv, Following, Reported
<1>5. SendInv(b, m, cut, closed)'
  BY <1>1, <1>2, <1>4 DEF Flow, SendInv
<1>6. FinInv(m, cut, closed)'
  BY <1>1, <1>2 DEF Flow, FinInv, FinSent, Over
<1> QED BY <1>3, <1>4, <1>5, <1>6 DEF FlowInv, Flow

(* With a window smaller than the numbers: the list is the window.         *)
WaitsIfSmaller == WindowIsSmaller => WaitOK(snd)

LEMMA WaitsIfSmallerHolds == Spec => []WaitsIfSmaller
<1>1. CASE WindowIsSmaller
  <2>1. WaitInv => WaitsIfSmaller
    BY DEF WaitInv, WaitsIfSmaller
  <2> QED BY <1>1, <2>1, WaitInvHolds, PTL
<1>2. CASE ~WindowIsSmaller
  <2>1. WaitsIfSmaller
    BY <1>2 DEF WaitsIfSmaller
  <2> QED BY <2>1, PTL
<1> QED BY <1>1, <1>2

LEMMA FlowInvHolds == ASSUME ConnectionIsShort PROVE Spec => []FlowInv
<1>1. Init => FlowInv
  BY InitFlow
<1>2. SenderInv /\ WaitsIfSmaller /\ FlowInv /\ [Next]_vars => FlowInv'
  BY SenderFlow, ReceiverFlow, StutterFlow DEF WaitsIfSmaller, Next, Ended
<1> QED BY <1>1, <1>2, SenderInvHolds, WaitsIfSmallerHolds, PTL DEF Spec

-----------------------------------------------------------------------------
(* What the invariant says of the properties.  While no packet sent has a  *)
(* number beyond the next one, the connection's have not gone round.       *)
LEMMA NextIsFlat ==
  ASSUME NEW b \in Seqno, NEW k \in Nat, k + 2 < SeqMod, b <= Number(b, k)
  PROVE  b + k + 2 < SeqMod
<1>1. PICK N, z, r : N = SeqMod /\ z = b + (k + 2) /\ r = z % N
  OBVIOUS
<1>2. /\ N \in Nat \ {0} /\ b \in Int /\ 0 <= b /\ b < N /\ z \in Int /\ z = b + k + 2
      /\ k + 2 < N /\ r = Number(b, k)
  BY <1>1, SeqModAssumption DEF Seqno, Number, Plus
<1>3. ASSUME z >= N PROVE FALSE
  <2>1. z \in N..2 * N - 1
    BY ONLY <1>2, <1>3, k \in Nat
  <2>2. r = z - N
    BY ONLY <1>1, <1>2, <2>1, ModSmall
  <2>3. b <= r
    BY <1>2
  <2> QED BY ONLY <1>2, <2>2, <2>3, k \in Nat
<1> QED BY ONLY <1>1, <1>2, <1>3

LEMMA FlatUntilWrapped ==
  ASSUME ConnectionIsShort, SenderInv, NEW b, NEW m, NEW cut, NEW closed,
         Flow(b, m, cut, closed), ~Wrapped, m # 0
  PROVE  Flat(b, m)
<1>1. /\ b \in Seqno /\ m \in Nat /\ m + 3 < SeqMod /\ SeqMod \in Nat
      /\ SenderNumbers(b, m, cut, closed) /\ SendInv(b, m, cut, closed)
      /\ snd.next \in Seqno
  BY NetFacts DEF Flow, Numbering, SenderInv, SndOK
<1>2. sState \notin {"SendFirstSyn", "WaitForSynAck", "SendAck"}
  BY <1>1 DEF SenderNumbers
<1>3. PICK p \in c2s : p.seqno = b
  BY <1>1, <1>2 DEF SendInv
<1>4. ~(b > snd.next)
  BY <1>3 DEF Wrapped
<1>5. \E k \in Nat : snd.next = Number(b, k) /\ m <= k + 1 /\ k <= m + 1
  <2>1. CASE closed
    <3>1. snd.next \in {Number(b, m), Number(b, m + 1)}
      BY <1>1, <2>1 DEF SendInv
    <3>2. m \in Nat /\ m + 1 \in Nat /\ m <= m + 1 /\ m <= (m + 1) + 1
      BY <1>1
    <3> QED BY <3>1, <3>2
  <2>2. CASE sState = "SendData"
    <3>1. snd.next = Number(b, m) /\ m <= m + 1
      BY <1>1, <2>2 DEF SenderNumbers, Numbered
    <3> QED BY <1>1, <3>1
  <2>3. CASE sState # "SendData" /\ ~closed
    <3>1. PICK k \in 0..m : m <= k + 1 /\ Numbered(snd, b, k, cut)
      BY <1>1, <1>2, <2>3 DEF SendInv, Left
    <3>2. k \in Nat /\ k <= m + 1
      BY <1>1
    <3> QED BY <3>1, <3>2 DEF Numbered
  <2> QED BY <2>1, <2>2, <2>3
<1>6. PICK k \in Nat : snd.next = Number(b, k) /\ m <= k + 1 /\ k <= m + 1
  BY <1>5
<1>7. b <= Number(b, k)
  <2>1. b \in Int /\ snd.next \in Int
    BY <1>1, SeqModAssumption DEF Seqno
  <2> QED BY <1>4, <1>6, <2>1
<1>8. k + 2 < SeqMod
  BY ONLY <1>1, <1>6
<1>9. b + k + 2 < SeqMod
  BY ONLY <1>1, <1>7, <1>8, k \in Nat, NextIsFlat
<1>10. b \in Int
  BY <1>1, SeqModAssumption DEF Seqno
<1>11. b + m + 1 < SeqMod
  BY ONLY <1>1, <1>6, <1>9, <1>10
<1> QED BY <1>11 DEF Flat
(* A packet reported as received was received.                             *)
LEMMA ReportedReceived ==
  ASSUME ConnectionIsShort, NEW b, NEW m, NEW cut, NEW closed, Flow(b, m, cut, closed),
         NEW i \in 0..m - 1, Number(b, i) \in Reported(b)
  PROVE  cut[i] + 1..cut[i + 1] \subseteq Received
<1>1. /\ b \in Seqno /\ m \in Nat /\ Cuts(m, cut)
      /\ \A p \in c2s : Belongs(b, m, cut, closed, p)
  BY NetFacts DEF Flow
<1>2. acker.spawned /\ Number(b, i) \in Named(b, rcv.seqnos)
  BY DEF Reported
<1>3. TracksArrived(c2s, b, rcv)
  BY <1>2 DEF Flow, TrackInv, Following
<1>4. Arrived(c2s, rcv, Number(b, i))
  BY <1>2, <1>3 DEF Named, TracksArrived
<1>5. PICK p \in c2s : p.seqno = Number(b, i) /\ CellsOf(p.payload) \subseteq ReceivedIn(rcv)
  BY <1>4 DEF Arrived
<1>6. p.payload = Cells(cut[i], cut[i + 1])
  <2>1. b \in Seqno /\ Cuts(m, cut) /\ Belongs(b, m, cut, closed, p)
    BY <1>1
  <2>2. i \in 0..m - 1
    OBVIOUS
  <2> QED BY ONLY ConnectionIsShort, <1>5, <2>1, <2>2, PacketNumber
<1>7. CellsOf(p.payload) = cut[i] + 1..cut[i + 1]
  <2>1. PICK x, y : x = cut[i] /\ y = cut[i + 1]
    OBVIOUS
  <2>2. x \in Nat /\ y \in Nat
    BY <1>1, <2>1 DEF Cuts
  <2>3. CellsOf(Cells(x, y)) = x + 1..y
    BY ONLY <2>2, CellsOfCells
  <2> QED BY <1>6, <2>1, <2>3
<1>8. Received = ReceivedIn(rcv)
  BY DEF Received, ReceivedIn
<1> QED BY <1>5, <1>7, <1>8

(* A list that ends with packet k - 1: what was taken and is not waiting   *)
(* has been received.                                                      *)
LEMMA AcksArrived ==
  ASSUME ConnectionIsShort, SenderInv, NEW b, NEW m, NEW cut, NEW closed,
         Flow(b, m, cut, closed), m # 0 => Flat(b, m),
         NEW k \in 0..m, m <= k + 1, Numbered(snd, b, k, cut),
         Sending(snd.wait, b, k, Reported(b))
  PROVE  Acknowledged \subseteq Received
<1>1. /\ b \in Seqno /\ m \in Nat /\ m + 3 < SeqMod /\ SeqMod \in Nat /\ Cuts(m, cut)
      /\ k \in Nat /\ k <= m
  BY NetFacts DEF Flow
<1>2. \A i \in 0..m : cut[i] \in Nat /\ cut[i] <= cut[m]
  BY <1>1, CutsGrow
<1> SUFFICES ASSUME NEW x \in Acknowledged PROVE x \in Received
  OBVIOUS
<1>3. x \in 1..snd.taken /\ x \notin Waiting /\ x \in Nat /\ 1 <= x
  <2>1. snd.taken \in Nat
    BY DEF SenderInv, SndOK
  <2> QED BY <2>1 DEF Acknowledged
<1>4. ASSUME cut[k] < x PROVE FALSE
  <2>1. Inputs(snd) # {}
    BY <1>2, <1>3, <1>4 DEF Numbered
  <2>2. PICK d \in Inputs(snd) : d.payload = Cells(cut[k], snd.taken)
    BY <2>1 DEF Numbered
  <2>3. PICK y, z : y = cut[k] /\ z = snd.taken
    OBVIOUS
  <2>4. y \in Nat /\ z \in Nat
    BY <1>2, <2>3 DEF SenderInv, SndOK
  <2>5. CellsOf(Cells(y, z)) = y + 1..z
    BY ONLY <2>4, CellsOfCells
  <2>6. x \in y + 1..z
    BY <1>3, <1>4, <2>3, <2>4
  <2>7. x \in CellsOf(d.payload)
    BY <2>2, <2>3, <2>5, <2>6
  <2> QED BY <1>3, <2>7 DEF Waiting, Inputs
<1>5. x \in 1..cut[m] /\ x <= cut[k]
  <2>1. cut[k] \in Nat /\ cut[m] \in Nat /\ cut[k] <= cut[m]
    BY <1>1, <1>2
  <2>2. x <= cut[k]
    BY <1>3, <1>4, <2>1
  <2> QED BY <1>3, <2>1, <2>2
<1>6. PICK i \in 0..m - 1 : x \in cut[i] + 1..cut[i + 1]
  BY <1>1, <1>5, CellPiece
<1>7. i \in 0..k - 1
  <2>1. ASSUME i = k PROVE FALSE
    BY <1>2, <1>5, <1>6, <2>1
  <2> QED BY <1>1, <2>1
<1>8. Flat(b, k)
  <2>1. Flat(b, m) /\ b \in Int
    BY <1>1, <1>6, SeqModAssumption DEF Seqno
  <2> QED BY <1>1, <2>1 DEF Flat
<1>9. Settled(snd.wait, b, i, Reported(b))
  BY <1>7, <1>8 DEF Sending
<1>10. CASE Number(b, i) \in Reported(b)
  BY <1>6, <1>10, ReportedReceived
<1>11. CASE \E j \in Unacked(snd.wait) : snd.wait[j].seqno = Number(b, i)
  <2>1. PICK j \in Unacked(snd.wait) : snd.wait[j].seqno = Number(b, i)
    BY <1>11
  <2>2. PICK l \in 0..k - 1 : /\ snd.wait[j].seqno = Number(b, l)
                              /\ snd.wait[j].payload = Cells(cut[l], cut[l + 1])
    BY <2>1 DEF Numbered, IsPiece, Unacked
  <2>3. l = i
    <3>1. l \in Int /\ i \in Int /\ l - i < SeqMod /\ i - l < SeqMod
      BY <1>1, <1>7
    <3>2. Number(b, l) = Number(b, i)
      BY <2>1, <2>2
    <3>3. b \in Seqno
      BY <1>1
    <3> QED BY ONLY <3>1, <3>2, <3>3, NumbersDiffer
  <2>4. PICK y, z : y = cut[i] /\ z = cut[i + 1]
    OBVIOUS
  <2>5. y \in Nat /\ z \in Nat
    BY <1>1, <1>6, <2>4 DEF Cuts
  <2>6. CellsOf(Cells(y, z)) = y + 1..z
    BY ONLY <2>5, CellsOfCells
  <2>7. x \in CellsOf(snd.wait[j].payload)
    BY <1>6, <2>2, <2>3, <2>4, <2>6
  <2> QED BY <1>3, <2>1, <2>7 DEF Waiting
<1> QED BY <1>9, <1>10, <1>11 DEF Settled

(* Once the sender closes the connection all it took has been received.    *)
LEMMA ClosedReceived ==
  ASSUME ConnectionIsShort, SenderInv, NEW b, NEW m, NEW cut, NEW closed,
         Flow(b, m, cut, closed), ~Wrapped, closed
  PROVE  snd.taken = cut[m] /\ 1..snd.taken \subseteq Received
<1>1. /\ Cuts(m, cut) /\ m \in Nat /\ snd.taken = cut[m]
      /\ Flat(b, m) => \A i \in 0..m - 1 : Number(b, i) \in Reported(b)
  BY NetFacts DEF Flow, SendInv
<1>2. ASSUME NEW x \in 1..snd.taken PROVE x \in Received
  <2>1. PICK i \in 0..m - 1 : x \in cut[i] + 1..cut[i + 1]
    BY <1>1, <1>2, CellPiece
  <2>2. m # 0
    BY <1>1, <2>1
  <2>3. Flat(b, m)
    BY <2>2, FlatUntilWrapped
  <2> QED BY <1>1, <2>1, <2>3, ReportedReceived
<1> QED BY <1>1, <1>2

-----------------------------------------------------------------------------
(* What the sender stops retransmitting has arrived, whatever is lost,     *)
(* duplicated or reordered, until the sequence numbers go round: for       *)
(* windows, packets, buffers and inputs of any size.                       *)
THEOREM AckedDataWasReceived ==
  ASSUME ConnectionIsShort PROVE Spec => []AckedWasReceived
<1>1. SenderInv /\ FlowInv => AckedWasReceived
  <2> SUFFICES ASSUME SenderInv, FlowInv, ~Wrapped PROVE Acknowledged \subseteq Received
    BY DEF AckedWasReceived
  <2>1. PICK b, m, cut, closed : Flow(b, m, cut, closed)
    BY DEF FlowInv
  <2>2. /\ m \in Nat /\ SenderNumbers(b, m, cut, closed) /\ SendInv(b, m, cut, closed)
        /\ (m # 0 => Flat(b, m))
    BY <2>1, NetFacts, FlatUntilWrapped DEF Flow, Numbering
  <2>3. CASE snd.taken = 0
    BY <2>3 DEF Acknowledged
  <2>4. CASE closed
    BY <2>1, <2>4, ClosedReceived DEF Acknowledged
  <2>5. CASE sState = "SendData"
    <3>1. m \in 0..m /\ m <= m + 1
      BY <2>2
    <3>2. Numbered(snd, b, m, cut) /\ Sending(snd.wait, b, m, Reported(b))
      BY <2>2, <2>5 DEF SenderNumbers, SendInv
    <3> QED BY <2>1, <2>2, <3>1, <3>2, AcksArrived
  <2>6. CASE snd.taken # 0 /\ ~closed /\ sState # "SendData"
    <3>1. Left(snd, b, m, cut, Reported(b))
      BY <2>2, <2>6 DEF SenderNumbers, SendInv
    <3>2. PICK k \in 0..m : /\ m <= k + 1 /\ Numbered(snd, b, k, cut)
                            /\ Sending(snd.wait, b, k, Reported(b))
      BY <2>6, <3>1 DEF Left
    <3> QED BY <2>1, <2>2, <3>2, AcksArrived
  <2> QED BY <2>3, <2>4, <2>5, <2>6
<1> QED BY <1>1, SenderInvHolds, FlowInvHolds, PTL

(* Neither end closes the connection before all the sender took from its   *)
(* read buffer has arrived (sender) or was taken for writing (receiver),   *)
(* with the same restriction.                                              *)
THEOREM ClosingWaitsForDelivery ==
  ASSUME ConnectionIsShort PROVE Spec => []ClosedMeansDelivered
<1>1. SenderInv /\ FlowInv => ClosedMeansDelivered
  <2> SUFFICES ASSUME SenderInv, FlowInv, ~Wrapped PROVE ClosedMeansDelivered
    BY DEF ClosedMeansDelivered
  <2>1. PICK b, m, cut, closed : Flow(b, m, cut, closed)
    BY DEF FlowInv
  <2>2. FinInv(m, cut, closed) /\ SenderNumbers(b, m, cut, closed) /\ Cuts(m, cut)
    BY <2>1 DEF Flow, Numbering
  <2>3. closed => snd.taken = cut[m] /\ 1..snd.taken \subseteq Received
    BY <2>1, ClosedReceived
  <2>4. sState \in {"SendFin", "WaitForFinAck"} => 1..snd.taken \subseteq Received
    BY <2>2, <2>3 DEF SenderNumbers
  <2>5. ASSUME \/ sState \in {"SendLastAck", "DataSent"}
               \/ rState \in {"SendFinAck", "WaitForLastAck", "DataReceived"}
        PROVE  1..snd.taken = CellsOf(rcv.handed)
    <3>1. Over(m, cut, closed)
      BY <2>2, <2>5 DEF FinInv
    <3>2. PICK c \in 0..cut[m] : rcv.handed = Cells(0, c)
      BY <3>1 DEF Over
    <3>3. cut[m] \in Nat
      BY <2>2, CutsGrow
    <3>4. CellsOf(rcv.handed) = 1..c
      <4>1. 0 \in Nat /\ c \in Nat
        BY <3>3
      <4>2. CellsOf(Cells(0, c)) = 0 + 1..c
        BY ONLY <4>1, CellsOfCells
      <4> QED BY <3>2, <4>2
    <3>5. Received = CellsOf(rcv.handed)
      BY <3>1 DEF Over, Received, BagToSet, EmptyBag, SetToBag
    <3>6. snd.taken = cut[m] /\ 1..snd.taken \subseteq 1..c
      BY <2>3, <3>1, <3>4, <3>5 DEF Over
    <3>7. 1..c \subseteq 1..snd.taken
      BY <3>3, <3>6
    <3> QED BY <3>4, <3>6, <3>7
  <2> QED BY <2>4, <2>5 DEF ClosedMeansDelivered
<1> QED BY <1>1, SenderInvHolds, FlowInvHolds, PTL

-----------------------------------------------------------------------------
(* The two programs take their window sizes from their own command lines;  *)
(* the defaults are the same.                                              *)
WindowFits == SenderWindow <= ReceiverWindow

(* A data packet whose cells have not arrived lies in the receiver's       *)
(* window, which is no smaller than the sender's: the filter on the        *)
(* receive window never drops new data, until the numbers go round.        *)
THEOREM NewDataPassesTheFilter ==
  ASSUME ConnectionIsShort, WindowFits PROVE Spec => []NewDataIsInWindow
<1>1. SenderInv /\ FlowInv => NewDataIsInWindow
  <2> SUFFICES ASSUME SenderInv, FlowInv, ~Wrapped, rState = "ReceivePackets",
                      NEW p \in c2s, p.payload # <<>>, ~(CellsOf(p.payload) \subseteq Received)
               PROVE  PosOf(rcv.seqnos, p.seqno) < ReceiverWindow
    BY DEF NewDataIsInWindow
  <2>1. PICK b, m, cut, closed : Flow(b, m, cut, closed)
    BY DEF FlowInv
  <2>2. /\ b \in Seqno /\ m \in Nat /\ m + 3 < SeqMod /\ SeqMod \in Nat /\ Cuts(m, cut)
        /\ \A q \in c2s : Belongs(b, m, cut, closed, q)
        /\ SendInv(b, m, cut, closed) /\ TracksArrived(c2s, b, rcv)
    BY <2>1, NetFacts DEF Flow, TrackInv, Following
  <2>3. PICK i \in 0..m - 1 : p.seqno = Number(b, i) /\ p.payload = Cells(cut[i], cut[i + 1])
    BY <2>2 DEF Belongs, IsPiece
  <2>4. i \notin Tracked(rcv.seqnos.tracker)
    <3> SUFFICES ASSUME i \in Tracked(rcv.seqnos.tracker) PROVE FALSE
      OBVIOUS
    <3>1. PICK q \in c2s : q.seqno = Number(b, i) /\ CellsOf(q.payload) \subseteq ReceivedIn(rcv)
      BY <2>2 DEF TracksArrived, Arrived
    <3>2. b \in Seqno /\ Cuts(m, cut) /\ Belongs(b, m, cut, closed, q)
      BY <2>2
    <3>3. q.payload = Cells(cut[i], cut[i + 1])
      <4>1. i \in 0..m - 1
        BY <2>3
      <4> QED BY ONLY ConnectionIsShort, <3>1, <3>2, <4>1, PacketNumber
    <3> QED BY <2>3, <3>1, <3>3 DEF Received, ReceivedIn
  <2>5. PICK o : o = rcv.seqnos.tracker.offset
    OBVIOUS
  <2>6. o \in Nat /\ rcv.seqnos.start = Number(b, o) /\ ~(i \in 0..o - 1)
    BY <2>2, <2>4, <2>5 DEF TracksArrived, SeqnosOK, TrackerOK, Tracked
  <2>7. o <= i /\ i \in Nat /\ i < m
    BY ONLY <2>2, <2>3, <2>6
  <2>8. PosOf(rcv.seqnos, p.seqno) = i - o
    <3>1. PICK u, v, z : u = o + 2 /\ v = i + 2 /\ z = i - o
      OBVIOUS
    <3>2. b \in Int /\ u \in Int /\ v \in Int /\ v - u = z /\ z \in Int /\ z \in 0..SeqMod - 1
          /\ SeqMod \in Nat \ {0}
      BY <2>2, <2>6, <2>7, <3>1, SeqModAssumption DEF Seqno
    <3>3. Minus(Plus(b, v), Plus(b, u)) = (v - u) % SeqMod
      BY ONLY <3>2, SeqnoFacts
    <3>4. z % SeqMod = z
      BY ONLY <3>2, ModSmall
    <3> QED BY <2>3, <2>6, <3>1, <3>2, <3>3, <3>4 DEF PosOf, Number
  <2>9. SenderWindow \in 1..SeqMod /\ ReceiverWindow \in 1..SeqMod
    BY SenderAssumption, ReceiverAssumption
  <2>10. CASE ~WindowIsSmaller
    <3>1. SenderWindow = SeqMod /\ ReceiverWindow = SeqMod
      BY <2>2, <2>9, <2>10 DEF WindowIsSmaller, WindowFits
    <3> QED BY <2>2, <2>6, <2>7, <2>8, <3>1
  <2>11. CASE WindowIsSmaller
    <3>1. Flat(b, m)
      BY <2>1, <2>2, <2>7, FlatUntilWrapped
    <3>2. Number(b, o) \notin Reported(b)
      BY <2>6 DEF Reported, Named
    <3>3. ~(m - o > SenderWindow)
      <4>1. o \in 0..m - 1
        BY <2>2, <2>6, <2>7
      <4>2. Passed(b, m, Reported(b))
        BY <2>2, <2>11 DEF SendInv
      <4> QED BY <3>1, <3>2, <4>1, <4>2 DEF Passed
    <3>4. i - o < ReceiverWindow
      <4>1. SenderWindow <= ReceiverWindow
        BY DEF WindowFits
      <4> QED BY ONLY <2>2, <2>6, <2>7, <2>9, <3>3, <4>1
    <3> QED BY <2>8, <3>4
  <2> QED BY <2>10, <2>11
<1> QED BY <1>1, SenderInvHolds, FlowInvHolds, PTL
=============================================================================
