-------------------------- MODULE Datagrams_proofs --------------------------
(***************************************************************************)
(* Proofs about Datagrams for any options, inputs, packets of others and   *)
(* any number of arrivals and signals: what is sent is the input in its    *)
(* order, what is printed was carried, a signal lets one more message      *)
(* through at most, and which packets make the receiver panic.             *)
(***************************************************************************)
EXTENDS Datagrams, SequenceTheorems, WellFoundedInduction, TLAPS

-----------------------------------------------------------------------------
(* A signal that has come is not forgotten: the flag is up until the       *)
(* process has ended, and the process handled no message since it looked,  *)
(* but the one at hand when the signal came.                               *)
SenderRemembers ==
  /\ signals["sender"] = 0 => late["sender"] = 0
  /\ signals["sender"] > 0 => flag["sender"] \/ spc = "ended"
  /\ late["sender"] > 0 => spc # "sending"

ReceiverRemembers ==
  /\ signals["receiver"] = 0 => late["receiver"] = 0
  /\ signals["receiver"] > 0 => flag["receiver"] \/ rpc = "ended"
  /\ late["receiver"] > 0 => rpc # "receiving"

SignalInv ==
  /\ flag \in [Processes -> BOOLEAN]
  /\ signals \in [Processes -> Nat] /\ late \in [Processes -> 0..1]
  /\ SenderRemembers /\ ReceiverRemembers

LEMMA SignalInvHolds == Spec => []SignalInv
<1>1. Init => SignalInv
  BY DEF Init, SignalInv, SenderRemembers, ReceiverRemembers, Processes
<1>2. SignalInv /\ [Next]_vars => SignalInv'
  <2> SUFFICES ASSUME SignalInv, [Next]_vars PROVE SignalInv'
    OBVIOUS
  <2> USE DEF SignalInv, SenderRemembers, ReceiverRemembers, Processes
  <2>1. CASE \/ NextInline \/ \E k \in 0..2 : ReadLength(k)
             \/ \E k \in 0..MaxLength : ReadPayload(k)
             \/ ReadInterrupted \/ SendInterrupted \/ SendFails
    BY <2>1 DEF NextInline, ReadLength, ReadPayload, ReadInterrupted, SendInterrupted,
                SendFails, Returned, receiver, signal
  <2>2. CASE CheckSignal
    BY <2>2 DEF CheckSignal, receiver
  <2>3. CASE SendTo
    BY <2>3 DEF SendTo, Returned, Handled, receiver
  <2>4. CASE BindSocket \/ SetFilter
    BY <2>4 DEF BindSocket, SetFilter, sender, signal
  <2>5. CASE LoopTop
    BY <2>5 DEF LoopTop, sender
  <2>6. CASE ReceiveFrom
    <3>1. /\ rpc = "receiving" /\ rpc' # "receiving" /\ rpc' # "ended"
          /\ UNCHANGED <<flag, signals, spc>>
          /\ late' = late \/ Handled("receiver")
      BY <2>6 DEF ReceiveFrom, PrintMessage, Returned, sender
    <3> QED BY <3>1 DEF Handled
  <2>7. CASE ReceiveInterrupted \/ ReceiveFails
    BY <2>7 DEF ReceiveInterrupted, ReceiveFails, Returned, sender
  <2>8. CASE \E p : Arrive(p)
    BY <2>8 DEF Arrive, sender, signal
  <2>9. CASE \E p \in Processes, wakes \in BOOLEAN : Signal(p, wakes)
    BY <2>9 DEF Signal, Running, sender, receiver
  <2>10. CASE UNCHANGED vars
    BY <2>10 DEF vars, sender, receiver, signal
  <2> QED BY <2>1, <2>2, <2>3, <2>4, <2>5, <2>6, <2>7, <2>8, <2>9, <2>10
          DEF Next, SenderStep, ReceiverStep, Done
<1> QED BY <1>1, <1>2, PTL DEF Spec

(* After a signal at most one more message is sent or printed, however     *)
(* many signals there are and wherever they find the process.              *)
THEOREM SignalStopsProcess == Spec => []OneMoreAfterSignal
<1>1. SignalInv => OneMoreAfterSignal
  BY DEF SignalInv, OneMoreAfterSignal
<1> QED BY <1>1, SignalInvHolds, PTL

-----------------------------------------------------------------------------
(* Payloads.                                                               *)

Messages == Seq(Byte)

(* The bytes of a length are the bytes of a length.                        *)
LEMMA LengthRoundTrip ==
  ASSUME NEW x \in Byte, NEW y \in Byte
  PROVE  LengthBytes(x * Base + y) = <<x, y>>
<1>1. PICK n : n = x * Base + y
  OBVIOUS
<1>2. Base \in Nat \ {0} /\ x \in 0..Base - 1 /\ y \in 0..Base - 1 /\ n \in Nat
  BY <1>1, BaseAssumption DEF Byte
<1>3. PICK d, r : d = n \div Base /\ r = n % Base
  OBVIOUS
<1>4. d \in Int /\ r \in 0..Base - 1 /\ n = Base * d + r
  BY <1>2, <1>3
<1>5. PICK e : e = d - x
  OBVIOUS
<1>6. e \in Int /\ Base * e = y - r
  BY <1>1, <1>2, <1>4, <1>5
<1>7. Base * e < Base /\ -Base < Base * e
  BY <1>2, <1>4, <1>6
<1>8. e = 0
  BY <1>2, <1>6, <1>7
<1>9. d = x /\ r = y
  BY <1>2, <1>4, <1>5, <1>6, <1>8
<1>10. x % Base = x
  BY <1>2
<1> QED BY <1>1, <1>3, <1>9, <1>10 DEF LengthBytes

LEMMA PairsFacts ==
  ASSUME NEW S, NEW c \in Seq(S), NEW l \in Seq(S), Len(c) = 2, Len(l) = 2
  PROVE  LET cl == c \o l
         IN  /\ cl \in Seq(S) /\ Len(cl) = 4 /\ cl[1] = c[1] /\ cl[2] = c[2]
             /\ cl[3] = l[1] /\ cl[4] = l[2]
<1>1. PICK cl : cl = c \o l
  OBVIOUS
<1>2. /\ cl \in Seq(S) /\ Len(cl) = Len(c) + Len(l)
      /\ \A i \in 1..Len(c) + Len(l) : cl[i] = IF i <= Len(c) THEN c[i] ELSE l[i - Len(c)]
  BY ONLY <1>1, c \in Seq(S), l \in Seq(S), ConcatProperties
<1>3. /\ cl \in Seq(S) /\ Len(cl) = 4
      /\ \A i \in 1..4 : cl[i] = IF i <= 2 THEN c[i] ELSE l[i - 2]
  BY <1>2
<1>4. /\ 1 \in 1..4 /\ 2 \in 1..4 /\ 3 \in 1..4 /\ 4 \in 1..4
      /\ 1 <= 2 /\ ~(3 <= 2) /\ ~(4 <= 2) /\ 3 - 2 = 1 /\ 4 - 2 = 2
  OBVIOUS
<1>5. cl[1] = c[1] /\ cl[2] = c[2] /\ cl[3] = l[1] /\ cl[4] = l[2]
  BY <1>3, <1>4
<1> QED BY <1>1, <1>3, <1>5

(* A checked payload is a checksum, a length and a message.                *)
LEMMA EncodedFacts ==
  ASSUME NEW m \in Messages
  PROVE  LET p == Encode(FALSE, m)
         IN  /\ \E S : p \in Seq(S)
             /\ Len(p) = Len(m) + 4 /\ p[3] \in Byte /\ p[4] \in Byte
<1>1. PICK n : n = FoldSeq(LAMBDA x, y : x + y, Len(m), m) + 1
  OBVIOUS
<1>2. PICK c1, c2 : c1 = (n \div Base) % Base /\ c2 = n % Base
  OBVIOUS
<1>3. PICK l1, l2 : l1 = (Len(m) \div Base) % Base /\ l2 = Len(m) % Base
  OBVIOUS
<1>4. Len(m) \in Nat /\ Base \in Nat \ {0} /\ m \in Seq(Byte)
  BY BaseAssumption DEF Messages
<1>5. l1 \in Byte /\ l2 \in Byte
  BY <1>3, <1>4 DEF Byte
<1>6. PICK S : S = {c1, c2} \cup Byte
  OBVIOUS
<1>7. PICK c, l : c = <<c1, c2>> /\ l = <<l1, l2>>
  OBVIOUS
<1>8. c = Checksum(m) /\ l = LengthBytes(Len(m))
  BY <1>1, <1>2, <1>3, <1>7 DEF Checksum, LengthBytes
<1>9. /\ c \in Seq(S) /\ l \in Seq(S) /\ m \in Seq(S) /\ Len(c) = 2 /\ Len(l) = 2
      /\ l[1] = l1 /\ l[2] = l2
  BY <1>4, <1>5, <1>6, <1>7
<1>10. PICK cl, p : cl = c \o l /\ p = cl \o m
  OBVIOUS
<1>11. cl \in Seq(S) /\ Len(cl) = 4 /\ cl[3] = l1 /\ cl[4] = l2
  BY <1>9, <1>10, PairsFacts
<1>12. p \in Seq(S) /\ Len(p) = Len(m) + 4 /\ p[3] = l1 /\ p[4] = l2
  BY <1>4, <1>9, <1>10, <1>11
<1>13. p = Encode(FALSE, m)
  BY <1>8, <1>10 DEF Encode
<1> QED BY <1>5, <1>12, <1>13

(* What the receiver cuts out of a valid payload, framed again, is the     *)
(* payload: the header holds what is computed from the rest.               *)
LEMMA ValidMeansCarried ==
  ASSUME NEW S, NEW p \in Seq(S), Len(p) >= 4, p[3] \in Byte, p[4] \in Byte,
         ValidPayload(p)
  PROVE  Encode(FALSE, Body(FALSE, p)) = p
<1>1. PICK n, m : n = Len(p) /\ m = SubSeq(p, 5, n)
  OBVIOUS
<1>2. n \in Nat /\ n >= 4 /\ DOMAIN p = 1..n
  BY <1>1
<1>3. m \in Seq(S) /\ Len(m) = n - 4 /\ \A i \in 1..n - 4 : m[i] = p[i + 4]
  BY <1>1, <1>2
<1>4. PICK c, l : c = SubSeq(p, 1, 2) /\ l = SubSeq(p, 3, 4)
  OBVIOUS
<1>5. /\ c \in Seq(S) /\ Len(c) = 2 /\ c[1] = p[1] /\ c[2] = p[2]
      /\ l \in Seq(S) /\ Len(l) = 2 /\ l[1] = p[3] /\ l[2] = p[4]
  BY <1>1, <1>2, <1>4
<1>6. c = Checksum(m) /\ LengthOf(l) = Len(m)
  BY <1>1, <1>3, <1>4 DEF ValidPayload, Body
<1>7. l = LengthBytes(Len(m))
  <2>1. l = <<p[3], p[4]>>
    BY <1>5
  <2>2. LengthOf(l) = p[3] * Base + p[4]
    BY <1>5 DEF LengthOf
  <2> QED BY <1>6, <2>1, <2>2, LengthRoundTrip
<1>8. PICK cl, q : cl = c \o l /\ q = cl \o m
  OBVIOUS
<1>9. /\ cl \in Seq(S) /\ Len(cl) = 4 /\ cl[1] = p[1] /\ cl[2] = p[2] /\ cl[3] = p[3]
      /\ cl[4] = p[4]
  BY <1>5, <1>8, PairsFacts
<1>10. /\ q \in Seq(S) /\ Len(q) = n
       /\ \A i \in 1..n : q[i] = IF i <= 4 THEN cl[i] ELSE m[i - 4]
  BY <1>2, <1>3, <1>8, <1>9, SMTT(60)
<1>11. \A i \in 1..n : q[i] = p[i]
  <2> TAKE i \in 1..n
  <2>1. CASE i <= 4
    <3>1. i \in {1, 2, 3, 4}
      BY <1>2, <2>1
    <3> QED BY <1>9, <1>10, <2>1, <3>1
  <2>2. CASE ~(i <= 4)
    <3>1. i - 4 \in 1..n - 4 /\ (i - 4) + 4 = i
      BY <1>2, <2>2
    <3> QED BY <1>3, <1>10, <2>2, <3>1
  <2> QED BY <2>1, <2>2
<1>12. q = p
  BY <1>1, <1>2, <1>10, <1>11
<1>13. Body(FALSE, p) = m
  BY <1>1 DEF Body
<1> QED BY <1>6, <1>7, <1>8, <1>12, <1>13 DEF Encode

-----------------------------------------------------------------------------
(* The bytes of a standard input: the bytes of a length and a message, for *)
(* each message.  Framed is a fold, so what it holds message by message is *)
(* found by descent to a least counterexample.                             *)

LEMMA LeastNat ==
  ASSUME NEW T, T \subseteq Nat, T # {}
  PROVE  \E x \in T : \A y \in T : x <= y
<1> DEFINE lt == OpToRel(<, Nat)
<1>1. IsWellFoundedOn(lt, Nat)
  BY NatLessThanWellFounded
<1>2. PICK x \in T : \A y \in T : ~ (<<y, x>> \in lt)
  <2> HIDE DEF lt
  <2> QED BY <1>1, WFMin
<1>3. \A y \in T : y < x => <<y, x>> \in lt
  BY DEF OpToRel
<1>4. \A y \in T : ~ (y < x)
  <2> HIDE DEF lt
  <2> QED BY <1>2, <1>3
<1> QED BY <1>4

(* The bytes of a standard input: FoldLeft iterates a CHOOSE over the sets *)
(* of indices, the greatest index last.                                    *)
FramedOnto(g, ms, s) ==
  IF s = {} THEN <<>>
  ELSE (g[s \ {Max(s)}] \o LengthBytes(Len(ms[Max(s)]))) \o ms[Max(s)]

LEMMA GreatestIndex ==
  ASSUME NEW n \in Nat, NEW s \in SUBSET (1..n), s # {}
  PROVE  /\ Max(s) \in s /\ \A y \in s : y <= Max(s)
         /\ s \ {Max(s)} \in SUBSET (1..n - 1)
<1> DEFINE T == {n - y : y \in s}
<1>1. T \subseteq Nat /\ T # {}
  OBVIOUS
<1>2. PICK x \in T : \A y \in T : x <= y
  <2> HIDE DEF T
  <2> QED BY <1>1, LeastNat
<1>3. PICK g \in s : x = n - g
  OBVIOUS
<1>4. ASSUME NEW y \in s PROVE y <= g
  <2>1. n - y \in T
    OBVIOUS
  <2>2. n - g <= n - y
    <3> HIDE DEF T
    <3> QED BY <1>2, <1>3, <2>1
  <2>3. n \in Int /\ g \in Int /\ y \in Int
    OBVIOUS
  <2> HIDE DEF T
  <2> QED BY <2>2, <2>3
<1>5. \E z \in s : \A y \in s : z >= y
  BY <1>4
<1>6. Max(s) \in s /\ \A y \in s : Max(s) >= y
  BY <1>5 DEF Max
<1>7. PICK m : m = Max(s)
  OBVIOUS
<1>8. m \in 1..n /\ m \in s /\ \A y \in s : y <= m
  BY <1>6, <1>7
<1>9. s \ {m} \in SUBSET (1..n - 1)
  <2> SUFFICES ASSUME NEW y \in s, y # m PROVE y \in 1..n - 1
    OBVIOUS
  <2>1. y \in 1..n /\ y <= m
    BY <1>8
  <2> QED BY <1>8, <2>1
<1> QED BY <1>7, <1>8, <1>9

LEMMA FramingIterates ==
  ASSUME NEW ms
  PROVE  \A n \in Nat : \E g : g = [s \in SUBSET (1..n) |-> FramedOnto(g, ms, s)]
<1> DEFINE Good(n) == \E g : g = [s \in SUBSET (1..n) |-> FramedOnto(g, ms, s)]
<1>1. Good(0)
  <2>1. PICK g : g = [s \in SUBSET (1..0) |-> <<>>]
    OBVIOUS
  <2>2. \A s \in SUBSET (1..0) : s = {}
    OBVIOUS
  <2>3. g = [s \in SUBSET (1..0) |-> FramedOnto(g, ms, s)]
    BY <2>1, <2>2, Zenon DEF FramedOnto
  <2> QED BY <2>3
<1>2. ASSUME NEW n \in Nat \ {0}, Good(n - 1) PROVE Good(n)
  <2>1. PICK g : g = [s \in SUBSET (1..n - 1) |-> FramedOnto(g, ms, s)]
    BY <1>2
  <2>2. PICK h : h = [s \in SUBSET (1..n) |-> FramedOnto(g, ms, s)]
    OBVIOUS
  <2>3. ASSUME NEW s \in SUBSET (1..n)
        PROVE  FramedOnto(g, ms, s) = FramedOnto(h, ms, s)
    <3>1. CASE s = {}
      BY <3>1, Zenon DEF FramedOnto
    <3>2. CASE s # {}
      <4>1. s \ {Max(s)} \in SUBSET (1..n - 1)
        BY <3>2, GreatestIndex
      <4>2. s \ {Max(s)} \in SUBSET (1..n)
        OBVIOUS
      <4>3. h[s \ {Max(s)}] = g[s \ {Max(s)}]
        BY <2>1, <2>2, <4>1, <4>2, Zenon
      <4> QED BY <4>3, Zenon DEF FramedOnto
    <3> QED BY <3>1, <3>2
  <2>4. h = [s \in SUBSET (1..n) |-> FramedOnto(h, ms, s)]
    BY <2>2, <2>3, Zenon
  <2> QED BY <2>4
<1> HIDE DEF Good
<1>3. \A n \in Nat : Good(n)
  <2> SUFFICES ASSUME NEW m \in Nat, ~Good(m) PROVE FALSE
    OBVIOUS
  <2> DEFINE T == {n \in Nat : ~Good(n)}
  <2>1. PICK n \in T : \A k \in T : n <= k
    <3>1. T \subseteq Nat /\ T # {}
      OBVIOUS
    <3> HIDE DEF T
    <3> QED BY <3>1, LeastNat
  <2>2. n \in Nat \ {0}
    BY <1>1, <2>1
  <2>3. n - 1 \in Nat /\ n - 1 \notin T
    BY <2>1, <2>2
  <2> QED BY <1>2, <2>1, <2>2, <2>3
<1> QED BY <1>3 DEF Good

(* What the standard input holds before each message: parts[j] are the     *)
(* bytes of the first j messages.                                          *)
Parts(p, ms) ==
  /\ p[Len(ms)] = Framed(ms) /\ p[0] = <<>>
  /\ \A j \in 1..Len(ms) : p[j] = (p[j - 1] \o LengthBytes(Len(ms[j]))) \o ms[j]

LEMMA PartsExist ==
  ASSUME NEW ms \in Seq(Messages)
  PROVE  \E p : Parts(p, ms)
<1> DEFINE n == Len(ms)
<1>1. n \in Nat /\ DOMAIN ms = 1..n
  OBVIOUS
<1>2. PICK g : g = CHOOSE h : h = [s \in SUBSET (1..n) |-> FramedOnto(h, ms, s)]
  OBVIOUS
<1>3. Framed(ms) = g[1..n]
  BY <1>1, <1>2 DEF Framed, FoldLeft, MapThenFoldSet, FramedOnto
<1>4. g = [s \in SUBSET (1..n) |-> FramedOnto(g, ms, s)]
  <2>1. \E h : h = [s \in SUBSET (1..n) |-> FramedOnto(h, ms, s)]
    BY <1>1, FramingIterates
  <2> QED BY <1>2, <2>1, Zenon
<1>5. PICK p : p = [j \in 0..n |-> g[1..j]]
  OBVIOUS
<1>6. p[n] = Framed(ms)
  BY <1>1, <1>3, <1>5
<1>7. p[0] = <<>>
  <2>1. p[0] = g[{}]
    BY <1>1, <1>5
  <2>2. g[{}] = FramedOnto(g, ms, {})
    BY <1>4, Zenon
  <2> QED BY <2>1, <2>2, Zenon DEF FramedOnto
<1>8. ASSUME NEW j \in 1..n
      PROVE  p[j] = (p[j - 1] \o LengthBytes(Len(ms[j]))) \o ms[j]
  <2>0. n \in Nat /\ j \in Int /\ 1 <= j /\ j <= n
    BY <1>1
  <2> HIDE DEF n
  <2>1. Max(1..j) = j
    <3>1. j \in Nat /\ j \in 1..j
      BY <2>0
    <3>2. 1..j \in SUBSET (1..j) /\ 1..j # {}
      BY <3>1
    <3>3. PICK m : m = Max(1..j)
      OBVIOUS
    <3>4. m \in 1..j /\ \A y \in 1..j : y <= m
      BY <3>1, <3>2, <3>3, GreatestIndex
    <3> QED BY <3>1, <3>3, <3>4
  <2>2. (1..j) \ {j} = 1..j - 1 /\ 1..j \in SUBSET (1..n) /\ j \in 0..n /\ j - 1 \in 0..n
        /\ 1..j # {}
    <3>1. (1..j) \ {j} = 1..j - 1
      BY ONLY <2>0
    <3>2. 1..j \in SUBSET (1..n) /\ j \in 0..n /\ j - 1 \in 0..n
      BY ONLY <2>0
    <3>3. j \in 1..j
      BY ONLY <2>0
    <3> QED BY <3>1, <3>2, <3>3
  <2>3. p[j] = g[1..j] /\ p[j - 1] = g[1..j - 1]
    BY <1>5, <2>2, Zenon
  <2>4. g[1..j] = FramedOnto(g, ms, 1..j)
    BY <1>4, <2>2, Zenon
  <2>5. g[1..j] = (g[1..j - 1] \o LengthBytes(Len(ms[j]))) \o ms[j]
    BY <2>1, <2>2, <2>4, Zenon DEF FramedOnto
  <2> QED BY <2>3, <2>5
<1> QED BY <1>6, <1>7, <1>8, Zenon DEF Parts

LEMMA LengthOfBytes ==
  ASSUME NEW n \in 0..MaxLength
  PROVE  LengthBytes(n) \in Messages /\ Len(LengthBytes(n)) = 2
         /\ LengthOf(LengthBytes(n)) = n
<1>1. PICK d, r : d = n \div Base /\ r = n % Base
  OBVIOUS
<1>2. Base \in Nat \ {0} /\ n \in Nat /\ n <= Base * Base - 1
  BY BaseAssumption DEF MaxLength
<1>3. d \in Nat /\ r \in 0..Base - 1 /\ n = Base * d + r
  BY <1>1, <1>2
<1>4. Base * d < Base * Base
  BY <1>2, <1>3
<1>5. d < Base
  BY <1>2, <1>3, <1>4
<1>6. d % Base = d
  BY <1>2, <1>3, <1>5
<1>7. LengthBytes(n) = <<d, r>>
  BY <1>1, <1>6 DEF LengthBytes
<1>8. d \in Byte /\ r \in Byte
  BY <1>2, <1>3, <1>5 DEF Byte
<1>9. d * Base + r = n
  BY <1>2, <1>3
<1> QED BY <1>7, <1>8, <1>9 DEF LengthOf, Messages

LEMMA LengthBytesType ==
  ASSUME NEW n \in Nat
  PROVE  LengthBytes(n) \in Messages
<1>1. (n \div Base) % Base \in Byte /\ n % Base \in Byte
  BY BaseAssumption DEF Byte
<1> QED BY <1>1 DEF LengthBytes, Messages

LEMMA PartsAreBytes ==
  ASSUME NEW ms \in Seq(Messages), NEW p, Parts(p, ms)
  PROVE  \A j \in 0..Len(ms) : p[j] \in Messages
<1> DEFINE T == {j \in 0..Len(ms) : p[j] \notin Messages}
<1>1. SUFFICES ASSUME T # {} PROVE FALSE
  OBVIOUS
<1>2. PICK j \in T : \A k \in T : j <= k
  <2>1. T \subseteq Nat /\ T # {}
    BY <1>1
  <2> HIDE DEF T
  <2> QED BY <2>1, LeastNat
<1>3. j \in 1..Len(ms)
  <2>1. p[0] \in Messages
    BY DEF Parts, Messages
  <2>2. j \in 0..Len(ms) /\ p[j] \notin Messages
    BY <1>2
  <2> QED BY <2>1, <2>2
<1>4. j - 1 \in 0..Len(ms) /\ j - 1 \notin T
  BY <1>2, <1>3
<1>5. PICK q : q = p[j - 1]
  OBVIOUS
<1>6. q \in Messages /\ ms[j] \in Messages
  BY <1>3, <1>4, <1>5
<1>7. PICK l : l = LengthBytes(Len(ms[j]))
  OBVIOUS
<1>8. l \in Messages
  BY <1>6, <1>7, LengthBytesType, SMTT(60) DEF Messages
<1>9. p[j] = (q \o l) \o ms[j]
  BY <1>3, <1>5, <1>7 DEF Parts
<1>10. (q \o l) \o ms[j] \in Messages
  BY <1>6, <1>8 DEF Messages
<1> QED BY <1>2, <1>9, <1>10

(* What the standard input holds after each message: rests[j] is what is   *)
(* left of it when the first j messages have been read.                    *)
Rests(r, ms) ==
  /\ r[0] = Framed(ms) /\ r[Len(ms)] = <<>>
  /\ \A j \in 0..Len(ms) : r[j] \in Messages
  /\ \A j \in 1..Len(ms) : r[j - 1] = LengthBytes(Len(ms[j])) \o (ms[j] \o r[j])

LEMMA CancelLeft ==
  ASSUME NEW s \in Messages, NEW t \in Messages, NEW u \in Messages, s \o t = s \o u
  PROVE  t = u
<1>1. \A S : \A x, y, z \in Seq(S) : x \o y = x \o z => y = z
  BY ConcatSimplifications, Zenon
<1> QED BY <1>1 DEF Messages

Joined(all, x, y) == x \in Messages /\ y \in Messages /\ all = x \o y

LEMMA Associates ==
  ASSUME NEW x, NEW y, NEW z, NEW xy, NEW yz, NEW all,
         Joined(xy, x, y), Joined(yz, y, z), Joined(all, xy, z)
  PROVE  Joined(all, x, yz)
<1>1. PICK a \in Seq(Byte), b \in Seq(Byte), c \in Seq(Byte) : a = x /\ b = y /\ c = z
  BY DEF Joined, Messages
<1>2. (a \o b) \o c = a \o (b \o c)
  BY ONLY a \in Seq(Byte), b \in Seq(Byte), c \in Seq(Byte), ConcatAssociative, SMTT(30)
<1>3. b \o c \in Messages
  BY DEF Messages
<1> QED BY <1>1, <1>2, <1>3 DEF Joined

LEMMA RestsExist ==
  ASSUME NEW ms \in Seq(Messages)
  PROVE  \E r : Rests(r, ms)
<1>1. PICK n : n = Len(ms)
  OBVIOUS
<1>2. n \in Nat /\ \A j \in 1..n : ms[j] \in Messages
  BY <1>1
<1>3. PICK p : Parts(p, ms)
  BY PartsExist
<1>4. \A j \in 0..n : p[j] \in Messages
  BY <1>1, <1>3, PartsAreBytes
<1>5. PICK F : F = Framed(ms)
  OBVIOUS
<1> DEFINE Left(j, t) == t \in Messages /\ F = p[j] \o t
<1>6. ASSUME NEW j \in 1..n, NEW t, Left(j, t)
      PROVE  Left(j - 1, LengthBytes(Len(ms[j])) \o (ms[j] \o t))
  <2>1. PICK q \in Seq(Byte), m \in Seq(Byte), u \in Seq(Byte) :
          q = p[j - 1] /\ m = ms[j] /\ u = t
    BY <1>2, <1>4, <1>6 DEF Messages
  <2>2. PICK l \in Seq(Byte) : l = LengthBytes(Len(ms[j]))
    BY <2>1, LengthBytesType DEF Messages
  <2>3. PICK ql \in Seq(Byte), mt \in Seq(Byte) : ql = q \o l /\ mt = m \o u
    <3>1. q \o l \in Seq(Byte) /\ m \o u \in Seq(Byte)
      OBVIOUS
    <3> QED BY <3>1
  <2>4. PICK qlm \in Seq(Byte), r \in Seq(Byte) : qlm = ql \o m /\ r = l \o mt
    <3>1. ql \o m \in Seq(Byte) /\ l \o mt \in Seq(Byte)
      OBVIOUS
    <3> QED BY <3>1
  <2>5. F = qlm \o u
    BY <1>1, <1>3, <1>6, <2>1, <2>2, <2>3, <2>4 DEF Parts
  <2>6. Joined(ql, q, l) /\ Joined(qlm, ql, m) /\ Joined(F, qlm, u)
        /\ Joined(mt, m, u) /\ Joined(r, l, mt)
    BY <2>3, <2>4, <2>5 DEF Joined, Messages
  <2>7. Joined(F, ql, mt)
    BY <2>6, Associates
  <2>8. Joined(F, q, r)
    BY <2>6, <2>7, Associates
  <2> QED BY <2>1, <2>2, <2>3, <2>4, <2>8 DEF Joined
<1>7. Left(n, <<>>)
  <2>1. F \in Messages /\ p[n] = F
    BY <1>1, <1>2, <1>3, <1>4, <1>5 DEF Parts
  <2> QED BY <2>1, ConcatEmptySeq DEF Messages
<1>8. \A j \in 0..n : \E t : Left(j, t)
  <2> DEFINE T == {k \in 0..n : ~ \E t : Left(n - k, t)}
  <2>1. T = {}
    <3> SUFFICES ASSUME T # {} PROVE FALSE
      OBVIOUS
    <3>1. PICK k \in T : \A i \in T : k <= i
      <4>0. \A i \in 0..n : i \in Nat
        BY <1>2
      <4>1. T \subseteq Nat /\ T # {}
        <5> HIDE DEF Left
        <5> QED BY <4>0
      <4> HIDE DEF T
      <4> QED BY <4>1, LeastNat
    <3>2. k # 0
      <4>1. n - 0 = n
        BY <1>2
      <4> HIDE DEF Left
      <4> QED BY <1>7, <3>1, <4>1
    <3>3. PICK i, j : i = k - 1 /\ j = n - i
      OBVIOUS
    <3>4. i \in 0..n /\ j \in 1..n /\ j - 1 = n - k /\ ~(k <= i)
      BY <1>2, <3>1, <3>2, <3>3
    <3>5. \E t : Left(n - i, t)
      <4> HIDE DEF Left
      <4> QED BY <3>1, <3>4
    <3>6. PICK t : Left(j, t)
      <4> HIDE DEF Left
      <4> QED BY <3>3, <3>5
    <3>7. \E u : Left(j - 1, u)
      <4> HIDE DEF Left
      <4> QED BY <1>6, <3>4, <3>6
    <3>8. ~ \E u : Left(n - k, u)
      <4> HIDE DEF Left
      <4> QED BY <3>1
    <3> HIDE DEF Left
    <3> QED BY <3>4, <3>7, <3>8
  <2> SUFFICES ASSUME NEW j \in 0..n PROVE \E t : Left(j, t)
    OBVIOUS
  <2>2. PICK k : k = n - j
    OBVIOUS
  <2>3. k \in 0..n /\ n - k = j
    BY <1>2, <2>2
  <2> HIDE DEF Left
  <2> QED BY <2>1, <2>3
<1>9. PICK r : r = [j \in 0..n |-> CHOOSE t : Left(j, t)]
  OBVIOUS
<1>10. ASSUME NEW j \in 0..n PROVE Left(j, r[j])
  <2> HIDE DEF Left
  <2>1. r[j] = CHOOSE t : Left(j, t)
    BY <1>9
  <2> QED BY <1>8, <2>1
<1>11. ASSUME NEW j \in 0..n, NEW t, Left(j, t) PROVE t = r[j]
  <2>1. t \in Messages /\ r[j] \in Messages /\ p[j] \o t = p[j] \o r[j]
    BY <1>10, <1>11
  <2> QED BY <1>4, <2>1, CancelLeft
<1>12. r[0] = F
  <2>1. Left(0, F)
    <3>1. F \in Messages /\ p[0] = <<>>
      BY <1>1, <1>2, <1>3, <1>4, <1>5 DEF Parts
    <3> QED BY <3>1, ConcatEmptySeq DEF Messages
  <2>2. 0 \in 0..n
    BY <1>2
  <2> HIDE DEF Left
  <2> QED BY <1>11, <2>1, <2>2
<1>13. r[n] = <<>>
  <2>1. n \in 0..n
    BY <1>2
  <2> HIDE DEF Left
  <2> QED BY <1>7, <1>11, <2>1
<1>14. ASSUME NEW j \in 1..n
       PROVE  r[j - 1] = LengthBytes(Len(ms[j])) \o (ms[j] \o r[j])
  <2>1. PICK u : u = LengthBytes(Len(ms[j])) \o (ms[j] \o r[j])
    OBVIOUS
  <2>2. j \in 0..n /\ j - 1 \in 0..n
    BY <1>2
  <2> HIDE DEF Left
  <2>3. Left(j - 1, u)
    BY <1>6, <1>10, <2>1, <2>2
  <2> QED BY <1>11, <2>1, <2>2, <2>3
<1>15. \A j \in 0..n : r[j] \in Messages
  BY <1>10
<1> QED BY <1>1, <1>5, <1>12, <1>13, <1>14, <1>15 DEF Rests

RestsOf(ms) == CHOOSE r : Rests(r, ms)

LEMMA RestsOfFacts ==
  ASSUME NEW ms \in Seq(Messages)
  PROVE  Rests(RestsOf(ms), ms)
BY RestsExist, Zenon DEF RestsOf

LEMMA CutJoined ==
  ASSUME NEW x, NEW y, NEW all, Joined(all, x, y)
  PROVE  /\ all \in Messages /\ Len(all) = Len(x) + Len(y)
         /\ SubSeq(all, 1, Len(x)) = x /\ SubSeq(all, Len(x) + 1, Len(all)) = y
<1>1. PICK s \in Seq(Byte), t \in Seq(Byte) : s = x /\ t = y
  BY DEF Joined, Messages
<1>2. PICK a, b : a = Len(s) /\ b = Len(t)
  OBVIOUS
<1>3. a \in Nat /\ b \in Nat
  BY <1>2
<1>4. /\ all \in Seq(Byte) /\ Len(all) = a + b
      /\ \A i \in 1..a + b : all[i] = IF i <= a THEN s[i] ELSE t[i - a]
  BY <1>1, <1>2, ConcatProperties DEF Joined
<1>5. PICK u, v : u = SubSeq(all, 1, a) /\ v = SubSeq(all, a + 1, a + b)
  OBVIOUS
<1>6. /\ u \in Seq(Byte) /\ Len(u) = a /\ \A i \in 1..a : u[i] = all[i]
      /\ v \in Seq(Byte) /\ Len(v) = b /\ \A i \in 1..b : v[i] = all[a + i]
  BY <1>3, <1>4, <1>5
<1>7. \A i \in 1..a : u[i] = s[i]
  BY <1>3, <1>4, <1>6
<1>8. \A i \in 1..b : v[i] = t[i]
  <2> TAKE i \in 1..b
  <2>1. a + i \in 1..a + b /\ ~(a + i <= a) /\ (a + i) - a = i
    BY <1>3
  <2> QED BY <1>4, <1>6, <2>1
<1>9. u = s /\ v = t
  BY <1>2, <1>6, <1>7, <1>8
<1> QED BY <1>1, <1>2, <1>4, <1>5, <1>9 DEF Messages

(* Whatever is left of an unsplit input begins with a whole length.        *)
LEMMA LengthReadIsWhole ==
  ASSUME NEW ms \in Seq(Messages), NEW j \in 1..Len(ms), Len(ms[j]) <= MaxLength
  PROVE  LET now == RestsOf(ms)[j - 1] IN
         /\ Len(now) >= 2
         /\ LengthOf(SubSeq(SubSeq(now, 1, 2) \o <<0>>, 1, 2)) = Len(ms[j])
         /\ SubSeq(now, 3, Len(now)) = ms[j] \o RestsOf(ms)[j]
<1>1. PICK now, r, m, l : /\ now = RestsOf(ms)[j - 1] /\ r = RestsOf(ms)[j]
                          /\ m = ms[j] /\ l = LengthBytes(Len(m))
  OBVIOUS
<1>2. r \in Messages /\ m \in Messages /\ now = l \o (m \o r)
  <2>1. PICK R : R = RestsOf(ms)
    OBVIOUS
  <2>2. Rests(R, ms)
    BY <2>1, RestsOfFacts
  <2>3. j \in 0..Len(ms)
    OBVIOUS
  <2>4. R[j] \in Messages /\ R[j - 1] = LengthBytes(Len(ms[j])) \o (ms[j] \o R[j])
    BY <2>2, <2>3 DEF Rests
  <2>5. ms[j] \in Messages
    OBVIOUS
  <2> QED BY <1>1, <2>1, <2>4, <2>5
<1>3. Len(m) \in 0..MaxLength
  BY <1>1, <1>2 DEF Messages
<1>4. l \in Messages /\ Len(l) = 2 /\ LengthOf(l) = Len(m)
  BY <1>1, <1>3, LengthOfBytes
<1>5. PICK mr : mr = m \o r
  OBVIOUS
<1>6. Joined(mr, m, r)
  BY <1>2, <1>5 DEF Joined
<1>7. mr \in Messages
  BY <1>6, CutJoined
<1>8. Joined(now, l, mr)
  BY <1>2, <1>4, <1>5, <1>7 DEF Joined
<1>9. /\ Len(now) = Len(l) + Len(mr) /\ SubSeq(now, 1, Len(l)) = l
      /\ SubSeq(now, Len(l) + 1, Len(now)) = mr
  BY <1>8, CutJoined
<1>10. Len(now) >= 2
  BY <1>4, <1>7, <1>9 DEF Messages
<1>11. PICK z, lz : z = <<0>> /\ lz = l \o z
  OBVIOUS
<1>12. z \in Messages
  BY <1>11, BaseAssumption DEF Messages, Byte
<1>13. Joined(lz, l, z)
  BY <1>4, <1>11, <1>12 DEF Joined
<1>14. SubSeq(lz, 1, Len(l)) = l
  BY <1>13, CutJoined
<1>15. SubSeq(now, 1, 2) = l /\ SubSeq(now, 3, Len(now)) = mr /\ SubSeq(lz, 1, 2) = l
  BY <1>4, <1>9, <1>14
<1>16. LengthOf(SubSeq(SubSeq(now, 1, 2) \o <<0>>, 1, 2)) = Len(m)
  BY <1>4, <1>11, <1>15
<1>17. SubSeq(now, 3, Len(now)) = m \o r
  BY <1>5, <1>15
<1> QED BY <1>1, <1>10, <1>16, <1>17

-----------------------------------------------------------------------------
(* The packets that may arrive, those waiting in the receiver's queue, the *)
(* ones that make it panic, and what it prints of the others.              *)
Packets == Foreign \cup {PacketOf(m) : m \in Messages}

Queued == {q \in [packet : Packets, early : BOOLEAN] :
             q.early \/ q.packet.type = "EchoRequest"}

Deadly == {q \in Queued : IF q.packet.type # "EchoRequest" THEN q.early
                          ELSE ~conf.rraw /\ (conf.sraw \/ q.packet \in Foreign)}

Printable == {p \in Packets : /\ ValidIcmp(p) /\ ~PayloadPanics(p.payload)
                              /\ conf.rraw \/ ValidPayload(p.payload)}

Form(p) == [head |-> HeadPrinted(p.payload), body |-> Body(conf.rraw, p.payload),
            from |-> p]

SenderOK ==
  /\ stdin \in Messages /\ msg \in Messages
  /\ inline \in Seq(Messages) /\ sent \in Seq(Messages)

DatagramInv ==
  /\ conf \in Configs
  /\ SenderOK
  /\ queue \in Seq(Queued)
  /\ fatal \subseteq Deadly
  /\ printed \in Seq({Form(p) : p \in Printable})

LEMMA PacketFacts ==
  ASSUME conf \in Configs, NEW p \in Packets
  PROVE  /\ \E S : p.payload \in Seq(S)
         /\ Len(p.payload) >= 4 => p.payload[3] \in Byte /\ p.payload[4] \in Byte
         /\ Len(p.payload) \in Nat
         /\ p \notin Foreign /\ ~conf.sraw => Len(p.payload) >= 4
<1>1. conf.sraw \in BOOLEAN
  BY ConfigsAssumption
<1>2. PICK x : x = p.payload
  OBVIOUS
<1>3. CASE x \in Seq(Byte)
  <2>1. Len(x) \in Nat /\ (Len(x) >= 4 => x[3] \in Byte /\ x[4] \in Byte)
    BY <1>3
  <2>2. p \notin Foreign /\ ~conf.sraw => Len(x) >= 4
    <3> SUFFICES ASSUME p \notin Foreign, ~conf.sraw PROVE Len(x) >= 4
      OBVIOUS
    <3>1. PICK m \in Messages : p = PacketOf(m)
      BY DEF Packets
    <3>2. x = Encode(FALSE, m)
      BY <1>1, <1>2, <3>1 DEF PacketOf, Encode
    <3>3. Len(x) = Len(m) + 4
      BY <3>2, EncodedFacts
    <3>4. Len(m) \in Nat
      BY DEF Messages
    <3> QED BY <3>3, <3>4
  <2> QED BY <1>2, <1>3, <2>1, <2>2
<1>4. CASE x \notin Seq(Byte)
  <2>1. p \notin Foreign
    BY <1>2, <1>4, ForeignAssumption
  <2>2. PICK m \in Messages : p = PacketOf(m)
    BY <2>1 DEF Packets
  <2>3. x = Encode(conf.sraw, m)
    BY <1>2, <2>2 DEF PacketOf
  <2>4. ~conf.sraw /\ x = Encode(FALSE, m)
    BY <1>1, <1>4, <2>3 DEF Encode, Messages
  <2>5. /\ \E S : x \in Seq(S)
        /\ Len(x) = Len(m) + 4 /\ x[3] \in Byte /\ x[4] \in Byte
    BY <2>4, EncodedFacts
  <2>6. Len(x) \in Nat /\ Len(x) >= 4
    <3>1. Len(m) \in Nat
      BY DEF Messages
    <3> QED BY <2>5, <3>1
  <2> QED BY <1>2, <2>5, <2>6
<1> QED BY <1>3, <1>4

LEMMA SenderTypes ==
  ASSUME SenderOK, SenderStep
  PROVE  SenderOK'
<1>1. stdin \in Seq(Byte) /\ msg \in Seq(Byte) /\ <<>> \in Messages
  BY DEF SenderOK, Messages
<1>2. CASE NextInline
  BY <1>2 DEF NextInline, SenderOK
<1>3. \A k \in Int : 0 <= k /\ k <= Len(stdin) =>
         SubSeq(stdin, 1, k) \in Messages /\ SubSeq(stdin, k + 1, Len(stdin)) \in Messages
  BY <1>1 DEF Messages
<1>4. CASE \E k \in 0..2 : ReadLength(k)
  <2>1. PICK k \in 0..2 : ReadLength(k)
    BY <1>4
  <2>2. k \in Int /\ 0 <= k /\ k <= Len(stdin)
    BY <2>1 DEF ReadLength
  <2>3. UNCHANGED <<msg, inline, sent>> /\ stdin' = SubSeq(stdin, k + 1, Len(stdin))
    BY <2>1 DEF ReadLength
  <2> QED BY <1>3, <2>2, <2>3 DEF SenderOK
<1>5. CASE \E k \in 0..MaxLength : ReadPayload(k)
  <2>1. PICK k \in 0..MaxLength : ReadPayload(k)
    BY <1>5
  <2>2. k \in Int /\ 0 <= k /\ k <= Len(stdin)
    BY <2>1 DEF ReadPayload
  <2>3. /\ UNCHANGED <<inline, sent>> /\ stdin' = SubSeq(stdin, k + 1, Len(stdin))
        /\ msg' \in {SubSeq(stdin, 1, k), <<>>}
    BY <2>1 DEF ReadPayload
  <2> QED BY <1>1, <1>3, <2>2, <2>3 DEF SenderOK
<1>6. CASE ReadInterrupted \/ CheckSignal \/ SendInterrupted \/ SendFails
  BY <1>1, <1>6 DEF ReadInterrupted, CheckSignal, SendInterrupted, SendFails, SenderOK
<1>7. CASE SendTo
  BY <1>1, <1>7 DEF SendTo, SenderOK
<1> QED BY <1>2, <1>4, <1>5, <1>6, <1>7 DEF SenderStep

LEMMA ReceivesFacts ==
  ASSUME conf \in Configs, queue \in Seq(Queued), fatal \subseteq Deadly,
         printed \in Seq({Form(p) : p \in Printable}), ReceiveFrom
  PROVE  /\ queue' \in Seq(Queued) /\ fatal' \subseteq Deadly
         /\ printed' \in Seq({Form(p) : p \in Printable})
<1>1. PICK q, p : q = Head(queue) /\ p = q.packet
  OBVIOUS
<1>2. q \in Queued /\ p \in Packets /\ Tail(queue) \in Seq(Queued)
  <2>1. q \in Queued /\ Tail(queue) \in Seq(Queued)
    BY <1>1 DEF ReceiveFrom
  <2> QED BY <1>1, <2>1 DEF Queued
<1>3. PICK panic \in BOOLEAN :
        panic <=> AssertFails(p) \/ (ValidIcmp(p) /\ PayloadPanics(p.payload))
  <2>1. \A x \in BOOLEAN : \E y \in BOOLEAN : y <=> x
    OBVIOUS
  <2> QED BY <2>1
<1>4. /\ queue' = Tail(queue)
      /\ fatal' = IF panic THEN {q} ELSE {}
      /\ IF ~panic /\ ValidIcmp(p) /\ (conf.rraw \/ ValidPayload(p.payload))
         THEN printed' = Append(printed, Form(p)) ELSE printed' = printed
  BY <1>1, <1>3 DEF ReceiveFrom, PrintMessage, Form
<1>5. ASSUME panic PROVE q \in Deadly
  <2>1. CASE AssertFails(p)
    BY <1>1, <1>2, <2>1 DEF AssertFails, Deadly, Queued
  <2>2. CASE ~AssertFails(p)
    <3>1. ~conf.rraw /\ ~(Len(p.payload) >= 4)
      <4>1. Len(p.payload) \in Nat
        BY <1>2, PacketFacts
      <4> QED BY <1>3, <1>5, <2>2, <4>1 DEF PayloadPanics
    <3>2. conf.sraw \/ p \in Foreign
      BY <1>2, <3>1, PacketFacts
    <3> QED BY <1>1, <1>2, <2>2, <3>1, <3>2 DEF AssertFails, Deadly
  <2> QED BY <2>1, <2>2
<1>6. ASSUME ~panic, ValidIcmp(p), conf.rraw \/ ValidPayload(p.payload)
      PROVE  Form(p) \in {Form(x) : x \in Printable}
  BY <1>2, <1>3, <1>6 DEF Printable
<1> QED BY <1>2, <1>4, <1>5, <1>6, SMTT(60)

LEMMA DatagramInvHolds == Spec => []DatagramInv
<1>1. Init => DatagramInv
  <2> SUFFICES ASSUME Init PROVE DatagramInv
    OBVIOUS
  <2>1. input \in Seq(Messages) /\ Framed(input) \in Messages
    <3>1. input \in Seq(Messages)
      BY InputsAssumption DEF Init, Messages
    <3>2. PICK r : r = RestsOf(input)
      OBVIOUS
    <3>3. Rests(r, input)
      BY <3>1, <3>2, RestsOfFacts
    <3>4. 0 \in 0..Len(input)
      BY <3>1
    <3> QED BY <3>1, <3>3, <3>4 DEF Rests
  <2>2. SenderOK
    BY <2>1 DEF Init, SenderOK, Messages
  <2> QED BY <2>2 DEF Init, DatagramInv
<1>2. DatagramInv /\ [Next]_vars => DatagramInv'
  <2> SUFFICES ASSUME DatagramInv, [Next]_vars PROVE DatagramInv'
    OBVIOUS
  <2>1. conf' = conf
    BY DEF Next, SenderStep, ReceiverStep, NextInline, ReadLength, ReadPayload,
           ReadInterrupted, CheckSignal, SendTo, SendInterrupted, SendFails, BindSocket,
           SetFilter, LoopTop, ReceiveFrom, ReceiveInterrupted, ReceiveFails, Returned,
           Arrive, Signal, Done, vars
  <2>2. /\ Queued' = Queued /\ Deadly' = Deadly
        /\ {Form(p) : p \in Printable}' = {Form(p) : p \in Printable}
    BY <2>1 DEF Queued, Deadly, Printable, Form, Packets, PacketOf, ValidIcmp,
                PayloadPanics, HeadPrinted
  <2>3. ASSUME SenderOK', queue' \in Seq(Queued), fatal' \subseteq Deadly,
               printed' \in Seq({Form(p) : p \in Printable})
        PROVE  DatagramInv'
    BY <2>1, <2>2, <2>3 DEF DatagramInv
  <2>4. CASE SenderStep
    <3>1. UNCHANGED receiver
      BY <2>4 DEF SenderStep, NextInline, ReadLength, ReadPayload, ReadInterrupted,
                  CheckSignal, SendTo, SendInterrupted, SendFails
    <3> QED BY <2>3, <2>4, <3>1, SenderTypes DEF DatagramInv, receiver
  <2>5. CASE ReceiveFrom
    <3>1. SenderOK'
      BY <2>5 DEF ReceiveFrom, sender, DatagramInv, SenderOK
    <3> QED BY <2>3, <2>5, <3>1, ReceivesFacts DEF DatagramInv
  <2>6. CASE BindSocket \/ SetFilter \/ LoopTop \/ ReceiveInterrupted \/ ReceiveFails
    <3>1. UNCHANGED <<sender, queue, printed, fatal>>
      BY <2>6 DEF BindSocket, SetFilter, LoopTop, ReceiveInterrupted, ReceiveFails
    <3> QED BY <2>3, <3>1 DEF DatagramInv, sender, SenderOK
  <2>7. CASE \E p \in {PacketOf(sent[i]) : i \in DOMAIN sent} \cup Foreign : Arrive(p)
    <3>1. PICK p \in {PacketOf(sent[i]) : i \in DOMAIN sent} \cup Foreign : Arrive(p)
      BY <2>7
    <3>2. p \in Packets
      BY DEF DatagramInv, SenderOK, Packets
    <3>3. PICK q : q = [packet |-> p, early |-> rpc \in {"unbound", "unfiltered"}]
      OBVIOUS
    <3>4. q \in Queued
      <4>1. q.packet = p /\ q.early = (rpc \in {"unbound", "unfiltered"})
        BY <3>3
      <4>2. q \in [packet : Packets, early : BOOLEAN]
        BY <3>2, <3>3
      <4>3. rpc \in {"unbound", "unfiltered"} \/ p.type = "EchoRequest"
        BY <3>1 DEF Arrive, Passes
      <4> QED BY <4>1, <4>2, <4>3 DEF Queued
    <3>5. queue' = Append(queue, q) /\ UNCHANGED <<sender, printed, fatal>>
      BY <3>1, <3>3 DEF Arrive
    <3> QED BY <2>3, <3>4, <3>5 DEF DatagramInv, sender, SenderOK
  <2>8. CASE \/ \E p \in Processes, wakes \in BOOLEAN : Signal(p, wakes)
             \/ UNCHANGED vars
    <3>1. UNCHANGED <<sender, receiver>>
      BY <2>8 DEF Signal, vars
    <3> QED BY <2>3, <3>1 DEF DatagramInv, sender, receiver, SenderOK
  <2> QED BY <2>4, <2>5, <2>6, <2>7, <2>8 DEF Next, ReceiverStep, Done
<1> QED BY <1>1, <1>2, PTL DEF Spec

(* For every option, input and packet of another program: what is printed  *)
(* is the message a packet carried, and for an address the receiver is     *)
(* bound to.                                                               *)
THEOREM PrintsOnlyMessages == Spec => []PrintedWasCarried
<1>1. DatagramInv => PrintedWasCarried
  <2> SUFFICES ASSUME DatagramInv, NEW i \in DOMAIN printed
               PROVE  /\ Encode(conf.rraw, printed[i].body) = printed[i].from.payload
                      /\ conf.bound => printed[i].from.here
    BY DEF PrintedWasCarried
  <2>1. PICK p \in Printable : printed[i] = Form(p)
    BY DEF DatagramInv
  <2>2. conf \in Configs /\ conf.rraw \in BOOLEAN /\ p \in Packets
    BY ConfigsAssumption DEF DatagramInv, Printable
  <2>3. PICK f : f = Form(p)
    OBVIOUS
  <2>4. f.body = Body(conf.rraw, p.payload) /\ f.from = p
    BY <2>3 DEF Form
  <2>5. conf.bound => p.here
    BY DEF Printable, ValidIcmp
  <2>6. Encode(conf.rraw, f.body) = p.payload
    <3>1. CASE conf.rraw
      BY <2>4, <3>1 DEF Body, Encode
    <3>2. CASE ~conf.rraw
      <4>1. Len(p.payload) \in Nat /\ ~(Len(p.payload) < 4) /\ ValidPayload(p.payload)
        BY <2>2, <3>2, PacketFacts DEF Printable, PayloadPanics
      <4>2. PICK S : p.payload \in Seq(S)
        BY <2>2, PacketFacts
      <4>3. Len(p.payload) >= 4
        BY <4>1
      <4>4. p.payload[3] \in Byte /\ p.payload[4] \in Byte
        BY <2>2, <4>3, PacketFacts
      <4>5. PICK x : x = p.payload
        OBVIOUS
      <4>6. /\ x \in Seq(S) /\ Len(x) >= 4 /\ x[3] \in Byte /\ x[4] \in Byte
            /\ ValidPayload(x)
        BY <4>1, <4>2, <4>3, <4>4, <4>5
      <4>7. Encode(FALSE, Body(FALSE, x)) = x
        BY ONLY <4>6, ValidMeansCarried
      <4>8. conf.rraw = FALSE
        BY <2>2, <3>2
      <4> QED BY <2>4, <4>5, <4>7, <4>8
    <3> QED BY <3>1, <3>2
  <2> QED BY <2>1, <2>3, <2>4, <2>5, <2>6
<1> QED BY <1>1, DatagramInvHolds, PTL

(* A receiver panics on a packet of another type only if it came before    *)
(* the filter, and never on a short one if both peers check payloads and   *)
(* the sender formed it.                                                   *)
THEOREM PanicsHaveACause == Spec => []OnlyEarlyOrShortPanic
<1>1. DatagramInv => OnlyEarlyOrShortPanic
  BY DEF DatagramInv, OnlyEarlyOrShortPanic, Deadly
<1> QED BY <1>1, DatagramInvHolds, PTL

-----------------------------------------------------------------------------
(* The order of what is sent.                                              *)

(* How far the sender has read its input: the bytes or the messages left   *)
(* are those after the j-th.                                               *)
ReadUpTo(j) ==
  IF conf.inline THEN inline = SubSeq(input, j + 1, Len(input))
  ELSE stdin = RestsOf(input)[j]

(* An interrupted sendto leaves a message out, but it leaves the flag up   *)
(* too, and the sender looks at it before the next one.                    *)
SentUpTo(j) == flag["sender"] \/ Len(sent) = j

(* The sender is at the j-th message.                                      *)
AtMessage(j) ==
  \/ spc = "next" /\ ReadUpTo(j) /\ SentUpTo(j)
  \/ /\ spc = "payload" /\ ~conf.inline /\ j > 0 /\ SentUpTo(j - 1)
     /\ want = Len(input[j]) /\ stdin = input[j] \o RestsOf(input)[j]
  \/ spc = "check" /\ ReadUpTo(j) /\ j > 0 /\ SentUpTo(j - 1) /\ msg = input[j]
  \/ spc = "sending" /\ ReadUpTo(j) /\ j > 0 /\ Len(sent) = j - 1 /\ msg = input[j]

InOrder ==
  /\ Len(sent) <= Len(input) /\ \A i \in 1..Len(sent) : sent[i] = input[i]
  /\ spc \in {"ended", "failed"} \/ \E j \in 0..Len(input) : AtMessage(j)

OrderInv ==
  /\ conf.inline \in BOOLEAN /\ input \in Seq(Messages)
  /\ ~conf.inline => \A j \in 1..Len(input) : Len(input[j]) <= MaxLength
  /\ woken \in [Processes -> BOOLEAN]
  /\ woken["sender"] => flag["sender"] /\ InCall("sender")
  /\ split \/ InOrder

LEMMA OrderInit ==
  ASSUME Init
  PROVE  OrderInv
<1>1. conf.inline \in BOOLEAN /\ input \in Seq(Messages)
  BY ConfigsAssumption, InputsAssumption DEF Init, Messages
<1>2. woken \in [Processes -> BOOLEAN] /\ ~woken["sender"]
  BY DEF Init, Processes
<1>3. ~conf.inline => \A j \in 1..Len(input) : Len(input[j]) <= MaxLength
  BY <1>1 DEF Init
<1>4. 0 \in 0..Len(input) /\ AtMessage(0)
  <2>1. ReadUpTo(0)
    <3>1. CASE conf.inline
      BY <1>1, <3>1, SubSeqFull DEF Init, ReadUpTo
    <3>2. CASE ~conf.inline
      BY <1>1, <3>2, RestsOfFacts DEF Init, ReadUpTo, Rests
    <3> QED BY <3>1, <3>2
  <2>2. spc = "next" /\ Len(sent) = 0
    BY DEF Init
  <2> QED BY <1>1, <2>1, <2>2 DEF AtMessage, SentUpTo
<1>5. InOrder
  <2>1. Len(sent) = 0
    BY DEF Init
  <2> QED BY <1>1, <1>4, <2>1 DEF InOrder
<1> QED BY <1>1, <1>2, <1>3, <1>5 DEF OrderInv

(* A step that leaves the sender where it is.                              *)
LEMMA OrderKept ==
  ASSUME OrderInv, UNCHANGED <<conf, sender>>, woken' \in [Processes -> BOOLEAN],
         flag["sender"] => flag'["sender"],
         woken'["sender"] => flag'["sender"] /\ InCall("sender")
  PROVE  OrderInv'
<1>1. RestsOf(input)' = RestsOf(input)
  BY DEF sender, RestsOf
<1>2. InCall("sender")' <=> InCall("sender")
  BY DEF sender, InCall
<1>3. \A j : AtMessage(j) => AtMessage(j)'
  BY <1>1 DEF sender, AtMessage, ReadUpTo, SentUpTo
<1>4. InOrder => InOrder'
  BY <1>3 DEF sender, InOrder
<1> QED BY <1>2, <1>4 DEF sender, OrderInv

(* A step that ends the sender, or finds it where the order is lost.       *)
LEMMA OrderMoves ==
  ASSUME OrderInv, UNCHANGED <<conf, input>>, split => split',
         woken' \in [Processes -> BOOLEAN],
         woken'["sender"] => flag'["sender"] /\ InCall("sender")',
         InOrder => split' \/ InOrder'
  PROVE  OrderInv'
BY DEF OrderInv

LEMMA OrderEnds ==
  ASSUME InOrder, UNCHANGED <<input, sent>>, spc' \in {"ended", "failed"}
  PROVE  InOrder'
BY DEF InOrder

LEMMA OrderReads ==
  ASSUME OrderInv, InOrder,
         NextInline \/ (\E k \in 0..2 : ReadLength(k)) \/ (\E k \in 0..MaxLength : ReadPayload(k))
  PROVE  split' \/ InOrder'
<1>1. UNCHANGED <<conf, input, sent, flag>>
  BY DEF NextInline, ReadLength, ReadPayload, Returned, signal
<1>2. RestsOf(input)' = RestsOf(input)
  BY <1>1 DEF RestsOf
<1>3. SUFFICES ASSUME ~split', spc' \notin {"ended", "failed"}
               PROVE  \E j \in 0..Len(input) : AtMessage(j)'
  BY <1>1 DEF InOrder
<1>4. conf.inline \in BOOLEAN /\ input \in Seq(Messages) /\ Len(input) \in Nat
  BY DEF OrderInv
<1>5. PICK j \in 0..Len(input) : AtMessage(j)
  BY DEF InOrder, NextInline, ReadLength, ReadPayload
<1>6. CASE NextInline
  <2>1. /\ inline # <<>> /\ spc' = "check" /\ msg' = Head(inline) /\ inline' = Tail(inline)
        /\ conf.inline /\ inline = SubSeq(input, j + 1, Len(input)) /\ SentUpTo(j)
    BY <1>3, <1>5, <1>6 DEF NextInline, AtMessage, ReadUpTo
  <2>2. PICK n, k : n = Len(input) /\ k = j + 1
    OBVIOUS
  <2>3. k \in 1..n
    <3>1. j < n
      <4> SUFFICES ASSUME ~(j < n) PROVE FALSE
        OBVIOUS
      <4>1. n < j + 1
        BY <1>4, <2>2
      <4> QED BY <1>4, <2>1, <2>2, <4>1, SubSeqEmpty
    <3> QED BY <1>4, <2>2, <3>1
  <2>4. Head(inline) = input[k] /\ Tail(inline) = SubSeq(input, k + 1, n)
    <3>1. inline = SubSeq(input, k, n)
      BY <2>1, <2>2
    <3>2. k \in 1..Len(input) /\ n \in k..Len(input)
      BY <1>4, <2>2, <2>3
    <3> QED BY <1>4, <3>1, <3>2, HeadTailOfSubSeq
  <2>5. k - 1 = j /\ k > 0 /\ k \in 0..Len(input)
    BY <2>2, <2>3
  <2>6. AtMessage(k)'
    BY <1>1, <2>1, <2>2, <2>4, <2>5 DEF AtMessage, ReadUpTo, SentUpTo
  <2> QED BY <2>5, <2>6
<1>7. ASSUME NEW k \in 0..2, ReadLength(k) PROVE \E i \in 0..Len(input) : AtMessage(i)'
  <2>1. /\ k = 2 /\ ~conf.inline /\ spc' = "payload" /\ 2 <= Len(stdin)
        /\ want' = LengthOf(SubSeq(SubSeq(stdin, 1, 2) \o <<0>>, 1, 2))
        /\ stdin' = SubSeq(stdin, 3, Len(stdin))
        /\ stdin = RestsOf(input)[j] /\ SentUpTo(j)
    <3>1. k # 0 /\ k # 1
      BY <1>3, <1>7 DEF ReadLength
    <3>2. k = 2
      BY <3>1
    <3> QED BY <1>3, <1>5, <1>7, <3>2 DEF ReadLength, AtMessage, ReadUpTo
  <2>2. PICK n, i : n = Len(input) /\ i = j + 1
    OBVIOUS
  <2>3. i \in 1..n
    <3>1. j # n
      <4> SUFFICES ASSUME j = n PROVE FALSE
        OBVIOUS
      <4>1. stdin = <<>>
        BY <1>4, <2>1, <2>2, RestsOfFacts DEF Rests
      <4> QED BY <2>1, <4>1
    <3> QED BY <1>4, <2>2, <3>1
  <2>4. Len(input[i]) <= MaxLength
    BY <2>1, <2>2, <2>3 DEF OrderInv
  <2>5. i - 1 = j /\ i > 0 /\ i \in 0..Len(input) /\ i \in 1..Len(input)
    BY <2>2, <2>3
  <2>6. want' = Len(input[i]) /\ stdin' = input[i] \o RestsOf(input)[i]
    BY <1>4, <2>1, <2>4, <2>5, LengthReadIsWhole
  <2>7. AtMessage(i)'
    BY <1>1, <1>2, <2>1, <2>5, <2>6 DEF AtMessage, SentUpTo
  <2> QED BY <2>5, <2>7
<1>8. ASSUME NEW k \in 0..MaxLength, ReadPayload(k)
      PROVE  \E i \in 0..Len(input) : AtMessage(i)'
  <2>1. /\ k = want /\ spc' = "check" /\ msg' = SubSeq(stdin, 1, k)
        /\ stdin' = SubSeq(stdin, k + 1, Len(stdin))
        /\ ~conf.inline /\ j > 0 /\ SentUpTo(j - 1)
        /\ want = Len(input[j]) /\ stdin = input[j] \o RestsOf(input)[j]
    BY <1>3, <1>5, <1>8 DEF ReadPayload, AtMessage
  <2>2. PICK m, r : m = input[j] /\ r = RestsOf(input)[j]
    OBVIOUS
  <2>3. m \in Messages /\ r \in Messages
    <3>1. PICK ms : ms = input
      OBVIOUS
    <3>2. ms \in Seq(Messages) /\ Rests(RestsOf(ms), ms)
      BY <1>4, <3>1, RestsOfFacts
    <3>3. j \in 1..Len(ms)
      BY <2>1, <3>1
    <3>4. ms[j] \in Messages /\ RestsOf(ms)[j] \in Messages
      BY <3>2, <3>3 DEF Rests
    <3> QED BY <2>2, <3>1, <3>4
  <2>4. Joined(stdin, m, r)
    BY <2>1, <2>2, <2>3 DEF Joined
  <2>5. msg' = m /\ stdin' = r
    <3>1. SubSeq(stdin, 1, Len(m)) = m /\ SubSeq(stdin, Len(m) + 1, Len(stdin)) = r
      BY <2>4, CutJoined
    <3>2. k = Len(m)
      BY <2>1, <2>2
    <3> QED BY <2>1, <3>1, <3>2
  <2>6. AtMessage(j)'
    BY <1>1, <1>2, <2>1, <2>2, <2>5 DEF AtMessage, ReadUpTo, SentUpTo
  <2> QED BY <2>6
<1> QED BY <1>6, <1>7, <1>8

LEMMA OrderSends ==
  ASSUME OrderInv, InOrder, sent \in Seq(Messages), flag \in [Processes -> BOOLEAN],
         CheckSignal \/ SendTo \/ SendInterrupted
  PROVE  InOrder'
<1>1. UNCHANGED <<conf, input, stdin, inline>>
  BY DEF CheckSignal, SendTo, SendInterrupted, Returned
<1>2. RestsOf(input)' = RestsOf(input)
  BY <1>1 DEF RestsOf
<1>3. \A j : ReadUpTo(j)' <=> ReadUpTo(j)
  BY <1>1, <1>2 DEF ReadUpTo
<1>4. input \in Seq(Messages) /\ Len(input) \in Nat
  BY DEF OrderInv
<1>5. PICK j \in 0..Len(input) : AtMessage(j)
  BY DEF InOrder, CheckSignal, SendTo, SendInterrupted
<1>6. j \in 1..Len(input) /\ ReadUpTo(j) /\ msg = input[j]
  <2>1. spc \in {"check", "sending"}
    BY DEF CheckSignal, SendTo, SendInterrupted
  <2>2. j > 0 /\ ReadUpTo(j) /\ msg = input[j]
    BY <1>5, <2>1 DEF AtMessage
  <2>3. j \in 1..Len(input)
    BY <1>4, <2>2
  <2> QED BY <2>2, <2>3
<1>7. CASE CheckSignal
  <2>1. /\ spc = "check" /\ SentUpTo(j - 1) /\ UNCHANGED <<sent, msg>>
        /\ spc' \in {"ended", "failed"} \/ (spc' = "sending" /\ ~flag["sender"])
    BY <1>5, <1>7 DEF CheckSignal, AtMessage
  <2>2. spc' \in {"ended", "failed"} \/ AtMessage(j)'
    <3> SUFFICES ASSUME spc' \notin {"ended", "failed"} PROVE AtMessage(j)'
      OBVIOUS
    <3>1. spc' = "sending" /\ Len(sent) = j - 1
      BY <2>1 DEF SentUpTo
    <3>2. j > 0 /\ ReadUpTo(j)' /\ msg' = input'[j] /\ Len(sent') = j - 1
      BY <1>1, <1>3, <1>6, <2>1, <3>1
    <3> QED BY <3>1, <3>2 DEF AtMessage
  <2> QED BY <1>1, <1>5, <2>1, <2>2 DEF InOrder
<1>8. CASE SendTo
  <2>1. /\ spc = "sending" /\ spc' = "next" /\ sent' = Append(sent, msg) /\ flag' = flag
        /\ Len(sent) = j - 1
    BY <1>5, <1>8 DEF SendTo, Returned, AtMessage
  <2>2. Len(sent') = j /\ sent'[j] = input[j] /\ \A i \in 1..j - 1 : sent'[i] = sent[i]
    BY <1>6, <2>1
  <2>3. \A i \in 1..j : sent'[i] = input[i]
    <3> TAKE i \in 1..j
    <3>1. CASE i = j
      BY <2>2, <3>1
    <3>2. CASE i # j
      <4>1. i \in 1..j - 1
        BY <3>2
      <4> QED BY <2>1, <2>2, <4>1 DEF InOrder
    <3> QED BY <3>1, <3>2
  <2>4. AtMessage(j)'
    BY <1>3, <1>6, <2>1, <2>2 DEF AtMessage, SentUpTo
  <2> QED BY <1>1, <1>5, <2>2, <2>3, <2>4 DEF InOrder
<1>9. CASE SendInterrupted
  <2>1. spc = "sending" /\ spc' = "next" /\ UNCHANGED <<sent, flag>> /\ woken["sender"]
    BY <1>9 DEF SendInterrupted, Returned
  <2>2. AtMessage(j)'
    BY <1>3, <1>6, <2>1 DEF AtMessage, SentUpTo, OrderInv
  <2> QED BY <1>1, <1>5, <2>1, <2>2 DEF InOrder
<1> QED BY <1>7, <1>8, <1>9

LEMMA OrderInvHolds == Spec => []OrderInv
<1>1. Init => OrderInv
  BY OrderInit
<1>2. OrderInv /\ SignalInv /\ DatagramInv /\ [Next]_vars => OrderInv'
  <2> SUFFICES ASSUME OrderInv, SignalInv, DatagramInv, [Next]_vars PROVE OrderInv'
    OBVIOUS
  <2>1. flag \in [Processes -> BOOLEAN] /\ woken \in [Processes -> BOOLEAN]
        /\ sent \in Seq(Messages) /\ "sender" \in Processes /\ "receiver" \in Processes
    BY DEF OrderInv, SignalInv, DatagramInv, SenderOK, Processes
  <2>2. CASE SenderStep
    <3>1. UNCHANGED <<conf, input>> /\ (split => split')
      <4>1. CASE \E k \in 0..2 : ReadLength(k)
        BY <4>1 DEF ReadLength, Returned
      <4>2. CASE \E k \in 0..MaxLength : ReadPayload(k)
        BY <4>2 DEF ReadPayload, Returned
      <4>3. CASE NextInline \/ ReadInterrupted \/ CheckSignal
        BY <4>3 DEF NextInline, ReadInterrupted, CheckSignal, Returned
      <4>4. CASE SendTo \/ SendInterrupted \/ SendFails
        BY <4>4 DEF SendTo, SendInterrupted, SendFails, Returned
      <4> QED BY <2>2, <4>1, <4>2, <4>3, <4>4 DEF SenderStep
    <3>2. woken' \in [Processes -> BOOLEAN] /\ ~woken'["sender"]
      <4>1. CASE NextInline \/ CheckSignal
        <5>1. ~InCall("sender") /\ woken' = woken
          BY <4>1 DEF NextInline, CheckSignal, signal, InCall
        <5> QED BY <2>1, <5>1 DEF OrderInv
      <4>2. CASE Returned("sender")
        BY <2>1, <4>2 DEF Returned
      <4> QED BY <2>2, <4>1, <4>2 DEF SenderStep, ReadLength, ReadPayload,
                  ReadInterrupted, SendTo, SendInterrupted, SendFails
    <3>3. ASSUME InOrder PROVE split' \/ InOrder'
      <4>1. CASE ReadInterrupted \/ SendFails
        BY <3>3, <4>1, OrderEnds DEF ReadInterrupted, SendFails
      <4> QED BY <2>1, <2>2, <3>3, <4>1, OrderReads, OrderSends DEF SenderStep
    <3> QED BY <3>1, <3>2, <3>3, OrderMoves
  <2>3. CASE ReceiverStep
    <3>1. UNCHANGED <<conf, sender>>
      BY <2>3 DEF ReceiverStep, BindSocket, SetFilter, LoopTop, ReceiveFrom,
                  ReceiveInterrupted, ReceiveFails, Returned
    <3>2. /\ woken' = woken \/ woken' = [woken EXCEPT !["receiver"] = FALSE]
          /\ flag' = flag \/ flag' = [flag EXCEPT !["receiver"] = FALSE]
      BY <2>3 DEF ReceiverStep, BindSocket, SetFilter, LoopTop, ReceiveFrom,
                  ReceiveInterrupted, ReceiveFails, Returned, signal
    <3>3. /\ woken' \in [Processes -> BOOLEAN] /\ woken'["sender"] = woken["sender"]
          /\ flag'["sender"] = flag["sender"]
      BY <2>1, <3>2
    <3> QED BY <3>1, <3>3, OrderKept DEF OrderInv
  <2>4. CASE \E p : Arrive(p)
    BY <2>1, <2>4, OrderKept DEF Arrive, signal, OrderInv
  <2>5. ASSUME NEW p \in Processes, NEW wakes \in BOOLEAN, Signal(p, wakes)
        PROVE  OrderInv'
    <3>1. UNCHANGED <<conf, sender>>
      BY <2>5 DEF Signal
    <3>2. woken' \in [Processes -> BOOLEAN] /\ (flag["sender"] => flag'["sender"])
      BY <2>1, <2>5 DEF Signal
    <3>3. woken'["sender"] => flag'["sender"] /\ InCall("sender")
      BY <2>1, <2>5 DEF Signal, OrderInv
    <3> QED BY <3>1, <3>2, <3>3, OrderKept
  <2>6. CASE UNCHANGED vars
    BY <2>1, <2>6, OrderKept DEF vars, signal, OrderInv
  <2> QED BY <2>2, <2>3, <2>4, <2>5, <2>6 DEF Next, Done
<1> QED BY <1>1, <1>2, SignalInvHolds, DatagramInvHolds, PTL DEF Spec

(* For every input whose messages fit their lengths and any number of      *)
(* signals: what is sent is the beginning of the input, unless a read      *)
(* split a length.                                                         *)
THEOREM MessagesGoOutInOrder == Spec => []SentInOrder
<1>1. OrderInv /\ DatagramInv => SentInOrder
  <2> SUFFICES ASSUME OrderInv, DatagramInv, InOrder PROVE IsPrefix(sent, input)
    BY DEF OrderInv, SentInOrder
  <2>1. sent \in Seq(Messages) /\ input \in Seq(Messages)
    BY DEF OrderInv, DatagramInv, SenderOK
  <2>2. Len(sent) <= Len(input) /\ \A i \in 1..Len(sent) : sent[i] = input[i]
    BY DEF InOrder
  <2>3. SubSeq(sent, 1, Len(sent)) = SubSeq(input, 1, Len(sent))
    BY <2>1, <2>2
  <2> QED BY <2>2, <2>3 DEF IsPrefix
<1> QED BY <1>1, OrderInvHolds, DatagramInvHolds, PTL
=============================================================================
