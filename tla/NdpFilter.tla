------------------------------ MODULE NdpFilter -----------------------------
(***************************************************************************)
(* Which packets rsndpproxy answers: the socket filter, Solicitation::     *)
(* parse (src/packet.rs) and the checks of make_input_stream and of the    *)
(* two validate functions (src/server.rs), as functions of a packet and of *)
(* the interface's prefixes.  The machine takes one packet.                *)
(*                                                                         *)
(* An address is the sequence of its eight 16-bit segments; a prefix is    *)
(* [net |-> an address, mask |-> its length].                              *)
(***************************************************************************)
EXTENDS Integers, Sequences

CONSTANTS
  Packets,       \* the packets that may arrive
  PrefixLists    \* the configurations: sequences of prefixes

SegmentSize == 65536
ByteSize == 256
Address == [1..8 -> 0..SegmentSize - 1]

ASSUME NdpFilterAssumption ==
  /\ \A p \in Packets : p.target \in Address
  /\ \A list \in PrefixLists : list \in Seq([net : Address, mask : 0..128])

VARIABLES packet, prefixes, answeredBy

filterVars == <<packet, prefixes, answeredBy>>

-----------------------------------------------------------------------------
(* Addresses.                                                              *)

Unspecified == [i \in 1..8 |-> 0]

IsMulticast(a) == a[1] \div ByteSize = 255

(* util.rs: the segments are numbered from 0 there.                        *)
is_solicited_node_multicast(a) ==
  \/ a[1] = 65282
  \/ \E i \in 2..5 : a[i] = 0
  \/ a[6] = 1
  \/ a[7] \div ByteSize = 255

make_solicited_node_multicast(a) ==
  <<65282, 0, 0, 0, 0, 1, 65280 + (a[7] % ByteSize), a[8]>>

(* The bits of segment i that a mask covers, and Ipv6Network::contains.    *)
Covered(mask, i) ==
  IF mask >= 16 * i THEN 16 ELSE IF mask <= 16 * (i - 1) THEN 0 ELSE mask - 16 * (i - 1)

Contains(prefix, a) ==
  \A i \in 1..8 :
     LET unit == 2 ^ (16 - Covered(prefix.mask, i))
     IN  a[i] \div unit = prefix.net[i] \div unit

-----------------------------------------------------------------------------
(* What arrives.  A packet is a record of its source, destination, ICMPv6  *)
(* type, code, length, whether its checksum is right, the target and the   *)
(* options, each [source |-> it is a SourceLLAddr, length |-> in 8 bytes]. *)

(* The filter attached to the packet socket.                               *)
PassesSocket(p) == p.type = "NeighborSolicit"

SourceOptions(p) == {i \in DOMAIN p.options : p.options[i].source}

(* Solicitation::parse.                                                    *)
Parses(p) ==
  /\ p.type = "NeighborSolicit" /\ p.code = 0 /\ p.checksum
  /\ p.len >= 24
  /\ ~IsMulticast(p.target)
  /\ ~(p.src = Unspecified \/ ~is_solicited_node_multicast(p.dst))
  /\ \A i, j \in SourceOptions(p) : i = j
  /\ \A i \in SourceOptions(p) : p.options[i].length = 1
  /\ p.src = Unspecified => SourceOptions(p) = {}

(* The loop of make_input_stream: the prefixes the packet crosses into, of *)
(* which the first is taken, unless the packet is an address detection.    *)
Crosses_AnySource(p, prefix) == Contains(prefix, p.target)   \* mutant
Crosses(p, prefix) == ~Contains(prefix, p.src) /\ Contains(prefix, p.target)

Matching(p, list) == {i \in DOMAIN list : Crosses(p, list[i])}

PrefixOf(p, list) ==
  IF p.src = Unspecified THEN {}
  ELSE {i \in Matching(p, list) : \A j \in Matching(p, list) : i <= j}

(* The low 24 bits that a prefix longer than 104 bits and a                *)
(* solicited-node address have in common.                                  *)
GetBits_Unshifted(a, mask) == (a[7] % ByteSize) * SegmentSize + a[8]   \* mutant
GetBits(a, mask) == ((a[7] % ByteSize) * SegmentSize + a[8]) \div 2 ^ (128 - mask)

IsAddressResolution(p, prefix) ==
  /\ is_solicited_node_multicast(p.dst)
  /\ SourceOptions(p) # {}
  /\ prefix.mask > 104 =>
       GetBits(p.dst, prefix.mask) = GetBits(prefix.net, prefix.mask)

IsUnreachabilityDetection(p, prefix) ==
  ~is_solicited_node_multicast(p.dst) /\ Contains(prefix, p.dst)

(* The prefix on whose behalf a packet is answered, in a set, or none.     *)
Answered(p, list) ==
  IF PassesSocket(p) /\ Parses(p)
  THEN {i \in PrefixOf(p, list) : \/ IsAddressResolution(p, list[i])
                                  \/ IsUnreachabilityDetection(p, list[i])}
  ELSE {}

-----------------------------------------------------------------------------
Pending == {0}

FilterInit ==
  /\ packet \in Packets
  /\ prefixes \in PrefixLists
  /\ answeredBy = Pending

Receive ==
  /\ answeredBy = Pending
  /\ answeredBy' = Answered(packet, prefixes)
  /\ UNCHANGED <<packet, prefixes>>

FilterSpec == FilterInit /\ [][Receive]_filterVars

-----------------------------------------------------------------------------
(* RFC 4861, section 7.1.1 (the code names 6.1.1, of routers'), but        *)
(* for the lengths of the options and the hop limit of 255, which nothing  *)
(* in the program looks at: the proxy answers solicitations that have come *)
(* through a router.  All 48 bits of the address are looked at.            *)
IsSolicitedNode(a) == \E low \in {a[7] % ByteSize} : a = <<65282, 0, 0, 0, 0, 1, 65280 + low, a[8]>>

RfcValid(p) ==
  /\ p.checksum /\ p.code = 0 /\ p.len >= 24 /\ ~IsMulticast(p.target)
  /\ p.src = Unspecified => IsSolicitedNode(p.dst) /\ SourceOptions(p) = {}

(* What is answered is a valid solicitation, whatever its hop limit, that  *)
(* crosses the proxy: it asks for an address of the prefix from outside of *)
(* it.                                                                     *)
AnswersOnlyAcross ==
  \A i \in answeredBy \ Pending :
     /\ RfcValid(packet)
     /\ Contains(prefixes[i], packet.target)
     /\ ~Contains(prefixes[i], packet.src)

(* An address resolution as RFC 4861 sends it is answered, whatever the    *)
(* length of the prefix: the comparison of the low bits for prefixes       *)
(* longer than 104 never turns one away.                                   *)
ResolutionsAreAnswered ==
  /\ answeredBy # Pending
  /\ packet.type = "NeighborSolicit" /\ RfcValid(packet)
  /\ packet.src # Unspecified
  /\ packet.dst = make_solicited_node_multicast(packet.target)
  /\ packet.options = <<[source |-> TRUE, length |-> 1]>>
  /\ \E i \in DOMAIN prefixes : Contains(prefixes[i], packet.target)
  /\ \A i \in DOMAIN prefixes : ~Contains(prefixes[i], packet.src)
  => answeredBy # {}
=============================================================================
