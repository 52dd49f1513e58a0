------------------------------- MODULE IcmpNet ------------------------------
(***************************************************************************)
(* The network between ping6-datasend and ping6-datarecv and the packets   *)
(* of the stream protocol.  ICMPv6 echo packets may be lost, duplicated    *)
(* and reordered: c2s and s2c only grow, and a receive takes any packet    *)
(* ever sent, any number of times or never.                                *)
(***************************************************************************)
EXTENDS SeqnoOps, Sequences

VARIABLES
  c2s,   \* client (ping6-datasend) to server packets put on the wire
  s2c    \* server (ping6-datarecv) to client packets put on the wire

netVars == <<c2s, s2c>>

(* Packets: flags is the set of StreamPacketFlags set, the payload the     *)
(* sequence of input cells carried.                                        *)
ToServer(flags, seqno, payload) ==
  [flags |-> flags, seqno |-> seqno, payload |-> payload]

ToClient(flags, lo, hi) == [flags |-> flags, lo |-> lo, hi |-> hi]

NetInit == c2s = {} /\ s2c = {}
=============================================================================
