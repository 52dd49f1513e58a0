----------------------------- MODULE MCNdpFilter ----------------------------
(***************************************************************************)
(* Addresses, prefixes and packets to check NdpFilter with.                *)
(***************************************************************************)
EXTENDS NdpFilter

(* 2001:db8:n::h:l *)
Host(n, h, l) == <<8193, 3512, n, 0, 0, 0, h, l>>
AllNodes == <<65282, 0, 0, 0, 0, 0, 0, 1>>

Wide   == [net |-> Host(1, 0, 0), mask |-> 64]
Narrow == [net |-> Host(2, 1, 32), mask |-> 123]
Host8  == [net |-> Host(2, 1, 0), mask |-> 120]

MCPrefixLists == {<<Wide>>, <<Narrow>>, <<Wide, Narrow>>, <<Narrow, Host8>>, <<Host8, Narrow>>}

Sources == {Unspecified, Host(9, 0, 1), Host(1, 0, 9), Host(2, 1, 40), Host(2, 1, 200)}
Targets == {Host(1, 0, 5), Host(2, 1, 45), Host(2, 1, 100), Host(8, 0, 1), AllNodes}
Destinations ==
  {make_solicited_node_multicast(t) : t \in Targets} \cup Targets
    \cup {<<8193, 3512, 2, 1, 1, 2, 3, 4>>}

Option(s, l) == [source |-> s, length |-> l]
OptionLists ==
  {<<>>, <<Option(TRUE, 1)>>, <<Option(TRUE, 2)>>, <<Option(FALSE, 1)>>,
   <<Option(TRUE, 1), Option(TRUE, 1)>>}

MCPackets ==
  [src : Sources, dst : Destinations, target : Targets, type : {"NeighborSolicit", "Other"},
   code : {0, 1}, checksum : BOOLEAN, len : {23, 24}, options : OptionLists]
=============================================================================
