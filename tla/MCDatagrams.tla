---------------------------- MODULE MCDatagrams -----------------------------
(***************************************************************************)
(* Datagrams with lengths of up to three bytes: an input whose lengths     *)
(* have both bytes set and can be split, one with an empty and a longest   *)
(* message, and one message that is too long to be framed.                 *)
(***************************************************************************)
EXTENDS Datagrams

(* Every mix of checked and raw, binary and text, bound and not; the three *)
(* pairs of independent options are not all crossed.                       *)
MCConfigs ==
  {c \in [inline : BOOLEAN, sraw : BOOLEAN, rraw : BOOLEAN,
          binary : BOOLEAN, bound : BOOLEAN] : c.binary # c.bound /\ c.inline = c.rraw}

MCInputs ==
  {<< <<0, 1>>, <<1>> >>, << <<>>, <<1, 1, 1>> >>, << <<1, 0, 1, 0>> >>}

Echo(payload) ==
  [type |-> "EchoRequest", code |-> 0, here |-> TRUE, payload |-> payload]

(* A packet of another type, one for another address, a short one with a   *)
(* code, and one with the checksum of its body but another length.         *)
MCForeign ==
  {[Echo(Encode(FALSE, <<1>>)) EXCEPT !.type = "EchoReply"],
   [Echo(Encode(FALSE, <<1>>)) EXCEPT !.here = FALSE],
   [Echo(<<1>>) EXCEPT !.code = 1],
   Echo(Checksum(<<1>>) \o <<1, 0>> \o <<1>>)}
=============================================================================
