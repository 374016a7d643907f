--------------------------- MODULE MCPacketTunnel ---------------------------
(***************************************************************************)
(* Instances of PacketTunnel.  With packets of four units and headers of   *)
(* one, a Message of seven bytes takes three packets; the third has room   *)
(* for the start of the next Message.                                      *)
(***************************************************************************)
EXTENDS PacketTunnel

Sizes == <<7, 4, 1, 1>>
AnyFaults == {{}, {"lose", "duplicate"}, {"lose", "crowd"},
              {"lose", "duplicate", "reorder", "crowd"}}
NoFaults == {{}}
=============================================================================
