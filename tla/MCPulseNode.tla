---------------------------- MODULE MCPulseNode -----------------------------
(***************************************************************************)
(* An instance of PulseNode: one root and two further nodes, which form    *)
(* chains and fans below it.                                               *)
(***************************************************************************)
EXTENDS PulseNode

CONSTANTS r1, n1, n2

Nodes   == {r1, n1, n2}
OneRoot == <<r1>>
=============================================================================
