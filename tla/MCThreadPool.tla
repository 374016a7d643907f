---------------------------- MODULE MCThreadPool ----------------------------
(***************************************************************************)
(* An instance of ThreadPool with three clients.                           *)
(***************************************************************************)
EXTENDS ThreadPool

CONSTANTS c1, c2, c3

ThreeClients == {c1, c2, c3}
=============================================================================
