-------------------------- MODULE MCReflectServer ---------------------------
(***************************************************************************)
(* An instance of ReflectServer.                                           *)
(***************************************************************************)
EXTENDS ReflectServer
=============================================================================
