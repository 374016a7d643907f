------------------------- MODULE MCThreadMessaging --------------------------
(***************************************************************************)
(* An instance of ThreadMessaging.                                         *)
(***************************************************************************)
EXTENDS ThreadMessaging
=============================================================================
