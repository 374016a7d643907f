--------------------------- MODULE MessageChannel ---------------------------
(***************************************************************************)
(* What a gateway that tunnels Messages through packets promises: the      *)
(* receiver gets whole Messages that were sent and, over a network that is *)
(* kind enough, in the order they were sent and none of them twice.        *)
(***************************************************************************)
EXTENDS Naturals, Sequences

VARIABLES
  sent,     \* how many Messages the sender was given
  got,      \* the numbers of the Messages that were received
  ordered   \* whether the network is that kind

vars == <<sent, got, ordered>>

Init == sent = 0 /\ got = <<>> /\ ordered \in BOOLEAN

Send ==
  /\ sent' = sent + 1
  /\ UNCHANGED <<got, ordered>>

Receive ==
  /\ \E msg \in 1 .. sent :
       /\ ordered /\ got # <<>> => msg > got[Len(got)]
       /\ got' = Append(got, msg)
  /\ UNCHANGED <<sent, ordered>>

Spec == Init /\ [][Send \/ Receive]_vars
=============================================================================
