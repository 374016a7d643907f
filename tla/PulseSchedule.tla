--------------------------- MODULE PulseSchedule ----------------------------
(***************************************************************************)
(* What PulseNodes promise: an alarm clock without trees, lists or walks.  *)
(* Each member wants to be woken at a time, or has yet to be asked.        *)
(***************************************************************************)
EXTENDS Naturals

CONSTANTS Node, MaxTime

Ask == MaxTime + 2       \* the node has to be asked when it wants its pulse
Never == MaxTime + 1

VARIABLES
  member,   \* the nodes the event loop looks after
  want,     \* when each node wants to be pulsed next
  ringing,  \* the node whose Pulse() is being called, if any
  asleep,   \* whether the event loop waits
  wake,     \* the time until which it waits
  clock,
  running,  \* whether the event loop has been started
  turns     \* how often the user has had a turn since: the loop takes none

vars == <<member, want, ringing, asleep, wake, clock, running, turns>>

Init ==
  /\ member \in SUBSET Node /\ want = [n \in Node |-> Ask] /\ ringing = {}
  /\ ~ asleep /\ wake = 0 /\ clock = 0
  /\ running = FALSE /\ turns = 0

Start ==
  /\ ~ running /\ running' = TRUE
  /\ UNCHANGED <<member, want, ringing, asleep, wake, clock, turns>>

(* A turn of the user: nodes join and leave, and take back what they asked *)
(* for.  No other step lets a node be forgotten.                           *)
Change ==
  /\ ~ asleep
  /\ turns' = IF running THEN turns + 1 ELSE turns
  /\ member' \in SUBSET Node
  /\ want' \in [Node -> 0 .. Ask]
  /\ \A n \in Node : want'[n] \in {want[n], Ask}
  /\ UNCHANGED <<ringing, asleep, wake, clock, running>>

(* The steps of the loop: a node is asked and says when it wants its pulse.*)
Request(n, t) ==
  /\ running /\ ~ asleep /\ ringing = {} /\ want[n] = Ask
  /\ want' = [want EXCEPT ![n] = t]
  /\ UNCHANGED <<member, ringing, asleep, wake, clock, running, turns>>

(* Pulse() is called on a node that is due, and on no other.               *)
Ring(n) ==
  /\ running /\ ~ asleep /\ ringing = {} /\ want[n] <= clock
  /\ ringing' = {n}
  /\ UNCHANGED <<member, want, asleep, wake, clock, running, turns>>

(* It returns: only the node that was pulsed has to be asked again.        *)
Expire(n) ==
  /\ ringing = {n} /\ ringing' = {}
  /\ want' = [want EXCEPT ![n] = Ask]
  /\ UNCHANGED <<member, asleep, wake, clock, running, turns>>

Sleep ==
  /\ running /\ ~ asleep /\ asleep' = TRUE /\ ringing = {}
  /\ \A n \in member : want[n] # Ask
  /\ wake' \in 0 .. Never
  /\ \A n \in member : wake' <= want[n]
  /\ UNCHANGED <<member, want, ringing, clock, running, turns>>

Pass ==
  /\ asleep /\ clock < MaxTime
  /\ clock' = clock + 1
  /\ UNCHANGED <<member, want, ringing, asleep, wake, running, turns>>

Wake ==
  /\ asleep /\ asleep' = FALSE /\ wake' = 0
  /\ UNCHANGED <<member, want, ringing, clock, running, turns>>

Next ==
  \/ Start \/ Change \/ Sleep \/ Pass \/ Wake
  \/ \E n \in Node : Ring(n) \/ Expire(n) \/ \E t \in 0 .. Never : Request(n, t)

Spec == Init /\ [][Next]_vars

DueIsPulsed ==
  \A n \in Node :
    n \in member /\ want[n] <= clock ~> n \notin member \/ want[n] = Ask
=============================================================================
