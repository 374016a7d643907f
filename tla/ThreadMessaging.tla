-------------------------- MODULE ThreadMessaging ---------------------------
(***************************************************************************)
(* The Thread class of system/Thread: an owner thread and an internal      *)
(* thread that send one another Messages through two locked queues.  Only  *)
(* the sender of the first Message in a queue signals the receiver, by a   *)
(* byte on a socket pair or by a WaitCondition, and does so after it has   *)
(* released the lock.  Any other thread (here: a helper) may send to the   *)
(* internal thread too.  The owner can shut the internal thread down, wait *)
(* for it and start it again; it may also quit by itself.                  *)
(***************************************************************************)
EXTENDS Naturals, Sequences

CONSTANTS
  MaxSent,     \* bound: Messages sent to the internal thread
  MaxStarts,   \* bound: how often it is started
  MaxStops,    \* bound: how often ShutdownInternalThread() is called
  MaxQuits     \* bound: how often it quits by itself

ASSUME MessagingAssumption ==
  {MaxSent, MaxStarts, MaxStops, MaxQuits} \subseteq Nat

Proc == {"internal", "owner", "helper"}   \* the threads
Side == {"internal", "owner"}             \* those that receive
Null == 0                                 \* a NULL MessageRef: please quit
Message == 1 .. MaxSent                   \* numbered in the order they are sent

VARIABLES
  useSockets,  \* _useMessagingSockets
  queue,       \* _messages of each side
  signals,     \* the sides with bytes to read, or notifications pending
  socket,      \* the sides whose _messageSocket is open
  running,     \* _threadRunning
  pc,          \* where the three threads are
  mode,        \* what the owner does: "poll", "block", "send" or "shutdown"
  hand,        \* the Message that the internal thread handles
  sent,        \* Messages sent to the internal thread so far
  handled,     \* those it has taken out of its queue, in order
  starts, stops, quits

vars == <<useSockets, queue, signals, socket, running, pc, mode, hand, sent,
          handled, starts, stops, quits>>

Init ==
  /\ useSockets \in BOOLEAN
  /\ queue = [s \in Side |-> <<>>] /\ signals = {}
  /\ socket = {} /\ running = FALSE
  /\ pc = [p \in Proc |-> IF p = "internal" THEN "none" ELSE "idle"]
  /\ mode = "poll" /\ hand = Null
  /\ sent = 0 /\ handled = <<>> /\ starts = 0 /\ stops = 0 /\ quits = 0

Goto(p, l) == pc' = [pc EXCEPT ![p] = l]

-----------------------------------------------------------------------------
(* Sending *)

(* Mutant: only the sender of a second Message signals.                    *)
Notifies_Late(s) == Len(queue[s]) = 1

(* SendMessageAux: the queue had no Message before this one                *)
Notifies(s) == queue[s] = <<>>

Enqueue(p, s, m, next) ==
  /\ queue' = [queue EXCEPT ![s] = Append(@, m)]
  /\ Goto(p, IF Notifies(s) THEN "signal" ELSE next)

(* SignalAux: a byte that the other end of the socket pair lets out, if    *)
(* both ends are there                                                     *)
Signalled(s) ==
  IF useSockets /\ socket # Side THEN signals ELSE signals \cup {s}

-----------------------------------------------------------------------------
(* The owner *)

(* SendMessageToInternalThread                                             *)
OwnerSends ==
  /\ pc["owner"] = "idle" /\ sent < MaxSent
  /\ sent' = sent + 1 /\ mode' = "send"
  /\ Enqueue("owner", "internal", sent + 1, "idle")
  /\ UNCHANGED <<useSockets, signals, socket, running, hand, handled, starts,
                 stops, quits>>

OwnerSignals ==
  /\ pc["owner"] = "signal"
  /\ signals' = Signalled("internal")
  /\ Goto("owner", IF mode = "shutdown" THEN "join" ELSE "idle")
  /\ UNCHANGED <<useSockets, queue, socket, running, mode, hand, sent, handled,
                 starts, stops, quits>>

(* StartInternalThread: the sockets are made; already queued Messages make *)
(* for a signal.                                                           *)
StartInternalThread ==
  /\ pc["owner"] = "idle" /\ ~ running /\ starts < MaxStarts
  /\ running' = TRUE /\ starts' = starts + 1 /\ mode' = "send"
  /\ socket' = IF useSockets THEN Side ELSE {}
  /\ pc' = [pc EXCEPT !["internal"] = "entry",
                      !["owner"] = IF queue["internal"] # <<>> THEN "signal" ELSE "idle"]
  /\ UNCHANGED <<useSockets, queue, signals, hand, sent, handled, stops, quits>>

(* The sockets are there already if somebody asked for one of them, or if  *)
(* the thread could not be started.                                        *)
GetWakeupSocket ==
  /\ pc["owner"] = "idle" /\ ~ running /\ useSockets
  /\ socket' = Side
  /\ UNCHANGED <<useSockets, queue, signals, running, pc, mode, hand, sent,
                 handled, starts, stops, quits>>

(* ShutdownInternalThread(wait); with wait FALSE it is like a send.        *)
ShutdownInternalThread(wait) ==
  /\ pc["owner"] = "idle" /\ running
  /\ stops < MaxStops /\ stops' = stops + 1
  /\ mode' = IF wait THEN "shutdown" ELSE "send"
  /\ Enqueue("owner", "internal", Null, IF wait THEN "join" ELSE "idle")
  /\ UNCHANGED <<useSockets, signals, socket, running, hand, sent, handled,
                 starts, quits>>

(* WaitForInternalThreadToExit                                             *)
WaitForInternalThreadToExit ==
  /\ pc["owner"] = "idle" /\ running
  /\ mode' = "send" /\ Goto("owner", "join")
  /\ UNCHANGED <<useSockets, queue, signals, socket, running, hand, sent,
                 handled, starts, stops, quits>>

(* Mutant: the owner does not wait for the internal thread to end.         *)
Joins_Early ==
  /\ pc["owner"] = "join"
  /\ running' = FALSE /\ Goto("owner", "idle") /\ socket' = {} /\ signals' = {}
  /\ UNCHANGED <<useSockets, queue, mode, hand, sent, handled, starts, stops, quits>>

Joins ==
  /\ pc["owner"] = "join" /\ pc["internal"] = "none"
  /\ running' = FALSE /\ Goto("owner", "idle")
  /\ socket' = {}
  /\ signals' = IF useSockets THEN {} ELSE signals
  /\ UNCHANGED <<useSockets, queue, mode, hand, sent, handled, starts, stops, quits>>

(* GetNextReplyFromInternalThread, with a wakeup time of 0 or a later one  *)
GetNextReply(how) ==
  /\ pc["owner"] = "idle" /\ mode' = how
  /\ Goto("owner", "absorb")
  /\ UNCHANGED <<useSockets, queue, signals, socket, running, hand, sent,
                 handled, starts, stops, quits>>

OwnerTimesOut ==
  /\ pc["owner"] = "wait" /\ Goto("owner", "idle")
  /\ UNCHANGED <<useSockets, queue, signals, socket, running, mode, hand, sent,
                 handled, starts, stops, quits>>

-----------------------------------------------------------------------------
(* Receiving: WaitForNextMessageAux, by the owner or the internal thread   *)

Absorb(p) ==
  /\ pc[p] = "absorb" /\ Goto(p, "pop")
  /\ signals' = IF useSockets THEN signals \ {p} ELSE signals
  /\ UNCHANGED <<useSockets, queue, socket, running, mode, hand, sent, handled,
                 starts, stops, quits>>

(* Mutant: the newest Message is taken first.                              *)
Pop_Newest(p) ==
  /\ pc[p] = "pop" /\ queue[p] # <<>>
  /\ queue' = [queue EXCEPT ![p] = SubSeq(@, 1, Len(@) - 1)]
  /\ LET m == queue[p][Len(queue[p])] IN
     IF p = "internal"
     THEN /\ hand' = m /\ Goto(p, "handle")
          /\ handled' = IF m = Null THEN handled ELSE Append(handled, m)
     ELSE Goto(p, "idle") /\ UNCHANGED <<hand, handled>>
  /\ UNCHANGED <<useSockets, signals, socket, running, mode, sent, starts, stops,
                 quits>>

(* RemoveHead succeeds.  The owner is done; the internal thread calls      *)
(* MessageReceivedFromOwner.                                               *)
Pop(p) ==
  /\ pc[p] = "pop" /\ queue[p] # <<>>
  /\ queue' = [queue EXCEPT ![p] = Tail(@)]
  /\ IF p = "internal"
     THEN /\ hand' = Head(queue[p]) /\ Goto(p, "handle")
          /\ handled' = IF Head(queue[p]) = Null THEN handled
                        ELSE Append(handled, Head(queue[p]))
     ELSE Goto(p, "idle") /\ UNCHANGED <<hand, handled>>
  /\ UNCHANGED <<useSockets, signals, socket, running, mode, sent, starts, stops, quits>>

(* There is no Message: a poll returns, others wait.  The owner gets an    *)
(* error if it has no socket to wait for.                                  *)
PopNothing(p) ==
  /\ pc[p] = "pop" /\ queue[p] = <<>>
  /\ Goto(p, IF p = "owner" /\ (mode = "poll" \/ (useSockets /\ p \notin socket))
             THEN "idle" ELSE "wait")
  /\ UNCHANGED <<useSockets, queue, signals, socket, running, mode, hand, sent,
                 handled, starts, stops, quits>>

(* The owner's socket is also readable once the internal thread has closed *)
(* the other end.                                                          *)
Readable(p) ==
  p \in signals \/ (p = "owner" /\ useSockets /\ "internal" \notin socket)

(* Mutant: whoever was woken waits for another signal.                     *)
Wakes_WaitsOn(p) ==
  /\ pc[p] = "wait" /\ Readable(p)
  /\ signals' = signals \ {p}
  /\ UNCHANGED <<useSockets, queue, socket, running, pc, mode, hand, sent,
                 handled, starts, stops, quits>>

(* After a wait on sockets, the queue is polled once more: the owner's     *)
(* call then returns in any case, the internal thread tries again.  After  *)
(* a WaitCondition, which forgets its notifications, the call goes on.     *)
Wakes(p) ==
  /\ pc[p] = "wait" /\ Readable(p) /\ Goto(p, "absorb")
  /\ signals' = IF useSockets THEN signals ELSE signals \ {p}
  /\ mode' = IF p = "owner" /\ useSockets THEN "poll" ELSE mode
  /\ UNCHANGED <<useSockets, queue, socket, running, hand, sent, handled, starts, stops,
                 quits>>

-----------------------------------------------------------------------------
(* The internal thread *)

(* InternalThreadEntryAux, before InternalThreadEntry: replies that nobody *)
(* has read yet make for a signal.                                         *)
InternalThreadEntry ==
  /\ pc["internal"] = "entry" /\ Goto("internal", "absorb")
  /\ signals' = IF queue["owner"] # <<>> THEN Signalled("owner") ELSE signals
  /\ UNCHANGED <<useSockets, queue, socket, running, mode, hand, sent, handled,
                 starts, stops, quits>>

(* MessageReceivedFromOwner, which may send a reply to the owner           *)
Handles ==
  /\ pc["internal"] = "handle" /\ hand # Null /\ Goto("internal", "absorb")
  /\ UNCHANGED <<useSockets, queue, signals, socket, running, mode, hand, sent,
                 handled, starts, stops, quits>>

Replies ==
  /\ pc["internal"] = "handle" /\ hand # Null
  /\ Enqueue("internal", "owner", hand, "absorb")
  /\ UNCHANGED <<useSockets, signals, socket, running, mode, hand, sent, handled,
                 starts, stops, quits>>

InternalSignals ==
  /\ pc["internal"] = "signal"
  /\ signals' = Signalled("owner") /\ Goto("internal", "absorb")
  /\ UNCHANGED <<useSockets, queue, socket, running, mode, hand, sent, handled,
                 starts, stops, quits>>

(* A NULL Message ends the thread, or it quits by itself; its socket is    *)
(* closed.                                                                 *)
Exits ==
  /\ pc["internal"] = "handle" /\ Goto("internal", "none")
  /\ hand = Null \/ quits < MaxQuits
  /\ quits' = IF hand = Null THEN quits ELSE quits + 1
  /\ socket' = socket \ {"internal"} /\ hand' = Null
  /\ UNCHANGED <<useSockets, queue, signals, running, mode, sent, handled, starts, stops>>

-----------------------------------------------------------------------------
(* The helper *)

HelperSends ==
  /\ pc["helper"] = "idle" /\ sent < MaxSent
  /\ sent' = sent + 1
  /\ Enqueue("helper", "internal", sent + 1, "idle")
  /\ UNCHANGED <<useSockets, signals, socket, running, mode, hand, handled,
                 starts, stops, quits>>

HelperSignals ==
  /\ pc["helper"] = "signal"
  /\ signals' = Signalled("internal") /\ Goto("helper", "idle")
  /\ UNCHANGED <<useSockets, queue, socket, running, mode, hand, sent, handled,
                 starts, stops, quits>>

-----------------------------------------------------------------------------
(* What the owner and the helper decide to do, and what threads then do    *)
Decisions ==
  \/ OwnerSends \/ GetWakeupSocket \/ StartInternalThread
  \/ WaitForInternalThreadToExit
  \/ \E wait \in BOOLEAN : ShutdownInternalThread(wait)
  \/ \E how \in {"poll", "block"} : GetNextReply(how)
  \/ OwnerTimesOut \/ HelperSends

OwnerSteps == OwnerSignals \/ Joins \/ Absorb("owner") \/ Pop("owner")
              \/ PopNothing("owner") \/ Wakes("owner")

InternalSteps == InternalThreadEntry \/ Handles \/ Replies \/ InternalSignals
                 \/ Exits \/ Absorb("internal") \/ Pop("internal")
                 \/ PopNothing("internal") \/ Wakes("internal")

Next == Decisions \/ OwnerSteps \/ InternalSteps \/ HelperSignals

Spec == Init /\ [][Next]_vars

(* Threads that can go on do so.                                           *)
FairSpec ==
  Spec /\ WF_vars(OwnerSteps) /\ WF_vars(InternalSteps) /\ WF_vars(HelperSignals)

-----------------------------------------------------------------------------
Place == {"none", "entry", "absorb", "pop", "wait", "handle", "signal", "idle", "join"}

(* The members of the Thread object and where its threads are.             *)
MessagingTypeOK ==
  /\ useSockets \in BOOLEAN /\ running \in BOOLEAN
  /\ queue \in [Side -> Seq(Message \cup {Null})]
  /\ signals \subseteq Side /\ socket \subseteq Side
  /\ pc \in [Proc -> Place]
  /\ pc["internal"] \in {"none", "entry", "absorb", "pop", "wait", "handle", "signal"}
  /\ pc["owner"] \in {"idle", "absorb", "pop", "wait", "signal", "join"}
  /\ pc["helper"] \in {"idle", "signal"}
  /\ hand \in Message \cup {Null} /\ sent \in 0 .. MaxSent
  /\ handled \in Seq(Message)
  /\ (pc["internal"] # "none" => running)

(* No lost wakeup: if Messages are in the queue of a thread that waits, it *)
(* was signalled, or a sender is about to signal it, although a sender     *)
(* signals only for the first Message in the queue (SendMessageAux) and    *)
(* the receiver discards signals before it looks (WaitForNextMessageAux).  *)
NoLostWakeup ==
  /\ pc["internal"] = "wait" /\ queue["internal"] # <<>> =>
       "internal" \in signals \/ "signal" \in {pc["owner"], pc["helper"]}
  /\ pc["owner"] = "wait" /\ queue["owner"] # <<>> =>
       Readable("owner") \/ pc["internal"] \in {"signal", "entry"}

(* Messages are handled in the order they were sent, none is lost and none *)
(* is handled twice, also if the thread ends and is started again: what is *)
(* queued are, in their order, the Messages after those that were handled. *)
NothingLostOrRepeated ==
  LET q == queue["internal"] IN
  /\ Len(handled) <= sent /\ \A i \in 1 .. Len(handled) : handled[i] = i
  /\ \A i, j \in 1 .. Len(q) : i < j /\ q[i] # Null /\ q[j] # Null => q[i] < q[j]
  /\ {q[i] : i \in 1 .. Len(q)} \ {Null} = Len(handled) + 1 .. sent

(* Every Message in its queue is handled as long as the internal thread is *)
(* there: nobody waits for ever while there is work.                       *)
QueuedIsHandled ==
  \A m \in Message :
    (\E i \in DOMAIN queue["internal"] : queue["internal"][i] = m)
      /\ pc["internal"] # "none"
    ~> (\E i \in DOMAIN handled : handled[i] = m) \/ pc["internal"] = "none"

(* The owner who shuts the internal thread down comes back.  (He who only  *)
(* waits for it depends on its wish to quit.)                              *)
ShutdownReturns ==
  pc["owner"] \in {"signal", "join"} /\ mode = "shutdown" ~> pc["owner"] = "idle"
=============================================================================
