----------------------------- MODULE ThreadPool -----------------------------
(***************************************************************************)
(* The ThreadPool of system/ThreadPool.  Clients register, send Messages   *)
(* and unregister; pool threads, made on demand up to a maximum, take a    *)
(* client's whole queue and call its handler for one Message after the     *)
(* other.  Every step is what one thread does while it holds _poolLock, or *)
(* one call of a handler.  A client is driven by one owner thread; its     *)
(* handler, which runs in a pool thread, may send Messages too.  The       *)
(* Messages of one registration are numbered in the order they are sent.   *)
(***************************************************************************)
EXTENDS Integers, Sequences, FiniteSets

CONSTANTS
  Client,       \* the IThreadPoolClients
  MaxThreads,   \* _maxThreadCount
  MayShutdown,  \* whether somebody shuts the pool down
  MaxFailures,  \* bound: how often StartInternalThread() fails
  MaxSent,      \* bound: Messages sent per registration
  None          \* a NULL client

ASSUME PoolAssumption ==
  /\ MaxThreads \in Nat \ {0}
  /\ MayShutdown \in BOOLEAN
  /\ MaxFailures \in Nat
  /\ MaxSent \in Nat
  /\ None \notin Client

Thread == 1 .. MaxThreads

VARIABLES
  registered,  \* the keys of _registeredClients
  handled,     \* ... those whose value is true
  order,       \* the keys of _pendingMessages, in the order of the table
  pending,     \* _pendingMessages
  deferred,    \* _deferredMessages
  available,   \* _availableThreads, in the order of the table
  client,      \* the client that each thread works for
  queue,       \* _internalQueue of each thread
  waiting,     \* the keys of _waitingForCompletion
  notified,    \* clients whose WaitCondition in UnregisterClient is notified
  phase,       \* "running", "stopping" (_shuttingDown) or "stopped"
  owner,       \* where the client's owner thread is
  sent, done,  \* Messages accepted from and handled for the client
  failures     \* how often a thread could not be started

poolVars == <<registered, handled, order, pending, deferred, available,
              client, queue, waiting, notified, phase, owner, sent, done,
              failures>>

Active == {t \in Thread : client[t] # None}   \* _activeThreads

(* DoesClientHaveMessagesOutstandingUnsafe *)
Outstanding(c, hnd, pend, defer) ==
  c \in hnd \/ pend[c] # <<>> \/ defer[c] # <<>>

Init ==
  /\ registered = {} /\ handled = {} /\ waiting = {} /\ notified = {}
  /\ order = <<>> /\ available = <<>>
  /\ pending = [c \in Client |-> <<>>]
  /\ deferred = [c \in Client |-> <<>>]
  /\ client = [t \in Thread |-> None]
  /\ queue = [t \in Thread |-> <<>>]
  /\ phase = "running"
  /\ owner = [c \in Client |-> "out"]
  /\ sent = [c \in Client |-> 0]
  /\ done = [c \in Client |-> 0]
  /\ failures = 0

-----------------------------------------------------------------------------
(* DispatchPendingMessagesUnsafe *)

(* How many clients its loop can serve: it ends when nobody is pending,    *)
(* when every thread is busy or when a new thread cannot be started.       *)
DispatchCounts(ord, avail, act) ==
  LET room == MaxThreads - Cardinality(act)
      all  == IF Len(ord) < room THEN Len(ord) ELSE room IN
  IF phase # "running" THEN {0}
  ELSE {all} \cup {k \in Len(avail) .. all - 1 : failures < MaxFailures}

(* Mutant: a thread that gets work stays in the table of idle threads.     *)
StillAvailable_All(avail, k) == avail

(* The idle threads after k of them, the hottest ones, were used           *)
StillAvailable(avail, k) ==
  IF k < Len(avail) THEN SubSeq(avail, 1, Len(avail) - k) ELSE <<>>

(* The i-th thread used: an idle one, or else a new one                    *)
ThreadFor(avail, act, i) ==
  IF i <= Len(avail) THEN avail[Len(avail) + 1 - i] ELSE Cardinality(act) + i

(* The loop, begun with these pending, handled, idle and active entries    *)
DispatchTo(ord, pend, hnd, avail, act) ==
  \E k \in DispatchCounts(ord, avail, act) :
    LET Served == {ord[i] : i \in 1 .. k}
        Used   == {ThreadFor(avail, act, i) : i \in 1 .. k}
        For(t) == ord[CHOOSE i \in 1 .. k : ThreadFor(avail, act, i) = t] IN
    /\ order' = SubSeq(ord, k + 1, Len(ord))
    /\ pending' = [c \in Client |-> IF c \in Served THEN <<>> ELSE pend[c]]
    /\ handled' = hnd \cup Served
    /\ available' = StillAvailable(avail, k)
    /\ client' = [t \in Thread |-> IF t \in Used THEN For(t)
                                   ELSE IF t \in act THEN client[t] ELSE None]
    /\ queue' = [t \in Thread |-> IF t \in Used THEN pend[For(t)] ELSE queue[t]]
    /\ failures' = IF \E j \in DispatchCounts(ord, avail, act) : j > k
                   THEN failures + 1 ELSE failures

-----------------------------------------------------------------------------
(* What clients do *)

(* RegisterClient, from SetThreadPool(pool)                                *)
RegisterClient(c) ==
  /\ owner[c] = "out"
  /\ owner' = [owner EXCEPT ![c] = "in"]
  /\ registered' = registered \cup {c}
  /\ handled' = handled \ {c}
  /\ sent' = [sent EXCEPT ![c] = 0]
  /\ done' = [done EXCEPT ![c] = 0]
  /\ UNCHANGED <<order, pending, deferred, available, client, queue, waiting,
                 notified, phase, failures>>

(* The client's owner or its handler can call SendMessageToThreadPool.     *)
CanSend(c) ==
  /\ c \in registered
  /\ owner[c] = "in" \/ \E t \in Thread : client[t] = c /\ queue[t] # <<>>
  /\ sent[c] < MaxSent

(* _pendingMessages.GetOrPut() of a client that is not in the table        *)
Enqueue(ord, c) == Append(ord, c)

(* Mutant: the first Message of a queue does not start the dispatcher.     *)
SendMessageToThreadPool_NoDispatch(c) ==
  /\ CanSend(c) /\ c \notin handled
  /\ sent' = [sent EXCEPT ![c] = @ + 1]
  /\ pending' = [pending EXCEPT ![c] = Append(@, sent[c] + 1)]
  /\ order' = IF pending[c] = <<>> THEN Enqueue(order, c) ELSE order
  /\ UNCHANGED <<registered, handled, deferred, available, client, queue,
                 waiting, notified, phase, owner, done, failures>>

SendMessageToThreadPool(c) ==
  /\ CanSend(c)
  /\ sent' = [sent EXCEPT ![c] = @ + 1]
  /\ \/ /\ c \in handled
        /\ deferred' = [deferred EXCEPT ![c] = Append(@, sent[c] + 1)]
        /\ UNCHANGED <<order, pending, handled, available, client, queue,
                       failures>>
     \/ /\ c \notin handled /\ pending[c] # <<>>
        /\ pending' = [pending EXCEPT ![c] = Append(@, sent[c] + 1)]
        /\ UNCHANGED <<order, deferred, handled, available, client, queue,
                       failures>>
     \/ /\ c \notin handled /\ pending[c] = <<>>
        /\ DispatchTo(Enqueue(order, c),
                      [pending EXCEPT ![c] = <<sent[c] + 1>>],
                      handled, available, Active)
        /\ UNCHANGED deferred
  /\ UNCHANGED <<registered, waiting, notified, phase, owner, done>>

(* UnregisterClient, up to its Wait()                                      *)
UnregisterClient(c) ==
  /\ owner[c] = "in"
  /\ IF Outstanding(c, handled, pending, deferred)
     THEN /\ waiting' = waiting \cup {c}
          /\ owner' = [owner EXCEPT ![c] = "waits"]
     ELSE /\ owner' = [owner EXCEPT ![c] = "leaving"]
          /\ UNCHANGED waiting
  /\ UNCHANGED <<registered, handled, order, pending, deferred, available,
                 client, queue, notified, phase, sent, done, failures>>

(* _pendingMessages.Remove()                                               *)
Dequeue(ord, c) ==
  LET at == {i \in DOMAIN ord : ord[i] = c} IN
  IF at = {} THEN ord
  ELSE LET i == CHOOSE i \in at : TRUE IN
       SubSeq(ord, 1, i - 1) \o SubSeq(ord, i + 1, Len(ord))

(* ... and the final cleanup, once Wait() has returned                     *)
UnregisterEnds(c) ==
  /\ owner[c] = "leaving" \/ (owner[c] = "waits" /\ c \in notified)
  /\ owner' = [owner EXCEPT ![c] = "out"]
  /\ registered' = registered \ {c}
  /\ handled' = handled \ {c}
  /\ order' = Dequeue(order, c)
  /\ pending' = [pending EXCEPT ![c] = <<>>]
  /\ deferred' = [deferred EXCEPT ![c] = <<>>]
  /\ waiting' = waiting \ {c}
  /\ notified' = notified \ {c}
  /\ sent' = [sent EXCEPT ![c] = 0]
  /\ done' = [done EXCEPT ![c] = 0]
  /\ UNCHANGED <<available, client, queue, phase, failures>>

-----------------------------------------------------------------------------
(* What pool threads do *)

(* One round of the loop in ThreadPoolThread::MessageReceivedFromOwner     *)
MessageHandled(t) ==
  /\ queue[t] # <<>>
  /\ queue' = [queue EXCEPT ![t] = Tail(@)]
  /\ done' = [done EXCEPT ![client[t]] = @ + 1]
  /\ UNCHANGED <<registered, handled, order, pending, deferred, available,
                 client, waiting, notified, phase, owner, sent, failures>>

(* Mutant: the waiting owner is told as soon as this batch is finished.    *)
WakeOwner_Early(c, hnd, pend, defer) ==
  /\ waiting' = waiting \ {c}
  /\ notified' = notified \cup (waiting \cap {c})

(* The owner that waits in UnregisterClient is told when nothing is left.  *)
WakeOwner(c, hnd, pend, defer) ==
  IF ~Outstanding(c, hnd, pend, defer)
  THEN /\ waiting' = waiting \ {c}
       /\ notified' = notified \cup (waiting \cap {c})
  ELSE UNCHANGED <<waiting, notified>>

(* Mutant: the deferred Messages are copied and not moved.                 *)
SwappedOut_Copied(c) == deferred

(* The client's deferred queue is swapped with its empty pending queue.    *)
SwappedOut(c) == [deferred EXCEPT ![c] = <<>>]

(* ThreadFinishedProcessingClientMessages.  A client is still registered   *)
(* here: it cannot finish unregistering while it is being handled.         *)
ThreadFinished(t) ==
  LET c == client[t] IN
  /\ c # None /\ queue[t] = <<>>
  /\ \/ /\ phase # "running"
        /\ client' = [client EXCEPT ![t] = None]
        /\ UNCHANGED <<handled, order, pending, deferred, available, queue,
                       waiting, notified, failures>>
     \/ /\ phase = "running"
        /\ DispatchTo(IF deferred[c] # <<>> THEN Enqueue(order, c) ELSE order,
                      [pending EXCEPT ![c] = deferred[c]],
                      handled \ {c}, Append(available, t), Active \ {t})
        /\ deferred' = SwappedOut(c)
        /\ WakeOwner(c, handled', pending', deferred')
  /\ UNCHANGED <<registered, phase, owner, sent, done>>

-----------------------------------------------------------------------------
(* Shutdown *)

(* It sets _shuttingDown ...                                               *)
Shutdown ==
  /\ MayShutdown /\ phase = "running"
  /\ phase' = "stopping"
  /\ UNCHANGED <<registered, handled, order, pending, deferred, available,
                 client, queue, waiting, notified, owner, sent, done, failures>>

(* Mutant: it forgets the owners that wait in UnregisterClient.            *)
ShutdownEnds_NoNotify ==
  /\ phase = "stopping" /\ Active = {}
  /\ phase' = "stopped"
  /\ registered' = {} /\ handled' = {} /\ order' = <<>> /\ available' = <<>>
  /\ pending' = [c \in Client |-> <<>>]
  /\ deferred' = [c \in Client |-> <<>>]
  /\ waiting' = {}
  /\ owner' = [c \in Client |-> IF owner[c] = "in" THEN "out" ELSE owner[c]]
  /\ UNCHANGED <<client, queue, notified, sent, done, failures>>

(* ... waits until every thread has done its work and exited, detaches the *)
(* registered clients, drops what is queued and releases who waits.        *)
ShutdownEnds ==
  /\ phase = "stopping" /\ Active = {}
  /\ phase' = "stopped"
  /\ registered' = {} /\ handled' = {} /\ order' = <<>> /\ available' = <<>>
  /\ pending' = [c \in Client |-> <<>>]
  /\ deferred' = [c \in Client |-> <<>>]
  /\ notified' = notified \cup waiting
  /\ waiting' = {}
  /\ owner' = [c \in Client |-> IF owner[c] = "in" THEN "out" ELSE owner[c]]
  /\ UNCHANGED <<client, queue, sent, done, failures>>

Next ==
  \/ \E c \in Client : \/ RegisterClient(c) \/ SendMessageToThreadPool(c)
                       \/ UnregisterClient(c) \/ UnregisterEnds(c)
  \/ \E t \in Thread : MessageHandled(t) \/ ThreadFinished(t)
  \/ Shutdown
  \/ ShutdownEnds

Spec == Init /\ [][Next]_poolVars

(* Handlers return, the pool's mutex is granted to who asks for it, and a  *)
(* notified Wait() returns.  Nobody has to register, send, unregister or   *)
(* shut the pool down.                                                     *)
FairSpec ==
  /\ Spec
  /\ \A t \in Thread : /\ WF_poolVars(MessageHandled(t))
                       /\ WF_poolVars(ThreadFinished(t))
  /\ \A c \in Client : WF_poolVars(UnregisterEnds(c))
  /\ WF_poolVars(ShutdownEnds)

-----------------------------------------------------------------------------
(* Properties *)

(* Types; a thread is idle in the table at most once and not while it      *)
(* works, so that the pool never has more than MaxThreads threads; the     *)
(* pending table holds exactly the clients with pending Messages.          *)
PoolTypeOK ==
  /\ registered \subseteq Client /\ handled \subseteq registered
  /\ waiting \subseteq Client /\ notified \subseteq Client
  /\ order \in Seq(Client) /\ available \in Seq(Thread)
  /\ pending \in [Client -> Seq(1 .. MaxSent)]
  /\ deferred \in [Client -> Seq(1 .. MaxSent)]
  /\ client \in [Thread -> Client \cup {None}]
  /\ queue \in [Thread -> Seq(1 .. MaxSent)]
  /\ phase \in {"running", "stopping", "stopped"}
  /\ owner \in [Client -> {"out", "in", "waits", "leaving"}]
  /\ sent \in [Client -> 0 .. MaxSent] /\ done \in [Client -> 0 .. MaxSent]
  /\ failures \in 0 .. MaxFailures
  /\ \A i, j \in 1 .. Len(available) : available[i] = available[j] => i = j
  /\ \A i, j \in 1 .. Len(order) : order[i] = order[j] => i = j
  /\ \A i \in 1 .. Len(available) : available[i] \notin Active
  /\ \A c \in Client : pending[c] # <<>> <=> \E i \in 1 .. Len(order) : order[i] = c

(* The Messages of a client are handled in the order they were sent, none  *)
(* lost and none twice (ThreadPool.h:39): what its thread still has to do, *)
(* what is pending and what is deferred are together, in this order,       *)
(* exactly the Messages sent and not yet handled.                          *)
MessagesInOrder ==
  \A c \in registered :
    LET doing == {t \in Thread : client[t] = c}
        work  == IF doing = {} THEN <<>> ELSE queue[CHOOSE t \in doing : TRUE]
        todo  == work \o pending[c] \o deferred[c] IN
    /\ Cardinality(doing) <= 1
    /\ todo = [i \in 1 .. sent[c] - done[c] |-> done[c] + i]

(* The assertions of ThreadPool.cpp: a client with pending Messages is not *)
(* being handled (207), a thread gives back a client that is (252) and     *)
(* that has nothing pending (261), and an idle thread has no queue (145).  *)
PoolAssertionsHold ==
  /\ PoolTypeOK
  /\ \A c \in Client : pending[c] # <<>> => c \notin handled
  /\ \A t \in Active : client[t] \in registered =>
                       client[t] \in handled /\ pending[client[t]] = <<>>
  /\ \A t \in Thread \ Active : queue[t] = <<>>

(* A client that has left UnregisterClient or that Shutdown has let go may *)
(* be destroyed: no thread is in its handler or will call it.              *)
UnregisteredIsUntouched ==
  \A c \in Client : owner[c] = "out" => \A t \in Thread : client[t] # c

(* No client waits for a thread while one is idle or could be made, unless *)
(* a thread could not be started: nothing tries again then.                *)
NoIdleWhilePending ==
  phase = "running" /\ failures = 0 /\ order # <<>> =>
    Cardinality(Active) = MaxThreads

(* Every Message that SendMessageToThreadPool() accepted is handled (a     *)
(* client sends at most MaxSent of them, so that it runs out of Messages), *)
(* unless the pool is shut down or a thread could not be started.          *)
EveryMessageHandled ==
  \A c \in Client :
    sent[c] > done[c] ~> (sent[c] = done[c] \/ phase # "running" \/ failures > 0)

(* UnregisterClient() returns, also when the pool is shut down meanwhile   *)
(* and, if it is, also after a thread could not be started.                *)
UnregisterReturns ==
  \A c \in Client :
    (owner[c] = "waits" /\ phase # "stopped") ~>
      (owner[c] # "waits" \/ (failures > 0 /\ phase = "running"))
=============================================================================
