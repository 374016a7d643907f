# MUSCLE in TLA+

TLA+ models of the core of MUSCLE, the message passing server and client
library: the server's event loop and the life of its sessions, its tree of
timers, its node database with subscriptions, indices and update delivery, the
gateway that tunnels Messages through unreliable packets, and the threads, pools
and locks of the `system` directory. The modules are checked with TLC on small
instances; the safety invariants of nine of them, that the tunnel implements a
channel of whole Messages, and that the tree of timers implements an alarm clock,
are proved with TLAPS for every instance.

## 1. Inventory

A MUSCLE server (`reflector/ReflectServer`) runs one event loop that accepts
connections and moves Messages between the clients' gateways and one session
object per client. A `StorageReflectSession` keeps its client's data in a tree
of `DataNode`s that all sessions share; clients set, remove, index and query
nodes with `PR_COMMAND_*` Messages, subscribe to nodes with path strings and
`QueryFilter`s, and receive `PR_RESULT_DATAITEMS` and `PR_RESULT_INDEXUPDATED`
Messages. Around this core the library has threads, locks, pools, gateways,
I/O objects and containers.

| part | state | operations | what is hard | what makes it correct |
|---|---|---|---|---|
| Node database (`StorageReflectSession`, `DataNode`) | the tree, payloads, per-node subscription marks, per-session strings, filters and node counts | attach, detach, SETDATA, INSERTORDEREDDATA, REMOVEDATA, SETPARAMETERS (`SUBSCRIBE:`), REMOVEPARAMETERS | marks are maintained incrementally by six operations; limits are met half way through a call | marks equal a recount; no orphans; node counts exact |
| Ordered indices (`DataNode`) | one ordered list of children per node, `_indexingPresent` per session | insert, reorder, remove from index, remove child | only one entry is removed per child; a cached flag decides what is sent | no dangling or duplicate entry; no index is skipped |
| Subscription delivery (`StorageReflectSession`) | two Messages being gathered per session, the gateway's outgoing queue | NodeChanged, NodeIndexChanged, push, prune, filter changes, GETDATA | batching, removal-before-item order in one Message, early flushes, superceding in queued Messages, filters that begin or cease to match | a client that replays the Messages holds what it subscribes to |
| Node traversal (`NodePathMatcher`) | none (a walk over the tree) | `DoTraversal` with callbacks | two lookup strategies, strings of different depths, results that cut the walk short | visits exactly the matching nodes, once |
| `ReaderWriterMutex` | recursion counts, waiting tables, pooled WaitConditions | lock, try, timed lock, upgrade, unlock | scooping, timeouts that hold the only notification, upgrades | exclusion, no lost wakeup, writers are not starved |
| `ThreadPool` | registered clients, pending and deferred queues, idle and active threads, waiting owners | register, send, dispatch, handle, unregister, shut down | waiting outside of the lock, handlers that send, shutdown in between | order, one thread per client, safe unregistering, nothing forgotten |
| `ReflectServer`, `AbstractReflectSession` | sessions, factories, lame ducks, connect and reconnect timers | accept, connect, dispatch, disconnect | sessions that end while others are iterated over; timers racing results | every session is detached once; none is used after that |
| `PulseNode` | a tree of scheduled times in three lists per node | invalidate, recalculate, pulse | callbacks that change the lists being walked | nobody is pulsed early or forgotten |
| `Thread`, `MessageTransceiverThread` | two queues and their wakeup sockets | send, wait, shut down | signalling only on the first Message of a queue | no Message waits unseen |
| Gateways (`iogateway`) | framing state, packet reassembly | send and receive bytes or packets | loss, duplication and reordering of fragments | Messages come out whole or not at all |
| Containers, reference counts (`util`) | ring buffers, hash tables with registered iterators, counts | usual | iterators that survive modification | behave as the abstract sequence, map, count |

Interactions: the event loop calls a session's handler for one Message at a
time, so operations on the node database are atomic and interleave only with
each other and with the clients' reading. A handler notifies the other sessions
by direct calls in the same turn. Threads and pools are independent of the
server; sessions may use them through signalling sockets.

## 2. Plan

Done: `NodeTree` (proved), `NodeIndex` (proved), `NodeDelivery` (proved),
`NodeTraversal` (model-checked only), `ReaderWriterMutex` (proved), `ThreadPool` (proved),
`PulseNode` with its abstract specification `PulseSchedule` (proved, the
refinement included), `ReflectServer` (proved), `PacketTunnel` with its abstract
specification `MessageChannel` (proved, the refinement included),
`ThreadMessaging` (proved). `NodeIndex` extends `NodeTree` and `NodeDelivery`
extends `NodeIndex`, so that the runs of the last one check the composition;
`ReflectServer` uses of `PulseNode` only what `ImplementsSchedule` and
`DueIsPulsed` say.

Next: `MessageTransceiverThread` as the composition of `ThreadMessaging` and
`ReflectServer`; the jettison commands and `CloneDataNodeSubtree` on top of
`NodeIndex`; `Queue` as a ring buffer that refines a sequence.

## 3. The modules and the code

### NodeTree
One variable per piece of state: `data` (its domain is the set of nodes; a path
is the sequence of names from the root), `marks` (`DataNode::_subscribers`; a
count of zero is a missing table entry), `sessions`, `subs` and `filters`
(`_subscriptions`), `nodeCount` (`_currentNodeCount`). Actions:
`AttachedToServer`, `AboutToDetachFromServer` (with `Cleanup()` and the removal
of the session from the server), `SetDataNode`, `InsertOrderedData`,
`DoRemoveData`, `Subscribe`, `Unsubscribe`. A clause of a path string is the
set of names it accepts and a `QueryFilter` the set of payloads it accepts, so
any string and filter of the code is an instance. `SetDataNode` creates the
intermediate nodes one by one and stops at the first one it may not create;
what it has created so far stays, as in the code.

### NodeIndex
Adds `index` (`_orderedIndex`) and `indexing` (`_indexingPresent`). Each action
is the action of `NodeTree` with what the same handler does to the indices;
`ReorderData` is new. `EntryOf` is the search from the last entry that
`RemoveIndexEntry()` and `InsertOrderedChild()` share; when subtrees are removed,
`EntriesExcept` drops the entries of all removed children of a node at once, which
is what the successive calls of `RemoveChild()` leave. The runs check it through `NodeDelivery`, which conjoins these actions.

### NodeDelivery
Adds `pend` and `ipend` (`_nextSubscriptionMessage`,
`_nextIndexSubscriptionMessage`), `out` (the gateway's outgoing queue) and the
client. An operation makes a sequence of events, in the order of the code's calls:
a node that changed, an index that changed, or `Nothing` where the code has a call
that a condition (a node that exists already, QUIET) skips. `Notify` folds them
through `NodeChanged`/`NodeChangedAux`/`NodeIndexChanged`; `NotifyRemoved` is the
recursion of `RemoveChild()`, children first and siblings in any order, each taken
out of the index that is left (`IndexBefore`) before it is reported as removed;
`Push` is `PushSubscriptionMessages`. `DSetDataNode` with `more` is a SETDATA Message
with a second value, so that a batch can hold several changes of a node. Items
of one path in one Message are kept as the newest one: the client applies them
in order and only the last one lasts. The client (external) is the documented
one: removals first, then items; index op codes as described in
`html/muscle-by-example/docs/srsreplymessages.md`. As the server says nothing
when a subscription ends, the client ends one with REMOVEPARAMETERS and PING in
one batch and drops what it no longer subscribes to when the PONG arrives.

### NodeTraversal
`DoTraversalAux` is the code's recursion as an operator that returns the visited
nodes and the depth to return to; the tree and the strings grow one element at
a time, so that a run enumerates every tree and every list of strings of the
instance, in every insertion order (it decides the iteration order).
`Continue` and `NextSession` are the callbacks.

### ReaderWriterMutex
A step is what a thread does while it holds `_stateMutex`. `ro`, `rw` and
`total` are the recursion counts, `readers` and `writers` the waiting tables,
`notified` the threads whose WaitCondition has a pending notification, `stale`
the recycled WaitConditions that still have one, `pc`/`call`/`back` where each
thread is in its call. `Wait()` returning (`ReaderWakes`, `ReaderTimesOut`, ...)
and acting on it (`ReaderEnters`, `ReaderGivesUp`, ...) are two steps. A timed
wait may time out although it has been notified (`WaitUntilAux` looks at the
clock first). An upgrade is `BeginUpgrade`, `UpgradeUnlocks`, `UpgradeLocks`,
`UpgradeRelocks`, with other threads in between.

### ThreadPool
A step is what a thread does while it holds `_poolLock`, or one call of a
handler. `DispatchTo` is the loop of `DispatchPendingMessagesUnsafe()` in closed
form: it serves the first k pending clients, idle threads from the hottest on
and then new ones, where k is bounded by the pending clients, by the free
threads and by a thread that fails to start. Messages are numbered per
registration so that order and loss can be stated. `UnregisterClient` and
`UnregisterEnds` are the two halves around `Wait()`; `Shutdown` and
`ShutdownEnds` the two around joining the threads. The client's owner thread
calls in sequence, its handler may send at any time it runs: this is how
`IThreadPoolClient` is documented to be used. Thread ids are slots, because
threads are never given up before a shutdown.

### PulseNode, PulseSchedule
`tree` holds the members of all PulseNodes: parent, list, the children of each
list in order, the scheduled time, whether it is valid, the aggregate time.
`stack` is the C++ stack of `GetPulseTimeAux` or `PulseAux` calls; while its top
is at `"callback"` the user's code runs and may `Invalidate`, `Attach`, `Detach`
or `DetachAll` (which is also what the destructor does) any node. The walk goes
on from the lists as they are then, as the code does: `RecalculateKid` and
`PulseKid` take the first of the list each time. `ToRecalc` is the code's
recursion up the tree in closed form: the nodes that `UpWithin` reaches from a
node as long as there is a parent to tell and it has not been told. The loop
(`StartWaiting`, `Tick`, `TimeOut`, `SocketEvent`, `EndCycle`) is
`ReflectServer::ServerProcessLoop` as far as it concerns timers; `min` is what
it waits for.

`PulseSchedule` is an alarm clock without trees: each member of a set wants to be
woken at a time or has yet to be asked. `Sleep` requires that all have been asked
and that nobody is overslept; `Ring`, the call of `Pulse()`, requires that the time
has come; `Expire`, its return, resets that one node. `Change` is the only other
step that takes back what a node has asked for or moves it, and it is a turn of the
user: it counts `turns`, which no step of the loop does, so a walk that resets or
drops a node is not a `Change`. Before the loop is `running`, turns are not counted.
`ImplementsSchedule` maps a node to its `sched` if it is valid (and not being
asked), to "has to be asked" otherwise, the members to the nodes in a root's
tree, `ringing` to the node whose `Pulse()` is on top of the stack and `turns` to
the calls that user code has made.

### ReflectServer
`ses[s]` are the members of a session that its life depends on, `sessions` the
table in its order, `lame` the lame ducks, `phase` and `at` where the event loop
is, `ready` the sessions whose socket was ready when the wait ended. User code
runs in a session's callbacks (`phase = "session"`), in `AttachedToServer()`
(`adding`), in `AboutToDetachFromServer()` (`"detach"`, `"cleaning"`) and before
the loop; there it may add, replace, end, disconnect and reconnect sessions, put
the computer to sleep, wake it and end the server. `AttachNewSession()` is two
steps (up to the callback and after it, when it succeeds or is rolled back), a
detachment is two (`DetachDuck`, `RemoveDuck`). A socket is absent, connecting,
open or broken; a timer never set, running or due, and `pulse` records which
timers the last `GetPulseTime()` counted: a timer that was not counted does not
wake the loop. `TestKeepServerGoing` is the loop's condition, tested before the lame
ducks are cleared: `going` is `"ended"` after `EndServer()` and `"over"` once the
loop has seen it. A `Reconnect()` may fail without making a socket (`"error"`):
`Pulse()` then plans another attempt; user code is told, and
`SetComputerIsAboutToSleep(false)` ignores it, which `failed` records. Only a
connection with the address of another computer is disconnected before the computer
sleeps; which ones these are is chosen freely (`remote`). A session that is disconnected calls `ClientConnectionClosed()`
of the base class, which plans a reconnect or ends the session.

### PacketTunnel, MessageChannel
The sender's `packet` is `_outputPacketBuffer` as a sequence of fragments,
`offset` and `popped` the Message being cut up, `nextId` the id counter.
`AddFragment` is the inner loop of `DoOutputImplementation()`, `WritePacket` and
`OutputEnds` what follows it: the packet goes out whole, or is held. The receiver
reads a packet (`DoInput`) and takes its fragments one by one (`HandleFragment`);
`reading` is what is left of it. A reassembly
buffer is described by the Message each byte came from, so a buffer with bytes of
two Messages, or of none, is told apart from a Message (`MessageIn`). The network
has the faults of the behaviour's `faults`: losing, duplicating, reordering, and
packets of other senders that crowd the sender's state out of the receiver's
table.

`MessageChannel` is a channel of whole Messages. If packets may only be lost and
the receiver's state be crowded out, Messages arrive in order and none twice;
otherwise a Message may be received again: the receiver knows only the id of the
last Message, so a packet that arrives twice and holds two whole Messages is
delivered twice, in order each time. `ImplementsChannel` states that the tunnel
implements it.

### ThreadMessaging
`queue`, `signals` and `socket` are the two `ThreadSpecificData`: its Messages,
whether its socket has bytes (or its WaitCondition a notification), and whether
its end of the pair is open; `useSockets` chooses one of the two mechanisms. A
step is what a thread does while it holds a queue's lock, or one call outside of
it: the sender's `SignalAux` comes after the lock is released, the receiver
absorbs signals (`Absorb`), then looks (`Pop`, `PopNothing`), then waits
(`Wakes`). `Joins` is the end of `WaitForInternalThreadToExit()` with
`CloseSockets()`. A `helper` thread sends to the internal thread as well.

## 4. What is checked

`tunnel_held` shows where the code disagrees with its own documentation;
PROJECT.json quotes the lines. All other runs pass.

| run | shows | states |
|---|---|---|
| `node_tree` | marks equal a recount, no orphans, node counts exact, marks never negative | 20,301 |
| `deliver_items` | the client's copy is complete and has no ghosts | 183,394 |
| `deliver_index` | the client's indices equal the server's; no dangling, no duplicate index entry | 26,202 |
| `node_traversal` | every match visited once; strings of different depths do not conspire; every session reached | 36,974 |
| `mutex` | exclusion, counts, tables, no lost wakeup (writers preferred) | 248,457 |
| `mutex_live` | writers get in | 6,224 |
| `thread_pool` | order, the code's assertions, safe unregistering, no idle thread while somebody waits; every Message handled, unregistering returns | 277,082 |
| `pulse_node` | lists and aggregate times survive callbacks, nobody is skipped; the trees implement `PulseSchedule`; what is due is pulsed | 90,713 |
| `packet_tunnel` | without faults everything arrives; with any of them the tunnel implements `MessageChannel` | 534,804 |
| `tunnel_held` (violation) | a packet held because the socket was full is not sent unless another Message comes | |
| `thread_messages` | no lost wakeup, order across restarts; queued Messages are handled, shutdown returns | 58,729 |
| `reflect_server` | each session detached once, flags match sockets, reconnects neither forgotten nor planned for a live connection; ended sessions are detached and due timers served | 359,770 |

### Observations without a run
Met while modelling; most can be reproduced by changing a constant or adding one
invariant to a configuration above, as said for each.
* `_indexingPresent` is set by `SetDataNode` and `InsertOrderedData` and not by
  REORDERDATA, so an index made only by REORDERDATA is skipped by
  `GetDataCallback` for its owner (`StorageReflectSession.cpp:1349`, against the
  comment at line 1366).
* A node whose payload begins to match a filter is sent without the index it
  already has (`NodeChanged`, line 353); `IndexInSync` fails in `deliver_index`
  with `Value <- MCValue`, `Filter <- AnyFilter`, `NoFilter <- MCValue`.
* A writer that times out while a reader executes notifies nobody
  (`ReaderWriterMutex.cpp:192`); readers that waited behind it sleep on until
  that reader unlocks, although they could share the lock.
* A thread that fails to start leaves an accepted Message pending until another
  client's first Message or the end of another batch runs the dispatcher
  (`ThreadPool.cpp:215`); `EveryMessageHandled` and `UnregisterReturns` are
  therefore stated for behaviours without such a failure.
* Two path strings with the same number of clauses conspire: the check at
  `StorageReflectSession.cpp:1669` is skipped if `GetEntries()` has one item, but
  that table has one item per number of clauses and not per string, against the
  comment at lines 1664-1666. To reproduce, drop `Cardinality(Depths) > 1` from the
  last conjunct of `VisitsEachMatchOnce`.
* `ChangeQueryFilterCallback()` (`StorageReflectSession.cpp:1327`) looks at the
  one string whose filter changes and reports a node as removed although another
  string of the session still matches it. `ViewComplete` fails in `deliver_items`
  with a second string that matches the same node.
* A callback's result ends the walk of the siblings only if it is below
  `GetDepth()-1` (`StorageReflectSession.cpp:1683`), so a session with two
  matching nodes directly below its session node is sent a passed Message twice,
  against the comment at line 1264 and `html/Beginners Guide.html:380`.
* `TryLockReadWrite()` by a reader among readers gives up its read-only locks and,
  when it fails, takes them again with a call that has no timeout
  (`ReaderWriterMutex.cpp:115`): it may block, although
  `ReaderWriterMutex.h:150-151` says "without blocking". In `mutex`, the state
  `call[t] = "try" /\ pc[t] = "waitR"` is reachable (a try-lock of its own never
  waits).
* A PulseNode that is invalidated, or removed and put back, inside its own
  `GetPulseTime()` ends up with an invalid time and off its parent's list of
  nodes to recalculate (`PulseNode.cpp:45` and `:65`), where nothing finds it until
  something else moves it. `InvalidIsRecalculated` fails with `Reentrant = TRUE`.
* Calling `Reconnect()` for a session whose automatic reconnect is planned leaves
  that plan in place: the timer later replaces the connection that was made
  (`AbstractReflectSession.cpp:440`). `PlannedOnlyWhenDown` fails with
  `ManualReconnect = TRUE`.
* A session that ends in `EventLoopCycleBegins()` is acted on only in the next
  cycle, which waits for an event first: `EndedIsDetached` fails with
  `CallsInCycleBegin = TRUE`.
* `ReplaceSession()` moves the gateway and not `_isConnected`, `_connectingAsync`
  or `_asyncConnectDest`: a session that is replaced while it connects is never
  finalized (`ReflectServer.cpp:952`).
* `SetComputerIsAboutToSleep(false)` ignores the error of a dormant session's
  `Reconnect()` (`ReflectServer.cpp:1212`), whereas `Pulse()` plans another attempt:
  if no socket, DataIO or gateway can be made then, a session that is to reconnect by
  itself has no socket, no plan and no entry any more. `NeverForgotten` excludes such
  sessions by name (`failed`); without that disjunct it is violated in
  `reflect_server`.
* `EndServer()` called from `AboutToDetachFromServer()` in the loop takes effect a
  cycle later, after a wait for an event, because the loop's condition is tested
  before the lame ducks are cleared (`ReflectServer.cpp:780`).
* `MiniPacketTunnelIOGateway.h:37` has the `HasBytesToOutput()` that `tunnel_held`
  is about as well. A sender that is restarted counts its Message ids from zero
  again; a receiver in the middle of a Message of the same id and size then takes
  the new one's fragments if they come at its offset.
* A NULL Message sent to a thread that has quit by itself stays in its queue, and
  the thread quits at once when it is started again (`Thread.cpp:165`). A helper
  that sends while the owner closes the sockets races with it
  (`Thread.cpp:93-100`); the model takes the two as atomic.

### Bounds and why they are enough
* `node_tree`: two sessions of one host (the host node outlives one of them),
  names a and b, paths of one and two clauses, strings that overlap at each
  level, a node limit of two (met in the middle of a two-clause path). The
  theorems remove these bounds for all four properties.
* `deliver_*`: one writer, one reader that comes and goes (and, for items, the
  writer reading itself), two payloads and a filter that tells them apart,
  Messages that overflow at two fields, at most one Message unread when a new
  command is given (`MaxQueued`; the superceding update finds queued Messages
  then, and a command may add several). The item run uses one string: with two
  overlapping ones it fails (see the observations). The index
  run uses no filters for the same reason; it has one
  indexed node below the session's with two children, inserted and moved before
  the first, the other, a missing entry and at the end. Theorems remove
  the bounds of all four properties. `TheoremsApply` in `MCNodeDelivery` has TLC
  confirm that both instances satisfy the hypotheses of those theorems.
* `node_traversal`: six possible nodes in two sessions, up to two strings of six
  kinds (all wildcards, plain names, name lists, mixtures, two depths).
* `mutex*`: writers preferred (the theorems hold for either preference), three threads (two that compete and one that interferes), recursion
  of two, one told-apart stale WaitCondition; the theorems remove the bounds.
* `thread_pool`: three clients on two threads, so that one has to wait for a
  thread, two Messages per registration with any number of registrations, one
  failing start, a shutdown at any time. The theorems remove these bounds for
  the four safety properties.
* `pulse_node`: one root and two more nodes, which are siblings, a chain, or not
  in the tree, and may change from one to the other; two moments and "never", so
  that times can be equal, due, in the future and absent; two calls by user code
  anywhere in any number of cycles of the loop. Two calls are what it takes to undo in a
  callback what another has done.
* `packet_tunnel`: packets of four units with headers of one; Messages of seven,
  four, one and one bytes, so that a Message takes three packets, one shares a packet
  with the end of another, one fits exactly and two whole ones share a packet; three packets under way, any
  number of losses, two duplications or evictions, any reordering. The sizes stand
  for the real ones because the code compares and adds only, and the theorems hold
  for any sizes and any number of packets and faults.
* `tunnel_held`: the same without faults.
* `thread_messages`: two Messages from two senders, two starts, two shutdowns and
  a quit; the theorems remove these bounds.
* `reflect_server`: two sessions over the whole life of the server, of every kind
  (accepted, connecting, dormant, replacing), two calls besides the additions;
  every connect has a time limit. User code does not reconnect a session that
  will reconnect by itself and does not call the server in
  `EventLoopCycleBegins()`: both fail, see the observations. More sessions were
  not needed to break any of the properties in a mutated model, and the theorems
  hold for any number of them.

`CHECK_DEADLOCK FALSE` is set for `node_traversal` (the inputs only grow), for
`thread_pool` (a client that registers after the pool has been shut down waits for
ever in `UnregisterClient`: hazard at `ThreadPool.h:119`), for the tunnel (all
Messages are sent and read), for `thread_messages` (all Messages are handled and
the thread is not started again) and for `reflect_server` (the server is stopped).

### Fairness
`mutex_live`: a thread that can proceed inside its call does so (weak fairness,
the operating system's scheduling); a thread that holds locks unlocks them, and
one that could give up its last lock again and again finally does (strong
fairness: clients that never let go may starve others in any lock).
`thread_pool`: handlers return, `_poolLock` is granted to who asks for it
and a notified `Wait()` returns (weak fairness). No client has to do anything,
and nobody has to shut the pool down.
`pulse_node`: the loop's thread runs, its callbacks return and its clock advances
(weak fairness of what the loop does); sockets need not become ready and user code
need not do anything. A `Pulse()` that asks for a time that is due already is
served in the next cycle, so the loop does not starve anybody within a cycle.
`thread_messages`: each thread that can go on does (weak fairness per thread).
`reflect_server`: the server's thread runs, callbacks return and timers run out;
the network and the user owe nothing, so a timer must be served without any other
event. `tunnel_held`: the sender's loop runs while it says that it has output, the
socket does not refuse packets for ever (strong fairness) and packets are read:
the counterexample stays within this fairness.

## 5. What is proved

`NodeDatabase_proofs`, the database (`TreeTypeCorrect`, `MarksCorrect`,
`TreeHasNoOrphans`, `CountsCorrect`): for any sets of sessions,
hosts, names, patterns, filters and inputs and any limits that satisfy the
ASSUMEs of `NodeTree`. The inductive invariant of the first two is `TreeTypeOK`
together with
`MarksMatchSubscriptions`; neither is inductive alone, because the floored
subtraction of `Cleanup()` gives zero only if the mark was at most 2147483647,
which follows from the mark being the number of matching strings and from the
assumption that there are no more patterns than that. The lemmas say what adding
and removing one string does to the number of matching strings
(`MatchCountAdd`, `MatchCountRemove`) and that every step adds nodes, keeps
nodes or changes one session's marks. The other two add `TreeShape` (every node
has its parent and an attached owner, told by the first two names of its path, and
the nodes that a session was attached with are there: without this, a client's
first SETDATA could create an orphan) and `CountsOK` (a session that is not
attached counts from zero). The hard step is `CreatedFacts`: what `SetDataNode()`
creates on its way down is a chain whose n-th element was admitted when n - 1 had
been counted, so that it never takes the session above its limit.

`NodeDatabase_proofs`, the indices (`IndexKeepsTree`, `IndicesCorrect`): for any
database and any insert-before strings. Every step of `NodeIndex` is a step or a stutter of
`NodeTree`, so its theorems carry over. `IndexInv` is inductive with the invariant
of the tree: that `ReorderChild()` finds the parent needs `TreeShape`, and that
the entry which `RemoveChild()` takes out is the only one of its name needs the
absence of duplicates, and conversely. `EntriesKept` and `ListsKept` show that
dropping any set of entries leaves the rest in order and without repetition.

`NodeDelivery_proofs` (`DeliveryKeepsIndices`, `CopiesComplete`,
`CopiesHaveNoGhosts`, `IndicesInSync`): for any sessions, nodes, payloads, strings,
batch limit and length of the queues, and any interleaving of the handlers with the
clients' reading. `DeliveryKeepsIndices` needs no hypothesis: every step is one of
`NodeIndex` or leaves the database alone, so the theorems above hold here too. The
others have hypotheses on the constants, each of which the code makes necessary:

* `Unquiet`: no SETDATA has the QUIET flag, which is there to keep subscribers from
  hearing of a change.
* `FiltersApart` (`CopiesComplete`, `CopiesHaveNoGhosts`): nobody uses a filter, or
  no two strings match the same node. Otherwise `ChangeQueryFilterCallback()` takes
  away a node that another string still matches (see the observations).
* `Filter = {NoFilter}` (`IndicesInSync`): nobody uses a filter. Otherwise a node
  whose payload begins to match is sent without its index (see the observations).

The inductive invariant `DeliveryInv` adds three parts to those of the tree and the
indices: between two commands nothing is left in the Messages being gathered
(`Idle`); the queues and copies have their types; and `InSync`: for every session and
every path, what the client will hold at that path once it has read its queue and the
gathered Messages (`XItem`, `XIndex`) is what the session subscribes to of the
database. This is stronger than the properties in two ways that the induction needs. It
speaks of all sessions and not of the subscribers: a detached one will see nothing, so
it starts from nothing when it attaches. And it speaks of all paths, those without a
node included: only so is a node that is created again absent before. It is proved
in this order, the first two parts at the end of `NodeDatabase_proofs`:

* one client and one Message: what `Receive` does to one path (`ItemAfter`,
  `IndexAfter`), and to a queue read in order (`ReadFold`, `ReadAppend`, `ReadHead`).
* one notification: a push does not change what a client will see (`PushKeeps`);
  pruning a superceded update from the queue or the gathered Message changes it only
  at the path that the update is about to overwrite; `NodeChangedAux()` sets one path
  of one client, which is where the flush before a removal is needed (the client
  applies removals first); a fold over the subscribers does so for each of them.
* a sequence of notifications (`Tells`): if each event takes an intermediate
  database to the next one, the clients are in step with the last. `SetDataNode`
  passes through the databases with one more intermediate node each, a removal
  through those with one node less (`DBBefore`, `IXBefore`), whatever the order of
  the siblings.
* one lemma per action (`AttachDelivery` to `SubscribeDelivery`). Subscribing is the
  longest: `DoGetData()` sends at least the nodes and indices that the new string
  adds, in Messages of any size, and where it sends a node again the client already
  has it.

The folds over sequences and sets are reasoned about through the function of all
prefixes or subsets that they compute, whose existence and uniqueness is proved from
the well-foundedness of the numbers (`AllNat`, `SubsetInduction`,
`PositionInduction`): a set of numbers stands where an induction principle would have
a predicate, which these provers could not instantiate.

`ReaderWriterMutex_proofs` (`MutexExcludes`, `MutexLosesNoWakeup`,
`MutexTables`, `MutexTotal`): for any number of threads, either preference, any timeouts and
any recursion. The inductive invariant `MutexInv` is `TypeOK`,
`MutualExclusion`, `TotalIsSum`, `TablesMatchCalls`, `NoLostWakeup` and
`Upgrading` (what a thread holds in the middle of an upgrade). It is proved in
four layers, each of which uses the ones before: counts, calls, tables, wakeups.
The wakeup layer needs the tables (the thread at the head of the table is one
whose call waits) and the counts (nobody executes when the last count drops).

`ThreadMessaging_proofs` (`MessagingTypeCorrect`, `MessagingLosesNoWakeup`,
`MessagingKeepsOrder`): for any number of Messages, starts, shutdowns and quits
and with either mechanism. `NoLostWakeup` is not inductive alone: `WakeupInv` adds
the types and `SocketsOpen` (while the internal thread runs with sockets, both
ends are open, so that a signal is not swallowed). `OrderInv` says that
the Messages handled and those queued, without the NULLs, are 1 to `sent` in order;
it is inductive with the types.

`ThreadPool_proofs` (`PoolInvariant`, `AssertionsHold`, `UnregisteredUntouched`,
`NobodyWaitsForIdle`, `HandledInOrder`): for any number of clients, threads and
Messages, any failing starts and a shutdown at any time. The inductive invariant
`PoolInv` is the types with three parts that relate the tables: `ThreadsOK` (every
active thread's client is marked as handled, no two have the same client, and in a
running pool the thread ids are used without gaps), `ClientsOK` (a handled client has
nothing pending, one that is not handled nothing deferred, one that is not registered
or whose owner may leave neither) and `QueuesOK` (a thread's queue and then the
client's pending or deferred Messages are the numbers from `done` to `sent`). The
dispatcher's loop is shown once, in closed form, to keep them, and every action that
dispatches cites that lemma. `ThreadsOK` alone is not inductive: that the dispatcher
does not give a client a second thread needs `ClientsOK`, because a pending client is
not being handled.

`ReflectServer_proofs` (`ServerInvariant`, `SessionsDetachedOnce`, `FlagsCorrect`,
`SessionsRemembered`, `PlansCorrect`): for any number of sessions and calls from any
callback. `Structure` says that the table has no duplicates and fits the places of
the sessions, that the loop's index is valid after any change of the table, and
what `AttachNewSession()` relies on between its two halves; `MembersOK` holds the
flags of the sessions that are not lame ducks. `SessionsRemembered` covers every
outcome of every `Reconnect()`, and excludes the sessions whose last one failed
outside of `Pulse()`, as `NeverForgotten` does. `PlansCorrect` has the hypothesis
`~ManualReconnect`: without it the code does plan a reconnect for a session that
has a connection (see the observations).

`PacketTunnel_proofs` (`TunnelInvariant`, `TunnelDropsNothing`,
`TunnelImplementsChannel`): for any Message sizes, header, MTU larger than a header,
and number of packets, losses, duplicates and evictions. The id counter is assumed
not to wrap around within the behaviour (`IdSpace > Len(MessageSize)`; it has 32
bits). The invariant has three layers. `WholeInv` holds under all faults: a fragment
is a piece of the Message that its id names, and the bytes received so far are those
of one Message. `InOrder` holds if packets are only lost or the state crowded out:
the fragments in the receiver, the packet being read, the network and the sender's
packet follow each other. `NoGap` holds without faults: each of them begins where the
last one ended. The refinement maps `sent` to `accepted` and follows from the first
two layers; `NothingDropped` follows from the third.

`PulseNode_proofs` (`ListsCorrect`, `NobodyForgotten`, `AggregatesCorrect`,
`PulsesEveryone`, `RefinesSchedule`): for any finite set of nodes, any sequence of
roots, any times and any calls from the callbacks. `ListsCorrect` holds without a
further hypothesis; the others assume `~Reentrant`, because they are false for a
`GetPulseTime()` that invalidates what is being recalculated (see the observations;
`pulse_node` checks the same case). The inductive invariant has four layers, each
of which uses the ones before:

* `ListsInv`: every child is in one list of its parent, once, the scheduled list is
  sorted, and a walk is under way only from a root and in a phase that walks.
* `MarkInv`: a node that must be asked, or has a child to recalculate, is itself to
  be recalculated. It may fail for the nodes whose calls are on the stack and for no
  others; that exception is what makes it inductive, since `GetPulseTimeAux()` takes
  a node off its parent's list only when it returns.
* `AggInv`: the parents have no cycle, and a node that is not to be recalculated
  and not on the stack has the least of its own time and those of its scheduled
  children as its aggregate. A call on the stack is for a child of the next one,
  unless a callback has moved it since.
* `RootsInv`: the roots that were served in this phase, and the times that the loop
  took from them, are as the walk left them; `PulseAux()` calls `Pulse()` only on
  what is due.

The invariant speaks of parents and children; the properties speak of whole
subtrees. The bridge is `UnsettledUp`: the parent of an unsettled node (one that is
to be recalculated, is on the stack or has no parent) is unsettled, so all nodes
below a settled one are settled, and its aggregate bounds them all (`EarliestBound`). That the bound is attained (`EarliestAttained`) goes down from
the node to a child with the same aggregate and ends because there is no cycle; it
is an argument about a smallest subtree, as induction is not at hand.
`StepIsAbstract` then shows action by action that a step is a step of
`PulseSchedule` or a stutter: `UserTurn` for the calls of user code, `WalkRings` for
the steps that reach a node whose time has come, `AfterReturn` for those that
return from a call of either walk.

Only model-checked: liveness and fairness, which are out of this prover's reach
(`DueIsPulsed` of `PulseNode` among them), and the two invariants of `NodeTraversal`,
whose traversal is a RECURSIVE operator that the provers cannot reason about.

## 6. Not modelled

* Out-of-memory paths everywhere; they log and return.
* In the node database: `CloneDataNodeSubtree`, `SaveNodeTreeToMessage`,
  `RestoreNodeTreeFromMessage`, checksums, privileges, the jettison commands,
  GETDATATREES, the parameters that do not concern subscriptions,
  `PR_NAME_SUBSCRIBE_QUIETLY`, `PR_NAME_DISABLE_SUBSCRIPTIONS`, quiet removals,
  several `SUBSCRIBE:` fields in one Message, and filters that retarget the
  payload they test. Session ids are taken as unique.
* In the traversal: escape characters and clauses with regular expressions
  beyond the set of names that they accept.
* In the event loop: I/O policies, the timer of output stalls (a stall is a
  connection that is lost), factories that come and go, file descriptors that are
  reused within a cycle, and overridden callbacks that change the rules
  (`ClientConnectionClosed()` is the base class's).
* In the tunnel: the slave gateway, `_maxIncomingMessageSize`,
  `MiniPacketTunnelIOGateway`, misc data and source exclusion ids.
* In `Thread`: additional sockets of the internal thread, callback mechanisms.
* Serialisation, string matching, containers, stream gateways, platform I/O,
  language bindings, tools and vendored code (among them zlib): data formats,
  data structures the models use as sequences and functions, or thin wrappers of
  system calls. They are most of the repository's lines and hold little of its
  concurrency; a state machine of them would be a transliteration.
