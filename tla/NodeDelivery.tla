---------------------------- MODULE NodeDelivery ----------------------------
(***************************************************************************)
(* How subscribers learn of the node database.  Every change of NodeIndex  *)
(* notifies the sessions that the node is marked for (NodeChanged,         *)
(* NodeIndexChanged); they gather the notifications in two Messages that   *)
(* PushSubscriptionMessages() moves to the gateway's outgoing queue at the *)
(* end of every client Message, and the client replays them to keep a copy *)
(* of the nodes it subscribes to.                                          *)
(*                                                                         *)
(* The client is the one of the documentation: it applies a DATAITEMS      *)
(* Message's removals before its items, keeps the indices as the op codes  *)
(* of INDEXUPDATED say, and, because the server says nothing when a        *)
(* subscription ends, ends one with REMOVEPARAMETERS and PING in one BATCH *)
(* and drops what it no longer subscribes to when the PONG comes back.     *)
(***************************************************************************)
EXTENDS NodeIndex

CONSTANTS
  None,           \* no payload, no session
  Writers,        \* the sessions whose clients change nodes
  Readers,        \* the sessions whose clients subscribe
  ReflectToSelf,  \* those that have set PR_NAME_REFLECT_TO_SELF
  MaxItems,       \* _maxSubscriptionMessageItems
  MaxQueued       \* bound: nothing is asked of a server with more in a queue

ASSUME DeliveryAssumption ==
  /\ None \notin Value \cup [by : Session, flags : SetFlags]
  /\ Writers \subseteq Session /\ Readers \subseteq Session
  /\ MaxItems \in Nat /\ MaxQueued \in Nat

VARIABLES
  out,      \* the gateway's outgoing Message queue of every session
  pend,     \* _nextSubscriptionMessage: paths removed, and the newest items
  ipend,    \* _nextIndexSubscriptionMessage: the index ops of every path
  client,   \* what every client has made of the Messages it has read
  setting   \* the SETDATA in progress: its session and flags, or None

dataVars     == <<treeVars, indexVars>>
deliveryVars == <<out, pend, ipend, client, setting>>

NoItems  == [removed |-> {}, items |-> <<>>]
NoClient == [items |-> <<>>, index |-> <<>>]

-----------------------------------------------------------------------------
(* Notifications *)

Changed(p, old, new, supercede) ==
  [kind |-> "node", path |-> p, old |-> old, new |-> new, removed |-> FALSE,
   supercede |-> supercede]
Removed(p) ==
  [kind |-> "node", path |-> p, old |-> data[p], new |-> data[p], removed |-> TRUE,
   supercede |-> FALSE]
IndexOp(op, p, at, nm) == [kind |-> "index", op |-> op, path |-> p, at |-> at, name |-> nm]
Nothing == [kind |-> "none"]

Subscribers(p) ==
  {t \in sessions : (IF p \in nodes THEN marks[p] ELSE NewMarks(p))[t] > 0}

(* NodePathMatcher::MatchesNode on the subscriptions of session s.  No     *)
(* payload passes every filter.                                            *)
MatchesNode(s, p, v) ==
  \E pat \in MatchingSubs(subs[s], p) : v = None \/ v \in filters[s][pat]

HasFilters(s) == \E pat \in subs[s] : filters[s][pat] # NoFilter

(* NodeChanged: what a session with QueryFilters makes of a change         *)
BecomesRemoved(s, e) ==
  \/ e.removed
  \/ HasFilters(s) /\ e.old # None /\ ~MatchesNode(s, e.path, e.new)

(* Mutant: a payload that begins to match a filter goes unnoticed.         *)
Ignores_OldPayload(s, e) ==
  HasFilters(s) /\ ~MatchesNode(s, e.path, IF e.old = None THEN e.new ELSE e.old)

(* A session with QueryFilters hears of a node only if it saw the node     *)
(* before or sees it now.                                                  *)
Ignores(s, e) ==
  /\ HasFilters(s)
  /\ IF BecomesRemoved(s, e) THEN ~MatchesNode(s, e.path, e.old)
     ELSE ~MatchesNode(s, e.path, e.new)

-----------------------------------------------------------------------------
(* The Messages of a session.  D is the record of out, pend and ipend.     *)

ItemsMessage(m)   == [kind |-> "items", removed |-> m.removed, items |-> m.items]
IndexMessage(ops) == [kind |-> "index", ops |-> ops]

(* GetNumNames(): all removals share one field                             *)
NumNames(m) ==
  Cardinality(DOMAIN m.items) + (IF m.removed = {} THEN 0 ELSE 1)

(* PushSubscriptionMessages, PushSubscriptionMessage *)
Push(D) ==
  [out   |-> [t \in Session |->
                D.out[t]
                \o (IF D.pend[t] = NoItems THEN <<>> ELSE <<ItemsMessage(D.pend[t])>>)
                \o (IF D.ipend[t] = <<>> THEN <<>> ELSE <<IndexMessage(D.ipend[t])>>)],
   pend  |-> [t \in Session |-> NoItems],
   ipend |-> [t \in Session |-> <<>>]]

With(f, p, x) == [q \in DOMAIN f \cup {p} |-> IF q = p THEN x ELSE f[q]]
Without(f, p) == [q \in DOMAIN f \ {p} |-> f[q]]

(* Supercede: drop the update of p that is still waiting, in the Message   *)
(* being gathered or else in the newest queued one that has it.            *)
PruneSubscriptionMessage(D, s, p) ==
  LET queue == D.out[s]
      at == SelectLastInSeq(queue, LAMBDA m : m.kind = "items" /\ p \in DOMAIN m.items)
      pruned == [queue[at] EXCEPT !.items = Without(@, p)]
  IN CASE p \in DOMAIN D.pend[s].items ->
            [D EXCEPT !.pend[s].items = Without(@, p)]
       [] p \notin DOMAIN D.pend[s].items /\ at = 0 -> D
       [] OTHER ->
            [D EXCEPT !.out[s] = IF NumNames(pruned) = 0 THEN RemoveAt(@, at)
                                 ELSE ReplaceAt(@, at, pruned)]

(* Mutant: an update of a node is not flushed before the node's removal.   *)
NodeChangedAux_NoFlush(D, s, p, v, removed, supercede) ==
  IF removed THEN [D EXCEPT !.pend[s].removed = @ \cup {p}]
  ELSE [D EXCEPT !.pend[s].items = With(@, p, v)]

(* NodeChangedAux: a removal does not fit into a Message that already has  *)
(* an item of the node, because the client applies removals first.         *)
NodeChangedAux(D, s, p, v, removed, supercede) ==
  LET D0 == IF removed /\ p \in DOMAIN D.pend[s].items THEN Push(D) ELSE D
      D1 == IF ~removed /\ supercede THEN PruneSubscriptionMessage(D0, s, p) ELSE D0
      D2 == IF removed THEN [D1 EXCEPT !.pend[s].removed = @ \cup {p}]
            ELSE [D1 EXCEPT !.pend[s].items = With(@, p, v)]
  IN IF NumNames(D2.pend[s]) >= MaxItems THEN Push(D2) ELSE D2

(* NotifySubscribersThatNodeChanged, on behalf of session s, -> NodeChanged *)
NotifyChanged(D, s, e) ==
  FoldSet(LAMBDA t, E :
            IF Ignores(t, e) THEN E
            ELSE NodeChangedAux(E, t, e.path, e.new, BecomesRemoved(t, e), e.supercede),
          D, Subscribers(e.path) \ ({s} \ ReflectToSelf))

(* NotifySubscribersThatNodeIndexChanged -> NodeIndexChanged: no filter,   *)
(* and no exception for the session itself                                 *)
NotifyIndexChanged(D, e) ==
  [D EXCEPT !.ipend =
     [t \in Session |->
        IF t \notin Subscribers(e.path) THEN @[t]
        ELSE With(@[t], e.path, IF e.path \in DOMAIN @[t] THEN Append(@[t][e.path], e)
                                ELSE <<e>>)]]

Notify(D, s, events) ==
  FoldLeft(LAMBDA E, e : CASE e.kind = "node"  -> NotifyChanged(E, s, e)
                           [] e.kind = "index" -> NotifyIndexChanged(E, e)
                           [] e.kind = "none"  -> E,
           D, events)

Pending == [out |-> out, pend |-> pend, ipend |-> ipend]

Becomes(D) == out' = D.out /\ pend' = D.pend /\ ipend' = D.ipend

Ready == setting = None /\ \A s \in Session : Len(out[s]) <= MaxQueued

-----------------------------------------------------------------------------
(* The notifications of each operation, in the order they are made *)

(* The notification of RemoveIndexEntry(), if the child is in the index    *)
EntryRemoval(parent, idx, nm) ==
  IF EntryOf(idx, nm) = 0 THEN <<>>
  ELSE <<IndexOp("r", parent, EntryOf(idx, nm), nm)>>

(* RemoveChild() removes the children first.  The order of siblings is     *)
(* that of a Hashtable, so any.                                            *)
RemovalOrders(gone) ==
  {order \in SetToSeqs(gone) :
     \A j \in DOMAIN order :
       LET sub == gone \cap SubtreeOf(order[j]) IN
       /\ Cardinality(sub) <= j
       /\ {order[i] : i \in (j - Cardinality(sub) + 1) .. j} = sub}

(* The index of order[k]'s parent when the nodes before it are gone        *)
IndexBefore(order, k) ==
  LET idx == IndexOf(Parent(order[k])) IN
  EntriesExcept(idx, {EntryOf(idx, NodeName(order[i])) :
                        i \in {j \in 1 .. k - 1 : Parent(order[j]) = Parent(order[k])}})

(* RemoveChild of each: RemoveIndexEntry(), then the node is gone          *)
NotifyRemoved(D, s, order) ==
  FoldLeft(LAMBDA E, k :
             NotifyChanged(
               Notify(E, s, EntryRemoval(Parent(order[k]), IndexBefore(order, k),
                                         NodeName(order[k]))),
               s, Removed(order[k])),
           D, [k \in DOMAIN order |-> k])

(* The nodes on the way down that are new *)
CreationEvents(paths, created) ==
  [k \in DOMAIN paths |-> IF paths[k] \in created
                          THEN Changed(paths[k], None, EmptyMsg, FALSE) ELSE Nothing]

AttachEvents(s) ==
  CreationEvents(<<HostPath(s), SessionPath(s)>>, {HostPath(s), SessionPath(s)} \ nodes)

InsertEvents(parent, nm, v, before) ==
  LET new == Changed(Append(parent, nm), None, v, FALSE) IN
  IF before = RemoveFromIndex THEN <<new>>
  ELSE <<new, IndexOp("i", parent, InsertPosition(IndexOf(parent), before), nm)>>

(* SetDataNode: the intermediate nodes, then the target.  QUIET silences   *)
(* all but the insertion into an index.                                    *)
SetDataEvents(s, rel, v, flags, before) ==
  LET created == CreatedBySetDataNode(s, rel, flags)
      target  == AbsPath(s, rel)
      above   == [k \in 1 .. Len(rel) - 1 |-> AbsPath(s, SubSeq(rel, 1, k))]
      old     == IF target \in created THEN None ELSE data[target]
      atTarget ==
        CASE target \notin nodes \cup created -> <<>>
          [] target \in created /\ flags.addToIndex ->
               InsertEvents(Parent(target), NodeName(target), v, before)
          [] OTHER ->
               (IF flags.addToIndex \/ before # RemoveFromIndex THEN <<>>
                ELSE EntryRemoval(Parent(target), IndexOf(Parent(target)), NodeName(target)))
               \o (IF StoresPayload(target, created, flags)
                   THEN <<Changed(target, old, v, flags.supercede)>> ELSE <<>>)
      events == CreationEvents(above, created) \o atTarget
      heard(e) == ~flags.quiet \/ (e.kind = "index" /\ e.op = "i")
  IN [k \in DOMAIN events |-> IF heard(events[k]) THEN events[k] ELSE Nothing]

(* Mutant: the position is looked up before the child is taken out.        *)
ReorderEvents_OldPosition(child, before) ==
  LET parent == Parent(child)
      nm     == NodeName(child)
  IN CASE before = nm -> <<>>
       [] before # nm /\ before = RemoveFromIndex -> EntryRemoval(parent, index[parent], nm)
       [] OTHER -> Append(EntryRemoval(parent, index[parent], nm),
                          IndexOp("i", parent, InsertPosition(index[parent], before), nm))

(* ReorderChild: out of the index, and in again at the new position *)
ReorderEvents(child, before) ==
  LET parent == Parent(child)
      nm     == NodeName(child)
      rest   == RemoveIndexEntry(index[parent], nm)
  IN CASE before = nm -> <<>>
       [] before # nm /\ before = RemoveFromIndex -> EntryRemoval(parent, index[parent], nm)
       [] OTHER -> Append(EntryRemoval(parent, index[parent], nm),
                          IndexOp("i", parent, InsertPosition(rest, before), nm))

-----------------------------------------------------------------------------
(* What a client gets to see when it subscribes *)

(* ChangeQueryFilterCallback, on the nodes that an already subscribed      *)
(* string matches: the ones that only the new or only the old filter       *)
(* accepts appear or disappear.                                            *)
ChangeQueryFilter(D, s, pat, f) ==
  FoldSet(LAMBDA q, E :
            IF (data[q] \in filters[s][pat]) = (data[q] \in f) THEN E
            ELSE NodeChangedAux(E, s, q, data[q], data[q] \notin f, FALSE),
          D, {q \in nodes : pat \in subs[s] /\ PathMatches(pat, q)})

(* GetDataCallback: the client's own nodes are left out, unless it asked   *)
(* for them or has an index.                                               *)
GetDataTargets(s, pat, f) ==
  {q \in nodes : /\ PathMatches(pat, q)
                 /\ data[q] \in f
                 /\ s \in ReflectToSelf \/ ~GetDataSkips(s, q)}

IndexSnapshot(q) ==
  <<[kind |-> "index", op |-> "c", path |-> q]>>
  \o [k \in DOMAIN index[q] |-> IndexOp("i", q, k, index[q][k])]

(* DoGetData, SendGetDataResults: the nodes and the indices that are not   *)
(* empty, sent straight to the client in Messages of at most MaxItems.     *)
DoGetData(D, s, pat, f) ==
  LET Send(R) ==
        [R EXCEPT
           !.out   = (IF R.items = <<>> THEN R.out
                      ELSE Append(R.out, ItemsMessage([NoItems EXCEPT !.items = R.items]))),
           !.items = <<>>]
      SendIndex(R) ==
        [R EXCEPT
           !.out = (IF R.ops = <<>> THEN R.out ELSE Append(R.out, IndexMessage(R.ops))),
           !.ops = <<>>]
      AddItem(R, q) ==
        LET R1 == [R EXCEPT !.items = With(@, q, data[q])]
        IN IF Cardinality(DOMAIN R1.items) >= MaxItems THEN Send(R1) ELSE R1
      AddIndex(R, q) ==
        LET R1 == IF index[q] = <<>> THEN R
                  ELSE [R EXCEPT !.ops = With(@, q, IndexSnapshot(q))]
        IN IF Cardinality(DOMAIN R1.ops) >= MaxItems THEN SendIndex(R1) ELSE R1
      all == FoldSet(LAMBDA q, R : AddIndex(AddItem(R, q), q),
                     [out |-> D.out[s], items |-> <<>>, ops |-> <<>>],
                     GetDataTargets(s, pat, f))
  IN [D EXCEPT !.out[s] = SendIndex(Send(all)).out]

-----------------------------------------------------------------------------
(* The documented client *)

ApplyOp(idx, e) ==
  CASE e.op = "c" -> <<>>
    [] e.op = "i" /\ e.at <= Len(idx) + 1 -> InsertAt(idx, e.at, e.name)
    [] e.op = "r" /\ e.at <= Len(idx) -> RemoveAt(idx, e.at)
    [] OTHER -> idx

ClientIndex(c, p) == IF p \in DOMAIN c.index THEN c.index[p] ELSE <<>>

Receive(c, m) ==
  CASE m.kind = "items" ->
         [c EXCEPT !.items =
            [p \in DOMAIN m.items \cup (DOMAIN @ \ m.removed) |->
               IF p \in DOMAIN m.items THEN m.items[p] ELSE @[p]]]
    [] m.kind = "index" ->
         [c EXCEPT !.index =
            LET new(p) == IF p \in DOMAIN m.ops
                          THEN FoldLeft(ApplyOp, ClientIndex(c, p), m.ops[p])
                          ELSE ClientIndex(c, p)
            IN [p \in {q \in DOMAIN @ \cup DOMAIN m.ops : new(q) # <<>>} |-> new(p)]]
    [] m.kind = "pong" ->
         [items |-> [p \in {q \in DOMAIN c.items : \E k \in m.keep :
                              PathMatches(k.pat, q) /\ c.items[q] \in k.filter}
                     |-> c.items[p]],
          index |-> [p \in {q \in DOMAIN c.index : \E k \in m.keep :
                              PathMatches(k.pat, q)} |-> c.index[p]]]

ClientReads(s) ==
  /\ setting = None
  /\ out[s] # <<>>
  /\ client' = [client EXCEPT ![s] = Receive(@, Head(out[s]))]
  /\ out' = [out EXCEPT ![s] = Tail(@)]
  /\ UNCHANGED <<dataVars, pend, ipend, setting>>

-----------------------------------------------------------------------------
(* The operations.  AfterMessageReceivedFromGateway(), Cleanup() and       *)
(* AttachedToServer() end with a push.                                     *)

DeliveryInit ==
  /\ IndexInit
  /\ out = [s \in Session |-> <<>>]
  /\ pend = [s \in Session |-> NoItems]
  /\ ipend = [s \in Session |-> <<>>]
  /\ client = [s \in Session |-> NoClient]
  /\ setting = None

DAttachedToServer(s) ==
  /\ Ready
  /\ IAttachedToServer(s)
  /\ Becomes(Push(Notify(Pending, s, AttachEvents(s))))
  /\ UNCHANGED <<client, setting>>

DAboutToDetachFromServer(s) ==
  /\ Ready
  /\ IAboutToDetachFromServer(s)
  /\ \E order \in RemovalOrders(CleanedUp(s)) :
       LET D == Push(NotifyRemoved(Pending, s, order))
       IN Becomes([D EXCEPT !.out[s] = <<>>])
  /\ client' = [client EXCEPT ![s] = NoClient]
  /\ UNCHANGED setting

(* One value of a PR_COMMAND_SETDATA.  The push comes after its last one,  *)
(* which is the first or the second here.                                  *)
DSetDataNode(s, rel, v, flags, before, more) ==
  LET D    == Notify(Pending, s, SetDataEvents(s, rel, v, flags, before))
      this == [by |-> s, flags |-> flags]
  IN
  /\ \/ Ready
     \/ setting = this /\ ~more
  /\ ISetDataNode(s, rel, v, flags, before)
  /\ Becomes(IF more THEN D ELSE Push(D))
  /\ setting' = IF more THEN this ELSE None
  /\ UNCHANGED client

DInsertOrderedData(s, parent, nm, v, before) ==
  /\ Ready
  /\ IInsertOrderedData(s, parent, nm, v, before)
  /\ Becomes(Push(Notify(Pending, s, InsertEvents(parent, nm, v, before))))
  /\ UNCHANGED <<client, setting>>

DReorderData(s, child, before) ==
  /\ Ready
  /\ ReorderData(s, child, before)
  /\ Becomes(Push(Notify(Pending, s, ReorderEvents(child, before))))
  /\ UNCHANGED <<client, setting>>

DDoRemoveData(s, pat, f) ==
  /\ Ready
  /\ IDoRemoveData(s, pat, f)
  /\ \E order \in RemovalOrders(RemovedWith(RemoveTargets(s, pat, f))) :
       Becomes(Push(NotifyRemoved(Pending, s, order)))
  /\ UNCHANGED <<client, setting>>

DSubscribe(s, pat, f) ==
  /\ Ready
  /\ ISubscribe(s, pat, f)
  /\ Becomes(Push(DoGetData(ChangeQueryFilter(Pending, s, pat, f), s, pat, f)))
  /\ UNCHANGED <<client, setting>>

(* RemoveParameter() of a SUBSCRIBE: parameter, and the PONG *)
DUnsubscribe(s, pat) ==
  LET keep == {[pat |-> p, filter |-> filters[s][p]] : p \in subs[s] \ {pat}} IN
  /\ Ready
  /\ IUnsubscribe(s, pat)
  /\ out' = [out EXCEPT ![s] = Append(@, [kind |-> "pong", keep |-> keep])]
  /\ UNCHANGED <<pend, ipend, client, setting>>

DeliveryNext ==
  \/ \E s \in Session :
       \/ DAttachedToServer(s)
       \/ DAboutToDetachFromServer(s)
       \/ ClientReads(s)
  \/ \E s \in Writers :
       \/ \E rel \in RelPath, v \in Value, flags \in SetFlags,
            before \in SetBefore, more \in BOOLEAN :
            DSetDataNode(s, rel, v, flags, before, more)
       \/ \E parent \in nodes, nm \in Name, v \in Value, before \in InsertBefore :
            DInsertOrderedData(s, parent, nm, v, before)
       \/ \E child \in nodes, before \in ReorderBefore : DReorderData(s, child, before)
       \/ \E pat \in RelPattern : DDoRemoveData(s, pat, NoFilter)
  \/ \E s \in Readers, pat \in Pattern :
       \/ \E f \in Filter : DSubscribe(s, pat, f)
       \/ DUnsubscribe(s, pat)

DeliverySpec == DeliveryInit /\ [][DeliveryNext]_<<dataVars, deliveryVars>>

-----------------------------------------------------------------------------
(* Correctness *)

(* Nobody asks for silence.                                                *)
Unquiet == \A flags \in SetFlags : ~flags.quiet

(* Nobody has a filter, or no two strings match the same node: otherwise   *)
(* changing the filter of one takes away what the other still matches.     *)
FiltersApart ==
  \/ Filter = {NoFilter}
  \/ \A p1, p2 \in Pattern :
       \/ p1 = p2 \/ Len(p1) # Len(p2)
       \/ \E j \in 1 .. Len(p1) : p1[j] \cap p2[j] = {}

(* What the client will hold once it has read all that the server has for  *)
(* it, the Messages still being gathered included.                         *)
View(s) ==
  FoldLeft(Receive, client[s], Push(Pending).out[s])

(* The nodes a subscriber hears of: not its own, unless it asks for them   *)
Heard(s, q) == s \in ReflectToSelf \/ ~IsWithin(q, SessionPath(s))

(* A subscriber's copy is complete: every node that one of its             *)
(* subscriptions matches will be there with its current payload, whatever  *)
(* was batched, flushed early, split or superceded on the way.             *)
ViewComplete ==
  \A s \in Readers \cap sessions :
    LET view == View(s) IN
    \A q \in nodes :
      Heard(s, q) /\ MatchesNode(s, q, data[q]) =>
        q \in DOMAIN view.items /\ view.items[q] = data[q]

(* ... and it holds nothing else: a node that was removed, or whose        *)
(* payload no filter accepts any more, is taken away from the client.      *)
NoGhostNodes ==
  \A s \in Readers \cap sessions :
    \A q \in DOMAIN View(s).items :
      Heard(s, q) => q \in nodes /\ MatchesNode(s, q, data[q])

(* The indices that the client rebuilds from the op codes are those of the *)
(* server, also when children come and go or the subscription starts late. *)
IndexInSync ==
  \A s \in Readers \cap sessions :
    \A q \in nodes :
      Heard(s, q) /\ MatchesNode(s, q, data[q]) =>
        ClientIndex(View(s), q) = index[q]
=============================================================================
