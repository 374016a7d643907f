------------------------------ MODULE NodeTree ------------------------------
(***************************************************************************)
(* The node database of a MUSCLE server: the tree of DataNodes that the    *)
(* StorageReflectSessions of one ReflectServer share, the subscriptions of *)
(* every session and the subscription marks that the nodes carry for them. *)
(*                                                                         *)
(* Level 1 of the tree holds one node per host, level 2 one node per       *)
(* session and the levels below it the nodes that the session's client     *)
(* creates.  The server is single threaded: every handler below runs from  *)
(* start to end inside one turn of the event loop, so it is one action.    *)
(*                                                                         *)
(* A path is the sequence of node names from the root; the root itself is  *)
(* left out (it exists whenever anything below it does).  A pattern is a   *)
(* sequence of clauses, a clause the set of names that its StringMatcher   *)
(* accepts; a filter is the set of payloads that its QueryFilter accepts.  *)
(***************************************************************************)
EXTENDS Integers, Sequences, FiniteSets

CONSTANTS
  Session,       \* session ids
  Host,          \* host names
  HostOf,        \* the host that each session connects from
  Name,          \* the names that clients give to their nodes
  Value,         \* node payloads
  EmptyMsg,      \* the payload of host, session and intermediate nodes
  Pattern,       \* the subscription strings in use
  RelPath,       \* the session-relative paths that clients write to
  RelPattern,    \* the session-relative strings of PR_COMMAND_REMOVEDATA
  SetFlags,      \* the SETDATANODE_FLAG_* combinations in use
  Filter,        \* the QueryFilters in use
  NoFilter,      \* the absence of a QueryFilter
  MaxNodeCount,  \* _maxNodeCount
  MaxChildren,   \* _maxChildrenPerDataNodeCount
  MaxNodeDepth   \* MUSCLE_MAX_NODE_DEPTH

PathName == Host \cup Session \cup Name
Path     == Seq(PathName)

ASSUME HostAssumption   == HostOf \in [Session -> Host]
ASSUME ValueAssumption  == EmptyMsg \in Value
ASSUME FilterAssumption ==
  /\ Filter \subseteq SUBSET Value
  /\ NoFilter = Value
  /\ NoFilter \in Filter
ASSUME InputAssumption  ==
  /\ RelPath \subseteq Seq(Name) \ {<<>>}
  /\ RelPattern \subseteq Seq(SUBSET Name) \ {<<>>}
  /\ SetFlags \subseteq
       [dontCreate : BOOLEAN, dontOverwrite : BOOLEAN, quiet : BOOLEAN,
        addToIndex : BOOLEAN, supercede : BOOLEAN]
ASSUME LimitAssumption  ==
  /\ MaxNodeCount \in Nat
  /\ MaxChildren \in Nat \ {0}
  /\ MaxNodeDepth \in Nat \ {0, 1}

(* A reference count is a uint32, and Cleanup() clears it by subtracting   *)
(* 2147483647: no session may hold more subscription strings than that.    *)
ClearAllDelta == -2147483647
ASSUME PatternAssumption ==
  /\ Pattern \subseteq Seq(SUBSET PathName)
  /\ IsFiniteSet(Pattern)
  /\ Cardinality(Pattern) <= -ClearAllDelta

VARIABLES
  data,       \* the payload of every node; its domain is the set of nodes
  marks,      \* _subscribers of every node: a count per session
  sessions,   \* the sessions attached to the server
  subs,       \* _subscriptions: the strings each session subscribes to
  filters,    \* ... and the QueryFilter of each of them
  nodeCount   \* _currentNodeCount of every session

treeVars == <<data, marks, sessions, subs, filters, nodeCount>>

nodes == DOMAIN data

-----------------------------------------------------------------------------
(* Paths *)

Parent(p)         == SubSeq(p, 1, Len(p) - 1)
NodeName(p)       == p[Len(p)]
IsWithin(p, top)  == Len(top) <= Len(p) /\ SubSeq(p, 1, Len(top)) = top
HostPath(s)       == <<HostOf[s]>>
SessionPath(s)    == <<HostOf[s], s>>
ChildrenOf(p)     == {q \in nodes : Len(q) > 1 /\ Parent(q) = p}
SubtreeOf(p)      == {q \in nodes : IsWithin(q, p)}
UserNodesOf(s)    == {q \in SubtreeOf(SessionPath(s)) : Len(q) > 2}

-----------------------------------------------------------------------------
(* Subscriptions and marks *)

(* NodePathMatcher::PathMatches: only the clauses, as for a NULL message   *)
PathMatches(pat, p) ==
  /\ Len(pat) = Len(p)
  /\ \A j \in 1 .. Len(p) : p[j] \in pat[j]

MatchingSubs(S, p) == {pat \in S : PathMatches(pat, p)}

(* NodePathMatcher::GetMatchCount, called with no message to filter        *)
GetMatchCount(S, p) == Cardinality(MatchingSubs(S, p))

(* Mutant: the subtraction is not floored at zero.                         *)
AddToMark_NoFloor(count, delta) == count + delta

(* The count that GetDataNodeSubscribersTableFromPool stores.  A count of  *)
(* zero is the absence of the table entry.                                 *)
AddToMark(count, delta) ==
  IF delta >= 0 THEN count + delta
  ELSE IF count >= -delta THEN count + delta ELSE 0

(* Mutant: a new node is marked once however many strings match it.        *)
NewMarks_Once(p) ==
  [s \in Session |->
     IF s \in sessions /\ MatchingSubs(subs[s], p) # {} THEN 1 ELSE 0]

(* NotifySubscribersOfNewNode -> NodeCreated of every attached session.    *)
(* The table of a new node starts out empty.                               *)
NewMarks(p) ==
  [s \in Session |->
     IF s \in sessions THEN AddToMark(0, GetMatchCount(subs[s], p)) ELSE 0]

(* DoTraversal of DoSubscribeRefCallback: session s adds delta to its mark *)
(* on every node that one of the strings in S matches.                     *)
DoSubscribeRef(s, S, delta) ==
  marks' = [q \in nodes |->
              IF MatchingSubs(S, q) = {} THEN marks[q]
              ELSE [marks[q] EXCEPT ![s] = AddToMark(@, delta)]]

-----------------------------------------------------------------------------
(* Sessions *)

TreeInit ==
  /\ data = <<>>
  /\ marks = <<>>
  /\ sessions = {}
  /\ subs = [s \in Session |-> {}]
  /\ filters = [s \in Session |-> [pat \in Pattern |-> NoFilter]]
  /\ nodeCount = [s \in Session |-> 0]

(* AttachedToServer: the host node if it is not there yet, then the        *)
(* session's own node.  The limits are loaded only after that, so nothing  *)
(* limits these two.                                                       *)
AttachedToServer(s) ==
  LET created == {HostPath(s), SessionPath(s)} \ nodes IN
  /\ s \notin sessions
  /\ sessions' = sessions \cup {s}
  /\ data' = [p \in nodes \cup created |->
                IF p \in created THEN EmptyMsg ELSE data[p]]
  /\ marks' = [p \in nodes \cup created |->
                IF p \in created THEN NewMarks(p) ELSE marks[p]]
  /\ UNCHANGED <<subs, filters, nodeCount>>

(* Mutant: the emptied host node stays.                                    *)
CleanedUp_KeepHost(s) == SubtreeOf(SessionPath(s))

(* The nodes that Cleanup() takes away: the session's subtree, and its     *)
(* host node when that was the last session below it.                      *)
CleanedUp(s) ==
  LET mine == SubtreeOf(SessionPath(s)) IN
  IF ChildrenOf(HostPath(s)) \subseteq mine
  THEN mine \cup (nodes \cap {HostPath(s)}) ELSE mine

(* AboutToDetachFromServer -> Cleanup(), and ClearLameDucks() dropping the *)
(* session: its subtree goes, and its marks on the nodes that remain.      *)
AboutToDetachFromServer(s) ==
  LET left == nodes \ CleanedUp(s) IN
  /\ s \in sessions
  /\ sessions' = sessions \ {s}
  /\ data' = [q \in left |-> data[q]]
  /\ marks' = [q \in left |->
                 IF MatchingSubs(subs[s], q) = {} THEN marks[q]
                 ELSE [marks[q] EXCEPT ![s] = AddToMark(@, ClearAllDelta)]]
  /\ subs' = [subs EXCEPT ![s] = {}]
  /\ filters' = [filters EXCEPT ![s] = [pat \in Pattern |-> NoFilter]]
  /\ nodeCount' = [nodeCount EXCEPT ![s] = 0]

-----------------------------------------------------------------------------
(* Creating and changing nodes *)

AbsPath(s, rel) == SessionPath(s) \o rel

(* Mutant: the nodes created earlier in the call are not counted yet.      *)
MayCreate_CountedLate(s, p, n) ==
  /\ nodeCount[s] < MaxNodeCount
  /\ Cardinality(ChildrenOf(Parent(p))) < MaxChildren
  /\ Len(p) <= MaxNodeDepth

(* The limits a session meets when it creates node p, after the same call  *)
(* has already created n nodes: _maxNodeCount, PutChild()'s limit on the   *)
(* number of children and SetParent()'s limit on the depth.                *)
MayCreate(s, p, n) ==
  /\ nodeCount[s] + n < MaxNodeCount
  /\ Cardinality(ChildrenOf(Parent(p))) < MaxChildren
  /\ Len(p) <= MaxNodeDepth

(* The nodes that SetDataNode() creates on its way down to rel.  It stops  *)
(* at the first one it may not create; what it created so far stays.       *)
CreatedBySetDataNode(s, rel, flags) ==
  LET missing == {AbsPath(s, SubSeq(rel, 1, k)) : k \in 1 .. Len(rel)} \ nodes
      above(p) == {q \in missing : Len(q) < Len(p)}
  IN {p \in missing :
        /\ ~flags.dontCreate
        /\ \A q \in above(p) \cup {p} : MayCreate(s, q, Cardinality(above(q)))}

(* Whether SetDataNode() gets to store its payload in the node p.  A node  *)
(* that exists is left alone when the caller asked for it to be indexed.   *)
StoresPayload(p, created, flags) ==
  \/ p \in created
  \/ p \in nodes /\ ~flags.addToIndex /\ ~flags.dontOverwrite

SetDataNode(s, rel, v, flags) ==
  LET created == CreatedBySetDataNode(s, rel, flags)
      target  == AbsPath(s, rel)
  IN
  /\ s \in sessions
  /\ data' = [p \in nodes \cup created |->
                IF p = target /\ StoresPayload(p, created, flags) THEN v
                ELSE IF p \in created THEN EmptyMsg ELSE data[p]]
  /\ marks' = [p \in nodes \cup created |->
                IF p \in created THEN NewMarks(p) ELSE marks[p]]
  /\ nodeCount' = [nodeCount EXCEPT ![s] = @ + Cardinality(created)]
  /\ UNCHANGED <<sessions, subs, filters>>

(* InsertOrderedData -> InsertOrderedChildNode on a node of the session's  *)
(* own subtree.  The server picks a name that no child has yet.            *)
InsertOrderedData(s, parent, nm, v) ==
  LET p == Append(parent, nm) IN
  /\ s \in sessions
  /\ parent \in UserNodesOf(s)
  /\ p \notin nodes
  /\ MayCreate(s, p, 0)
  /\ data' = [q \in nodes \cup {p} |-> IF q = p THEN v ELSE data[q]]
  /\ marks' = [q \in nodes \cup {p} |-> IF q = p THEN NewMarks(p) ELSE marks[q]]
  /\ nodeCount' = [nodeCount EXCEPT ![s] = @ + 1]
  /\ UNCHANGED <<sessions, subs, filters>>

-----------------------------------------------------------------------------
(* Removing nodes *)

(* The nodes whose removal DoRemoveData() collects: those of the session's *)
(* own subtree that the pattern and the filter accept, ...                 *)
RemoveTargets(s, pat, f) ==
  {q \in UserNodesOf(s) : PathMatches(pat, SubSeq(q, 3, Len(q))) /\ data[q] \in f}

(* ... and what RemoveChild() takes away with them.                        *)
RemovedWith(targets) == {q \in nodes : \E t \in targets : IsWithin(q, t)}

DoRemoveData(s, pat, f) ==
  LET gone == RemovedWith(RemoveTargets(s, pat, f)) IN
  /\ s \in sessions
  /\ data' = [q \in nodes \ gone |-> data[q]]
  /\ marks' = [q \in nodes \ gone |-> marks[q]]
  /\ nodeCount' = [nodeCount EXCEPT ![s] = @ - Cardinality(gone)]
  /\ UNCHANGED <<sessions, subs, filters>>

-----------------------------------------------------------------------------
(* Subscribing *)

(* PR_COMMAND_SETPARAMETERS with a SUBSCRIBE: field.  A string that is not *)
(* subscribed yet marks the nodes it matches; for one that is, only the    *)
(* filter changes.                                                         *)
Subscribe(s, pat, f) ==
  /\ s \in sessions
  /\ subs' = [subs EXCEPT ![s] = @ \cup {pat}]
  /\ filters' = [filters EXCEPT ![s][pat] = f]
  /\ \/ pat \in subs[s] /\ UNCHANGED marks
     \/ pat \notin subs[s] /\ DoSubscribeRef(s, {pat}, 1)
  /\ UNCHANGED <<data, sessions, nodeCount>>

(* RemoveParameter() of a SUBSCRIBE: parameter *)
Unsubscribe(s, pat) ==
  /\ s \in sessions
  /\ pat \in subs[s]
  /\ subs' = [subs EXCEPT ![s] = @ \ {pat}]
  /\ filters' = [filters EXCEPT ![s][pat] = NoFilter]
  /\ DoSubscribeRef(s, {pat}, -1)
  /\ UNCHANGED <<data, sessions, nodeCount>>

-----------------------------------------------------------------------------
TreeNext ==
  \E s \in Session :
    \/ AttachedToServer(s)
    \/ AboutToDetachFromServer(s)
    \/ \E rel \in RelPath, v \in Value, flags \in SetFlags :
         SetDataNode(s, rel, v, flags)
    \/ \E parent \in nodes, nm \in Name, v \in Value :
         InsertOrderedData(s, parent, nm, v)
    \/ \E pat \in RelPattern, f \in Filter : DoRemoveData(s, pat, f)
    \/ \E pat \in Pattern, f \in Filter : Subscribe(s, pat, f)
    \/ \E pat \in Pattern : Unsubscribe(s, pat)

TreeSpec == TreeInit /\ [][TreeNext]_treeVars

-----------------------------------------------------------------------------
(* Correctness *)

(* Types.  The database is finite, and a session that is not attached      *)
(* has no subscription: Cleanup() and the session's destruction drop them. *)
TreeTypeOK ==
  /\ nodes \subseteq Path
  /\ IsFiniteSet(nodes)
  /\ data \in [nodes -> Value]
  /\ marks \in [nodes -> [Session -> Nat]]
  /\ sessions \subseteq Session
  /\ subs \in [Session -> SUBSET Pattern]
  /\ filters \in [Session -> [Pattern -> Filter]]
  /\ nodeCount \in [Session -> Int]
  /\ \A s \in Session \ sessions : subs[s] = {}

(* The incrementally maintained reference counts (NodeCreated,             *)
(* DoSubscribeRefCallback, Cleanup) are what a recount would give: a node  *)
(* carries, for every session, the number of the session's strings that    *)
(* match it.  Too low and a subscriber misses updates for ever, too high   *)
(* and it keeps getting them after it has unsubscribed; a session that is  *)
(* gone has no mark left.                                                  *)
MarksMatchSubscriptions ==
  \A q \in nodes, s \in Session :
    marks[q][s] = IF s \in sessions THEN GetMatchCount(subs[s], q) ELSE 0

(* The database holds no orphan: every node hangs below its parent, every  *)
(* session node below the host of an attached session and every host node  *)
(* above at least one session: what Cleanup() and RemoveChild() leave      *)
(* behind is a tree.                                                       *)
NoOrphans ==
  \A q \in nodes :
    /\ Len(q) > 1 => Parent(q) \in nodes
    /\ Len(q) = 1 => \E s \in sessions : q = HostPath(s)
    /\ Len(q) > 1 => \E s \in sessions : IsWithin(q, SessionPath(s))

(* _currentNodeCount, which SetDataNode(), InsertOrderedChildNode() and    *)
(* RemoveChild() maintain, is the size of what the session really stores,  *)
(* so the limit it is checked against is a limit on the database, also     *)
(* after a call that failed half way down its path.                        *)
NodeCountAccurate ==
  \A s \in sessions :
    /\ nodeCount[s] = Cardinality(UserNodesOf(s))
    /\ nodeCount[s] <= MaxNodeCount
=============================================================================
