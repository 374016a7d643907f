----------------------------- MODULE NodeIndex ------------------------------
(***************************************************************************)
(* The ordered indices of the node database (DataNode::_orderedIndex): a   *)
(* node may list some of its children in an order that clients maintain    *)
(* with PR_COMMAND_INSERTORDEREDDATA, PR_COMMAND_REORDERDATA and the       *)
(* ADDTOINDEX flag.  Every action here is an action of NodeTree with what  *)
(* the same handler does to the indices.                                   *)
(***************************************************************************)
EXTENDS NodeTree, SequencesExt

CONSTANTS
  AtEnd,             \* the empty insert-before string
  RemoveFromIndex,   \* PR_NAME_REMOVE_FROM_INDEX
  SetBefore,         \* insert-before strings given to SetDataNode()
  InsertBefore,      \* ... to PR_COMMAND_INSERTORDEREDDATA
  ReorderBefore      \* ... and to PR_COMMAND_REORDERDATA

VARIABLES
  index,     \* _orderedIndex of every node, as a sequence of child names
  indexing   \* _indexingPresent of every session

indexVars == <<index, indexing>>

-----------------------------------------------------------------------------
(* The place of the last entry of that name, or zero                       *)
EntryOf(idx, nm) ==
  LET places == {i \in DOMAIN idx : idx[i] = nm}
  IN IF places = {} THEN 0 ELSE Max(places)

(* Where InsertOrderedChild() and ReorderChild() put a child: before the   *)
(* last entry of that name, or else at the end.                            *)
InsertPosition(idx, before) ==
  IF EntryOf(idx, before) = 0 THEN Len(idx) + 1 ELSE EntryOf(idx, before)

(* Mutant: the entry of a removed child stays.                             *)
RemoveIndexEntry_Forgotten(idx, nm) == idx

(* DataNode::RemoveIndexEntry: the last entry of that name, if any         *)
RemoveIndexEntry(idx, nm) ==
  IF EntryOf(idx, nm) = 0 THEN idx ELSE RemoveAt(idx, EntryOf(idx, nm))

(* DataNode::ReorderChild *)
ReorderedIndex(idx, nm, before) ==
  LET rest == RemoveIndexEntry(idx, nm) IN
  CASE before = nm -> idx
    [] before # nm /\ before = RemoveFromIndex -> rest
    [] OTHER -> InsertAt(rest, InsertPosition(rest, before), nm)

(* The index of a node that may just have been created *)
IndexOf(p) == IF p \in nodes THEN index[p] ELSE <<>>

(* The entries of an index at the other places than those lost, in order   *)
EntriesExcept(idx, lost) ==
  LET left == DOMAIN idx \ lost
      nth(k) == CHOOSE i \in left : Cardinality({j \in left : j <= i}) = k
  IN [k \in 1 .. Cardinality(left) |-> idx[nth(k)]]

(* The indices left when the nodes in gone are removed: the RemoveChild()  *)
(* of each takes the last entry of its name out of its parent's index.     *)
IndexWithout(gone) ==
  [p \in nodes \ gone |->
     EntriesExcept(index[p],
       {EntryOf(index[p], NodeName(q)) : q \in gone \cap ChildrenOf(p)})]

-----------------------------------------------------------------------------
IndexInit ==
  /\ TreeInit
  /\ index = <<>>
  /\ indexing = [s \in Session |-> FALSE]

IAttachedToServer(s) ==
  /\ AttachedToServer(s)
  /\ index' = [p \in nodes' |-> IndexOf(p)]
  /\ UNCHANGED indexing

IAboutToDetachFromServer(s) ==
  /\ AboutToDetachFromServer(s)
  /\ index' = IndexWithout(CleanedUp(s))
  /\ indexing' = [indexing EXCEPT ![s] = FALSE]

(* What SetDataNode() does to the index of the target's parent: a node it  *)
(* creates is entered when the caller asks for it, and any node is taken   *)
(* out when the caller passes PR_NAME_REMOVE_FROM_INDEX instead.           *)
IndexAfterSet(idx, target, created, flags, before) ==
  CASE flags.addToIndex /\ target \in created /\ before # RemoveFromIndex ->
         InsertAt(idx, InsertPosition(idx, before), NodeName(target))
    [] ~flags.addToIndex /\ target \in nodes \cup created
                         /\ before = RemoveFromIndex ->
         RemoveIndexEntry(idx, NodeName(target))
    [] OTHER -> idx

ISetDataNode(s, rel, v, flags, before) ==
  LET created == CreatedBySetDataNode(s, rel, flags)
      target  == AbsPath(s, rel)
  IN
  /\ SetDataNode(s, rel, v, flags)
  /\ index' = [p \in nodes' |->
                 IF p = Parent(target)
                 THEN IndexAfterSet(IndexOf(p), target, created, flags, before)
                 ELSE IndexOf(p)]
  /\ indexing' = [indexing EXCEPT ![s] =
                    @ \/ (flags.addToIndex /\ target \in created)]

IInsertOrderedData(s, parent, nm, v, before) ==
  /\ InsertOrderedData(s, parent, nm, v)
  /\ index' = [p \in nodes' |->
                 IF p = parent /\ before # RemoveFromIndex
                 THEN InsertAt(index[p], InsertPosition(index[p], before), nm)
                 ELSE IndexOf(p)]
  /\ indexing' = [indexing EXCEPT ![s] = TRUE]

(* PR_COMMAND_REORDERDATA on one of the session's own nodes.  Unlike the   *)
(* two above it leaves _indexingPresent alone.                             *)
ReorderData(s, child, before) ==
  /\ s \in sessions
  /\ child \in UserNodesOf(s)
  /\ index' = [index EXCEPT ![Parent(child)] =
                 ReorderedIndex(@, NodeName(child), before)]
  /\ UNCHANGED <<treeVars, indexing>>

IDoRemoveData(s, pat, f) ==
  /\ DoRemoveData(s, pat, f)
  /\ index' = IndexWithout(RemovedWith(RemoveTargets(s, pat, f)))
  /\ UNCHANGED indexing

ISubscribe(s, pat, f) == Subscribe(s, pat, f) /\ UNCHANGED indexVars

IUnsubscribe(s, pat) == Unsubscribe(s, pat) /\ UNCHANGED indexVars

(* GetDataCallback's shortcut for a client that does not ask for its own   *)
(* nodes (no PR_NAME_REFLECT_TO_SELF): it skips them, with their indices.  *)
GetDataSkips(s, p) == ~indexing[s] /\ IsWithin(p, SessionPath(s))

IndexNext ==
  \E s \in Session :
    \/ IAttachedToServer(s)
    \/ IAboutToDetachFromServer(s)
    \/ \E rel \in RelPath, v \in Value, flags \in SetFlags, before \in SetBefore :
         ISetDataNode(s, rel, v, flags, before)
    \/ \E parent \in nodes, nm \in Name, v \in Value, before \in InsertBefore :
         IInsertOrderedData(s, parent, nm, v, before)
    \/ \E child \in nodes, before \in ReorderBefore : ReorderData(s, child, before)
    \/ \E pat \in RelPattern, f \in Filter : IDoRemoveData(s, pat, f)
    \/ \E pat \in Pattern, f \in Filter : ISubscribe(s, pat, f)
    \/ \E pat \in Pattern : IUnsubscribe(s, pat)

IndexSpec == IndexInit /\ [][IndexNext]_<<treeVars, indexVars>>

-----------------------------------------------------------------------------
(* Every index lists children that exist, each at most once, whatever      *)
(* mixture of insertions, moves and removals (of the children, of whole    *)
(* subtrees) has been applied: RemoveChild() takes out one entry only, so  *)
(* a duplicate would be left dangling.                                     *)
IndexWellFormed ==
  \A p \in nodes : \A i, j \in 1 .. Len(index[p]) :
    /\ Append(p, index[p][i]) \in nodes
    /\ index[p][i] = index[p][j] => i = j
=============================================================================
