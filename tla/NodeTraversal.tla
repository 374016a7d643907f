--------------------------- MODULE NodeTraversal ----------------------------
(***************************************************************************)
(* NodePathMatcher::DoTraversal: the walk over the node database that      *)
(* calls a callback for the nodes that a set of path strings matches.  It  *)
(* descends only where a string allows it to, looks children up by name    *)
(* where all the strings name them, and lets the callback's result cut the *)
(* walk short.  Here it is an operator on a tree and a list of strings     *)
(* that grow one node or string at a time, compared with the definition of *)
(* what a string matches.                                                  *)
(*                                                                         *)
(* A clause is the list of names that it accepts and whether it has to be  *)
(* matched (wild) or can be looked up; a filter is a set of payloads.      *)
(***************************************************************************)
EXTENDS Integers, SequencesExt

CONSTANTS
  NodePaths,   \* the paths that nodes may have
  Value,       \* the payloads of the nodes that clients create
  EmptyMsg,    \* the payload of host and session nodes
  Strings,     \* the path strings, as sequences of clauses
  Filter,      \* QueryFilters
  NoFilter,    \* the absence of one
  MaxStrings   \* bound: the number of strings in the matcher

VARIABLES
  tree,     \* the nodes, in the order in which they were created
  entries   \* the strings and their filters, in the order they were added

vars == <<tree, entries>>

NODE_DEPTH_SESSIONNAME == 2

Root        == <<>>
Parent(p)   == SubSeq(p, 1, Len(p) - 1)
Paths       == {tree[i].path : i \in DOMAIN tree}
DataOf(p)   == tree[CHOOSE i \in DOMAIN tree : tree[i].path = p].data
Accepts(clause, name) == name \in ToSet(clause.names)

-----------------------------------------------------------------------------
Init == tree = <<>> /\ entries = <<>>

(* DataNode::PutChild *)
PutChild(p, v) ==
  /\ p \notin Paths
  /\ Len(p) > 1 => Parent(p) \in Paths
  /\ Len(p) <= NODE_DEPTH_SESSIONNAME => v = EmptyMsg
  /\ tree' = Append(tree, [path |-> p, data |-> v])
  /\ UNCHANGED entries

(* PathMatcher::PutPathString *)
PutPathString(str, f) ==
  /\ Len(entries) < MaxStrings
  /\ \A i \in DOMAIN entries : entries[i].clauses # str
  /\ entries' = Append(entries, [clauses |-> str, filter |-> f])
  /\ UNCHANGED tree

Next ==
  \/ \E p \in NodePaths, v \in Value : PutChild(p, v)
  \/ \E str \in Strings, f \in Filter : PutPathString(str, f)

Spec == Init /\ [][Next]_vars

-----------------------------------------------------------------------------
(* PathMatches and MatchesNode.  Without useFilters there is no payload to *)
(* test, and no payload passes every filter.                               *)
PathMatches(p, e, useFilters) ==
  /\ Len(p) = Len(e.clauses)
  /\ \A j \in DOMAIN p : Accepts(e.clauses[j], p[j])
  /\ useFilters => DataOf(p) \in e.filter

MatchesNode(p, useFilters) ==
  \E i \in DOMAIN entries : PathMatches(p, entries[i], useFilters)

(* GetEntries() is a table of tables, by number of clauses: the order in   *)
(* which it is iterated over.                                              *)
Depths  == {Len(entries[i].clauses) : i \in DOMAIN entries}
Ordered ==
  LET firstOf(n) == SelectInSeq(entries, LAMBDA e : Len(e.clauses) = n)
      depthOrder == SetToSortSeq(Depths, LAMBDA m, n : firstOf(m) < firstOf(n))
  IN FlattenSeq([i \in DOMAIN depthOrder |->
       SelectSeq(entries, LAMBDA e : Len(e.clauses) = depthOrder[i])])

(* The strings that still have a clause at the level below node p, as      *)
(* positions in E, the value of Ordered.                                   *)
Deeper(E, p) == SelectSeq([k \in DOMAIN E |-> k],
                          LAMBDA k : Len(E[k].clauses) > Len(p))

ParsersHaveWildcards(E, p) ==
  \E k \in ToSet(Deeper(E, p)) : E[k].clauses[Len(p) + 1].wild

(* Mutant: a child that two strings name is looked at twice.               *)
OncePerChild_Dropped(found) == found

(* alreadyDid of DoDirectChildLookup                                       *)
OncePerChild(found) ==
  FoldLeft(LAMBDA done, c : IF \E i \in DOMAIN done : done[i].node = c.node
                            THEN done ELSE Append(done, c), <<>>, found)

(* The children that DoTraversalAux() checks, each with the string that is *)
(* known to accept it (0 if none is): all of them, or, when every string   *)
(* names its children, those that can be looked up.                        *)
ChildrenToCheck(E, p) ==
  LET all == SelectSeq([i \in DOMAIN tree |-> [node |-> tree[i].path, known |-> 0]],
                       LAMBDA c : Parent(c.node) = p)
      named(k) == LET names == E[k].clauses[Len(p) + 1].names IN
                  [i \in DOMAIN names |-> [node |-> Append(p, names[i]), known |-> k]]
      deeper == Deeper(E, p)
      found  == SelectSeq(FlattenSeq([i \in DOMAIN deeper |-> named(deeper[i])]),
                          LAMBDA c : c.node \in Paths)
  IN IF ParsersHaveWildcards(E, p) THEN all ELSE OncePerChild(found)

(* The guard of the callback in CheckChildForTraversal(), on a node that   *)
(* the last clause of string e accepts.                                    *)
IsCalledFor(p, e, useFilters) ==
  \/ Cardinality(Depths) = 1 /\ (~useFilters \/ e.filter = NoFilter)
  \/ MatchesNode(p, useFilters)

(* When the result of a callback, or of a walk below p, ends the walk of   *)
(* p's siblings too.                                                       *)
CutsShort(result, p) == result < Len(p) - 1

(* Mutant: the result ends the whole walk.                                 *)
NextSession_Abort(q) == 0

(* Callbacks: GetDataCallback, DoSubscribeRefCallback and others go on ... *)
Continue(q) == Len(q)
(* ... PassMessageCallback, FindSessionsCallback and KickClientCallback    *)
(* are done with the session that q belongs to.                            *)
NextSession(q) == NODE_DEPTH_SESSIONNAME

Result(callback, q) == IF callback = "NextSession" THEN NextSession(q) ELSE Continue(q)

(* DoTraversalAux, CheckChildForTraversal: the nodes visited from p on,    *)
(* and the depth to return to.                                             *)
RECURSIVE DoTraversalAux(_, _, _, _, _)
DoTraversalAux(E, p, visits, callback, useFilters) ==
  LET \* one string e and one child; st tells what was done to the child
      CheckEntry(child, st, k) ==
        LET e == E[k]
            q == child.node
            accepted == k = child.known \/ Accepts(e.clauses[Len(q)], q[Len(q)])
            below == DoTraversalAux(E, q, st.visits, callback, useFilters)
        IN CASE st.stop \/ ~accepted -> st
             [] Len(e.clauses) = Len(q) /\ ~st.matched
                /\ IsCalledFor(q, e, useFilters) ->
                  [st EXCEPT !.visits = Append(@, q), !.matched = TRUE,
                             !.stop = CutsShort(Result(callback, q), q),
                             !.depth = Result(callback, q)]
             [] Len(e.clauses) > Len(q) /\ ~st.recursed ->
                  [st EXCEPT !.visits = below.visits, !.recursed = TRUE,
                             !.stop = CutsShort(below.depth, q), !.depth = below.depth]
             [] OTHER -> st
      CheckChild(st, child) ==
        IF st.stop THEN st
        ELSE FoldLeft(LAMBDA s, k : CheckEntry(child, s, k),
                      [st EXCEPT !.matched = FALSE, !.recursed = FALSE], Deeper(E, p))
      end == FoldLeft(CheckChild,
                      [visits |-> visits, matched |-> FALSE, recursed |-> FALSE,
                       stop |-> FALSE, depth |-> Len(p)], ChildrenToCheck(E, p))
  IN [visits |-> end.visits, depth |-> IF end.stop THEN end.depth ELSE Len(p)]

DoTraversal(callback, useFilters) ==
  DoTraversalAux(Ordered, Root, <<>>, callback, useFilters).visits

-----------------------------------------------------------------------------
(* Every node that a string and its filter match is visited, and no node   *)
(* is visited twice, whichever mixture of wildcards, name lists and plain  *)
(* names the strings are and however their levels differ.  Strings that    *)
(* differ in their number of clauses do not conspire: a node is visited    *)
(* only if one of them matches it by itself.                               *)
VisitsEachMatchOnce ==
  \A useFilters \in BOOLEAN :
    LET visits == DoTraversal("Continue", useFilters) IN
    /\ \A p \in Paths : MatchesNode(p, useFilters) => p \in ToSet(visits)
    /\ Cardinality(ToSet(visits)) = Len(visits)
    /\ Cardinality(Depths) > 1 =>
         \A p \in ToSet(visits) : MatchesNode(p, useFilters)

SessionOf(p)     == SubSeq(p, 1, NODE_DEPTH_SESSIONNAME)
BelowSession(p)  == Len(p) >= NODE_DEPTH_SESSIONNAME
Recipients       == SelectSeq(DoTraversal("NextSession", TRUE), BelowSession)

(* A Message passed to the nodes that some strings match reaches every     *)
(* session that has such a node: being done with one session does not skip *)
(* another one.                                                            *)
EverySessionReached ==
  \A p \in Paths :
    BelowSession(p) /\ MatchesNode(p, TRUE) =>
      \E i \in DOMAIN Recipients : SessionOf(Recipients[i]) = SessionOf(p)

=============================================================================
