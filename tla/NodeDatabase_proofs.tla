------------------------ MODULE NodeDatabase_proofs -------------------------
(***************************************************************************)
(* Proofs about the node database, for any number of sessions, names and   *)
(* patterns and any limits.  First the database alone: its types, the      *)
(* exactness of the subscription marks, its shape, the node counts.  Then  *)
(* its ordered indices: they leave the database as NodeTree has it, and    *)
(* every index lists children that exist, each at most once.  Last, for    *)
(* the proofs about delivery: folds, and what one notification does to     *)
(* what the clients will have seen once they have read everything.         *)
(***************************************************************************)
EXTENDS NodeDelivery, SequenceTheorems, FiniteSetTheorems, FunctionTheorems,
        WellFoundedInduction, TLAPS

-----------------------------------------------------------------------------
(***************************************************************************)
(* The database                                                            *)
(***************************************************************************)

(* The strings of a session that match a node are finitely many, and no    *)
(* more than there are patterns.                                           *)
LEMMA MatchCountBound ==
  ASSUME NEW S \in SUBSET Pattern, NEW p
  PROVE  /\ IsFiniteSet(MatchingSubs(S, p))
         /\ GetMatchCount(S, p) \in Nat
         /\ GetMatchCount(S, p) <= -ClearAllDelta
<1>1. MatchingSubs(S, p) \subseteq Pattern
  BY DEF MatchingSubs
<1>2. /\ IsFiniteSet(MatchingSubs(S, p))
      /\ Cardinality(MatchingSubs(S, p)) <= Cardinality(Pattern)
  BY <1>1, FS_Subset, PatternAssumption
<1>3. /\ Cardinality(MatchingSubs(S, p)) \in Nat
      /\ Cardinality(Pattern) \in Nat
  BY <1>2, FS_CardinalityType, PatternAssumption
<1> QED
  BY <1>2, <1>3, PatternAssumption DEF GetMatchCount, ClearAllDelta

(* Subscribing to one more string raises the match count of exactly the    *)
(* nodes that the string matches.                                          *)
LEMMA MatchCountAdd ==
  ASSUME NEW S \in SUBSET Pattern, NEW pat \in Pattern, pat \notin S, NEW p
  PROVE  GetMatchCount(S \cup {pat}, p)
           = GetMatchCount(S, p) + (IF PathMatches(pat, p) THEN 1 ELSE 0)
<1>1. CASE PathMatches(pat, p)
  <2>1. MatchingSubs(S \cup {pat}, p) = MatchingSubs(S, p) \cup {pat}
    BY <1>1 DEF MatchingSubs
  <2>2. pat \notin MatchingSubs(S, p)
    BY DEF MatchingSubs
  <2> QED
    BY <1>1, <2>1, <2>2, MatchCountBound, FS_AddElement DEF GetMatchCount
<1>2. CASE ~PathMatches(pat, p)
  <2>1. MatchingSubs(S \cup {pat}, p) = MatchingSubs(S, p)
    BY <1>2 DEF MatchingSubs
  <2> QED
    BY <1>2, <2>1, MatchCountBound DEF GetMatchCount
<1> QED
  BY <1>1, <1>2

(* Dropping a string lowers it again.                                      *)
LEMMA MatchCountRemove ==
  ASSUME NEW S \in SUBSET Pattern, NEW pat \in S, NEW p
  PROVE  GetMatchCount(S, p)
           = GetMatchCount(S \ {pat}, p) + (IF PathMatches(pat, p) THEN 1 ELSE 0)
<1>1. /\ S \ {pat} \in SUBSET Pattern
      /\ pat \in Pattern
      /\ pat \notin S \ {pat}
      /\ (S \ {pat}) \cup {pat} = S
  OBVIOUS
<1> QED
  BY <1>1, MatchCountAdd

(* A session without subscriptions matches nothing.                        *)
LEMMA MatchCountEmpty ==
  ASSUME NEW p
  PROVE  GetMatchCount({}, p) = 0
<1>1. MatchingSubs({}, p) = {}
  BY DEF MatchingSubs
<1> QED
  BY <1>1, FS_EmptySet DEF GetMatchCount

(* A node without a match in S has match count zero, and conversely.       *)
LEMMA MatchCountZero ==
  ASSUME NEW S \in SUBSET Pattern, NEW p
  PROVE  MatchingSubs(S, p) = {} <=> GetMatchCount(S, p) = 0
  BY MatchCountBound, FS_EmptySet DEF GetMatchCount

(* The marks of a new node count the matching strings of every session.    *)
LEMMA NewMarksCorrect ==
  ASSUME TreeTypeOK, NEW p
  PROVE  /\ NewMarks(p) \in [Session -> Nat]
         /\ \A s \in Session :
              NewMarks(p)[s] = IF s \in sessions THEN GetMatchCount(subs[s], p) ELSE 0
<1>1. \A s \in Session : GetMatchCount(subs[s], p) \in Nat
  BY MatchCountBound DEF TreeTypeOK
<1> QED
  BY <1>1 DEF NewMarks, AddToMark

(* Host and session nodes have proper paths.                               *)
LEMMA SessionPathType ==
  ASSUME NEW s \in Session
  PROVE  HostPath(s) \in Path /\ SessionPath(s) \in Path
<1>1. HostOf[s] \in PathName /\ s \in PathName
  BY HostAssumption DEF PathName
<1> QED
  BY <1>1 DEF HostPath, SessionPath, Path

(* SetDataNode() creates finitely many nodes.                              *)
LEMMA CreatedFinite ==
  ASSUME NEW s \in Session, NEW rel \in RelPath, NEW flags \in SetFlags
  PROVE  /\ IsFiniteSet(CreatedBySetDataNode(s, rel, flags))
         /\ CreatedBySetDataNode(s, rel, flags) \in SUBSET Path
<1> DEFINE K == 1 .. Len(rel)
           A == {AbsPath(s, SubSeq(rel, 1, k)) : k \in K}
<1>0. /\ rel \in Seq(Name)
      /\ Len(rel) \in Nat
  BY InputAssumption
<1>1. IsFiniteSet(K)
  BY <1>0, FS_Interval
<1>2. IsFiniteSet(A)
  <2> DEFINE f == [k \in K |-> AbsPath(s, SubSeq(rel, 1, k))]
  <2>1. f \in Surjection(K, A)
    BY DEF Surjection
  <2> QED
    BY <1>1, <2>1, FS_Surjection
<1>3. CreatedBySetDataNode(s, rel, flags) \subseteq A
  BY DEF CreatedBySetDataNode
<1>4. ASSUME NEW k \in K
      PROVE  AbsPath(s, SubSeq(rel, 1, k)) \in Path
  <2>1. SubSeq(rel, 1, k) \in Seq(Name)
    BY <1>0
  <2>2. SubSeq(rel, 1, k) \in Seq(PathName)
    BY <2>1 DEF PathName
  <2>3. SessionPath(s) \in Seq(PathName)
    BY SessionPathType DEF Path
  <2> QED
    BY <2>2, <2>3 DEF AbsPath, Path
<1>5. A \subseteq Path
  BY <1>4
<1> QED
  BY <1>2, <1>3, <1>5, FS_Subset

(* What TreeTypeOK and the marks' exactness ask of the state after a step  *)
(* that only adds nodes: AttachedToServer, SetDataNode, InsertOrderedData. *)
LEMMA AddingNodes ==
  ASSUME TreeTypeOK, MarksMatchSubscriptions,
         NEW created \in SUBSET Path, IsFiniteSet(created),
         created \cap nodes = {},
         DOMAIN data' = nodes \cup created,
         marks' = [p \in nodes \cup created |->
                     IF p \in created THEN NewMarks(p) ELSE marks[p]],
         subs' = subs,
         sessions' \subseteq Session, sessions \subseteq sessions'
  PROVE  /\ nodes' \subseteq Path
         /\ IsFiniteSet(nodes')
         /\ marks' \in [nodes' -> [Session -> Nat]]
         /\ \A s \in Session \ sessions' : subs'[s] = {}
         /\ MarksMatchSubscriptions'
<1>1. nodes' = nodes \cup created
  BY DEF nodes
<1>2. nodes' \subseteq Path
  BY <1>1 DEF TreeTypeOK
<1>3. IsFiniteSet(nodes')
  BY <1>1, FS_Union DEF TreeTypeOK
<1>4. \A p : NewMarks(p) \in [Session -> Nat]
  BY NewMarksCorrect
<1>5. marks' \in [nodes' -> [Session -> Nat]]
  BY <1>1, <1>4 DEF TreeTypeOK
<1>6. \A s \in Session \ sessions' : subs'[s] = {}
  BY DEF TreeTypeOK
<1>7. ASSUME NEW q \in nodes', NEW s \in Session
      PROVE  marks'[q][s]
               = IF s \in sessions' THEN GetMatchCount(subs'[s], q) ELSE 0
  <2>1. marks'[q][s] = IF s \in sessions THEN GetMatchCount(subs[s], q) ELSE 0
    BY <1>1, <1>7, NewMarksCorrect DEF MarksMatchSubscriptions
  <2>2. s \notin sessions => subs[s] = {}
    BY DEF TreeTypeOK
  <2> QED
    BY <2>1, <2>2, MatchCountEmpty
<1> QED
  BY <1>2, <1>3, <1>5, <1>6, <1>7 DEF MarksMatchSubscriptions

(* The same for a step that leaves a subset of the nodes and changes the   *)
(* marks of session s only: removals and the session's own subscribing.    *)
LEMMA KeepingNodes ==
  ASSUME TreeTypeOK, MarksMatchSubscriptions,
         NEW left \in SUBSET nodes,
         DOMAIN data' = left,
         NEW s \in Session,
         NEW m \in [left -> Nat],
         marks' = [q \in left |-> [marks[q] EXCEPT ![s] = m[q]]],
         sessions' \subseteq Session, sessions' \cup {s} = sessions \cup {s},
         NEW S \in SUBSET Pattern,
         subs' = [subs EXCEPT ![s] = S],
         s \notin sessions' => S = {},
         \A q \in left : m[q] = GetMatchCount(S, q)
  PROVE  /\ nodes' \subseteq Path
         /\ IsFiniteSet(nodes')
         /\ marks' \in [nodes' -> [Session -> Nat]]
         /\ subs' \in [Session -> SUBSET Pattern]
         /\ \A t \in Session \ sessions' : subs'[t] = {}
         /\ MarksMatchSubscriptions'
<1>1. nodes' = left
  BY DEF nodes
<1>2. /\ nodes' \subseteq Path
      /\ IsFiniteSet(nodes')
  BY <1>1, FS_Subset DEF TreeTypeOK
<1>3. marks' \in [nodes' -> [Session -> Nat]]
  BY <1>1 DEF TreeTypeOK
<1>4. /\ subs' \in [Session -> SUBSET Pattern]
      /\ \A t \in Session \ sessions' : subs'[t] = {}
  BY DEF TreeTypeOK
<1>5. ASSUME NEW q \in nodes', NEW t \in Session
      PROVE  marks'[q][t]
               = IF t \in sessions' THEN GetMatchCount(subs'[t], q) ELSE 0
  <2>1. CASE t = s
    <3>1. marks'[q][t] = GetMatchCount(S, q) /\ subs'[t] = S
      BY <1>1, <1>5, <2>1 DEF TreeTypeOK
    <3> QED
      BY <2>1, <3>1, MatchCountEmpty
  <2>2. CASE t # s
    <3>1. marks'[q][t] = marks[q][t] /\ subs'[t] = subs[t]
      BY <1>1, <1>5, <2>2 DEF TreeTypeOK
    <3>2. t \in sessions' <=> t \in sessions
      BY <2>2
    <3> QED
      BY <1>1, <1>5, <3>1, <3>2 DEF MarksMatchSubscriptions
  <2> QED
    BY <2>1, <2>2
<1> QED
  BY <1>2, <1>3, <1>4, <1>5 DEF MarksMatchSubscriptions

(* The count of a mark stays exact: adding one string, dropping one, and   *)
(* clearing all of them.                                                   *)
LEMMA MarkArithmetic ==
  ASSUME NEW S \in SUBSET Pattern, NEW p
  PROVE  /\ \A pat \in Pattern \ S :
              GetMatchCount(S \cup {pat}, p)
                = IF MatchingSubs({pat}, p) = {} THEN GetMatchCount(S, p)
                  ELSE AddToMark(GetMatchCount(S, p), 1)
         /\ \A pat \in S :
              GetMatchCount(S \ {pat}, p)
                = IF MatchingSubs({pat}, p) = {} THEN GetMatchCount(S, p)
                  ELSE AddToMark(GetMatchCount(S, p), -1)
         /\ 0 = IF MatchingSubs(S, p) = {} THEN GetMatchCount(S, p)
                ELSE AddToMark(GetMatchCount(S, p), ClearAllDelta)
<1>1. ASSUME NEW pat
      PROVE  PathMatches(pat, p) <=> MatchingSubs({pat}, p) # {}
  BY DEF MatchingSubs
<1>2. ASSUME NEW pat \in Pattern \ S
      PROVE  GetMatchCount(S \cup {pat}, p)
               = IF MatchingSubs({pat}, p) = {} THEN GetMatchCount(S, p)
                 ELSE AddToMark(GetMatchCount(S, p), 1)
  <2>1. GetMatchCount(S, p) \in Nat
    BY MatchCountBound
  <2>2. GetMatchCount(S \cup {pat}, p)
          = GetMatchCount(S, p) + (IF PathMatches(pat, p) THEN 1 ELSE 0)
    BY MatchCountAdd
  <2> QED
    BY <1>1, <2>1, <2>2 DEF AddToMark
<1>3. ASSUME NEW pat \in S
      PROVE  GetMatchCount(S \ {pat}, p)
               = IF MatchingSubs({pat}, p) = {} THEN GetMatchCount(S, p)
                 ELSE AddToMark(GetMatchCount(S, p), -1)
  <2>1. GetMatchCount(S \ {pat}, p) \in Nat
    BY MatchCountBound
  <2>2. GetMatchCount(S, p)
          = GetMatchCount(S \ {pat}, p) + (IF PathMatches(pat, p) THEN 1 ELSE 0)
    BY MatchCountRemove
  <2> QED
    BY <1>1, <2>1, <2>2 DEF AddToMark
<1>4. 0 = IF MatchingSubs(S, p) = {} THEN GetMatchCount(S, p)
          ELSE AddToMark(GetMatchCount(S, p), ClearAllDelta)
  <2>1. /\ GetMatchCount(S, p) \in Nat
        /\ GetMatchCount(S, p) <= -ClearAllDelta
    BY MatchCountBound
  <2>2. MatchingSubs(S, p) = {} => GetMatchCount(S, p) = 0
    BY MatchCountZero
  <2> QED
    BY <2>1, <2>2 DEF AddToMark, ClearAllDelta
<1> QED
  BY <1>2, <1>3, <1>4

TreeInv == TreeTypeOK /\ MarksMatchSubscriptions

(* Every handler of the node database preserves its types and the          *)
(* exactness of the subscription marks.                                    *)
LEMMA TreeInvStep ==
  ASSUME TreeInv, [TreeNext]_treeVars
  PROVE  TreeInv'
<1> USE DEF TreeInv
<1>1. ASSUME NEW s \in Session, AttachedToServer(s)
      PROVE  TreeInv'
  <2> DEFINE created == {HostPath(s), SessionPath(s)} \ nodes
  <2>1. created \in SUBSET Path
    BY SessionPathType
  <2>2. IsFiniteSet(created)
    <3>1. IsFiniteSet({HostPath(s)} \cup {SessionPath(s)})
      BY FS_Singleton, FS_Union
    <3>2. created \subseteq {HostPath(s)} \cup {SessionPath(s)}
      OBVIOUS
    <3> QED
      BY <3>1, <3>2, FS_Subset
  <2>3. /\ DOMAIN data' = nodes \cup created
        /\ marks' = [p \in nodes \cup created |->
                       IF p \in created THEN NewMarks(p) ELSE marks[p]]
        /\ subs' = subs
        /\ sessions' \subseteq Session
        /\ sessions \subseteq sessions'
    BY <1>1 DEF AttachedToServer, TreeTypeOK
  <2>4. /\ nodes' \subseteq Path
        /\ IsFiniteSet(nodes')
        /\ marks' \in [nodes' -> [Session -> Nat]]
        /\ \A t \in Session \ sessions' : subs'[t] = {}
        /\ MarksMatchSubscriptions'
    <3> HIDE DEF created
    <3>1. created \cap nodes = {}
      BY DEF created
    <3> QED
      BY <2>1, <2>2, <2>3, <3>1, AddingNodes
  <2>5. data' \in [nodes' -> Value]
    BY <1>1, ValueAssumption DEF AttachedToServer, TreeTypeOK, nodes
  <2> QED
    BY <1>1, <2>3, <2>4, <2>5 DEF AttachedToServer, TreeTypeOK
<1>2. ASSUME NEW s \in Session, NEW rel \in RelPath, NEW v \in Value,
             NEW flags \in SetFlags, SetDataNode(s, rel, v, flags)
      PROVE  TreeInv'
  <2> DEFINE created == CreatedBySetDataNode(s, rel, flags)
  <2>1. created \in SUBSET Path /\ IsFiniteSet(created)
    BY CreatedFinite
  <2>2. created \cap nodes = {}
    BY DEF CreatedBySetDataNode
  <2> HIDE DEF created
  <2>3. /\ DOMAIN data' = nodes \cup created
        /\ marks' = [p \in nodes \cup created |->
                       IF p \in created THEN NewMarks(p) ELSE marks[p]]
        /\ subs' = subs /\ filters' = filters
        /\ sessions' = sessions
    BY <1>2 DEF SetDataNode, created
  <2>4. /\ nodes' \subseteq Path
        /\ IsFiniteSet(nodes')
        /\ marks' \in [nodes' -> [Session -> Nat]]
        /\ \A t \in Session \ sessions' : subs'[t] = {}
        /\ MarksMatchSubscriptions'
    BY <2>1, <2>2, <2>3, AddingNodes DEF TreeTypeOK
  <2>5. data' \in [nodes' -> Value]
    BY <1>2, ValueAssumption DEF SetDataNode, TreeTypeOK, nodes
  <2>6. nodeCount' \in [Session -> Int]
    <3>1. Cardinality(created) \in Nat
      BY <2>1, FS_CardinalityType
    <3>2. nodeCount' = [nodeCount EXCEPT ![s] = @ + Cardinality(created)]
      BY <1>2 DEF SetDataNode, created
    <3> QED
      BY <3>1, <3>2 DEF TreeTypeOK
  <2> QED
    BY <2>3, <2>4, <2>5, <2>6 DEF TreeTypeOK
<1>3. ASSUME NEW s \in Session, NEW parent \in nodes, NEW nm \in Name,
             NEW v \in Value, InsertOrderedData(s, parent, nm, v)
      PROVE  TreeInv'
  <2> DEFINE p == Append(parent, nm)
  <2>1. {p} \in SUBSET Path /\ IsFiniteSet({p})
    <3>1. parent \in Seq(PathName) /\ nm \in PathName
      BY DEF TreeTypeOK, Path, PathName
    <3>2. Append(parent, nm) \in Seq(PathName)
      BY <3>1
    <3> QED
      BY <3>2, FS_Singleton DEF Path
  <2> HIDE DEF p
  <2>2. {p} \cap nodes = {}
    BY <1>3 DEF InsertOrderedData, p
  <2>3. /\ data' = [q \in nodes \cup {p} |-> IF q = p THEN v ELSE data[q]]
        /\ marks' = [q \in nodes \cup {p} |->
                       IF q \in {p} THEN NewMarks(q) ELSE marks[q]]
        /\ subs' = subs /\ filters' = filters
        /\ sessions' = sessions
        /\ nodeCount' = [nodeCount EXCEPT ![s] = @ + 1]
    BY <1>3 DEF InsertOrderedData, p
  <2>4. /\ nodes' \subseteq Path
        /\ IsFiniteSet(nodes')
        /\ marks' \in [nodes' -> [Session -> Nat]]
        /\ \A t \in Session \ sessions' : subs'[t] = {}
        /\ MarksMatchSubscriptions'
    BY <2>1, <2>2, <2>3, AddingNodes DEF TreeTypeOK
  <2>5. data' \in [nodes' -> Value]
    BY <2>3 DEF TreeTypeOK, nodes
  <2> QED
    BY <2>3, <2>4, <2>5 DEF TreeTypeOK
<1>4. ASSUME NEW s \in Session, AboutToDetachFromServer(s)
      PROVE  TreeInv'
  <2> DEFINE left == nodes \ CleanedUp(s)
             m == [q \in left |-> 0]
             S == {}
  <2>1. left \in SUBSET nodes /\ m \in [left -> Nat]
    OBVIOUS
  <2>2. ASSUME NEW q \in left
        PROVE  (IF MatchingSubs(subs[s], q) = {} THEN marks[q]
                ELSE [marks[q] EXCEPT ![s] = AddToMark(@, ClearAllDelta)])
                 = [marks[q] EXCEPT ![s] = m[q]]
    <3>1. marks[q] \in [Session -> Nat] /\ subs[s] \in SUBSET Pattern
      BY DEF TreeTypeOK
    <3>2. marks[q][s] = GetMatchCount(subs[s], q)
      BY <1>4 DEF MarksMatchSubscriptions, AboutToDetachFromServer
    <3>3. 0 = IF MatchingSubs(subs[s], q) = {} THEN marks[q][s]
              ELSE AddToMark(marks[q][s], ClearAllDelta)
      BY <3>1, <3>2, MarkArithmetic
    <3> QED
      BY <3>1, <3>3
  <2>3. /\ DOMAIN data' = left
        /\ marks' = [q \in left |-> [marks[q] EXCEPT ![s] = m[q]]]
        /\ subs' = [subs EXCEPT ![s] = S]
    BY <1>4, <2>2 DEF AboutToDetachFromServer
  <2>4. \A q \in left : m[q] = GetMatchCount(S, q)
    BY MatchCountEmpty
  <2>5. /\ nodes' \subseteq Path
        /\ IsFiniteSet(nodes')
        /\ marks' \in [nodes' -> [Session -> Nat]]
        /\ subs' \in [Session -> SUBSET Pattern]
        /\ \A t \in Session \ sessions' : subs'[t] = {}
        /\ MarksMatchSubscriptions'
    <3>1. /\ sessions' \subseteq Session
          /\ sessions' \cup {s} = sessions \cup {s}
          /\ S \in SUBSET Pattern
      BY <1>4 DEF TreeTypeOK, AboutToDetachFromServer
    <3>2. s \notin sessions' => S = {}
      OBVIOUS
    <3> HIDE DEF left, m, S
    <3> QED
      BY <2>1, <2>3, <2>4, <3>1, <3>2, KeepingNodes
  <2>6. data' \in [nodes' -> Value]
    BY <1>4 DEF AboutToDetachFromServer, TreeTypeOK, nodes
  <2> QED
    BY <1>4, <2>3, <2>5, <2>6, FilterAssumption
    DEF AboutToDetachFromServer, TreeTypeOK
<1>5. ASSUME NEW s \in Session, NEW pat \in RelPattern, NEW f \in Filter,
             DoRemoveData(s, pat, f)
      PROVE  TreeInv'
  <2> DEFINE gone == RemovedWith(RemoveTargets(s, pat, f))
  <2>1. gone \subseteq nodes
    BY DEF RemovedWith
  <2> HIDE DEF gone
  <2>2. /\ data' = [q \in nodes \ gone |-> data[q]]
        /\ marks' = [q \in nodes \ gone |-> marks[q]]
        /\ nodeCount' = [nodeCount EXCEPT ![s] = @ - Cardinality(gone)]
        /\ sessions' = sessions /\ subs' = subs /\ filters' = filters
    BY <1>5 DEF DoRemoveData, gone
  <2>3. nodes' = nodes \ gone
    BY <2>2 DEF nodes
  <2>4. /\ IsFiniteSet(nodes')
        /\ Cardinality(gone) \in Nat
    BY <2>1, <2>3, FS_Subset, FS_CardinalityType DEF TreeTypeOK
  <2>5. MarksMatchSubscriptions'
    BY <2>2, <2>3 DEF MarksMatchSubscriptions
  <2> QED
    BY <2>2, <2>3, <2>4, <2>5 DEF TreeTypeOK
<1>6. ASSUME NEW s \in Session, NEW pat \in Pattern, NEW f \in Filter,
             Subscribe(s, pat, f)
      PROVE  TreeInv'
  <2>1. filters' \in [Session -> [Pattern -> Filter]]
    BY <1>6 DEF Subscribe, TreeTypeOK
  <2>2. CASE pat \in subs[s]
    <3>1. subs' = subs /\ marks' = marks
      BY <1>6, <2>2 DEF Subscribe, TreeTypeOK
    <3> QED
      BY <1>6, <2>1, <3>1
      DEF Subscribe, TreeTypeOK, MarksMatchSubscriptions, nodes
  <2>3. CASE pat \notin subs[s]
    <3> DEFINE S == subs[s] \cup {pat}
               m == [q \in nodes |-> GetMatchCount(S, q)]
    <3>1. S \in SUBSET Pattern /\ m \in [nodes -> Nat]
      BY MatchCountBound DEF TreeTypeOK
    <3>2. ASSUME NEW q \in nodes
          PROVE  (IF MatchingSubs({pat}, q) = {} THEN marks[q]
                  ELSE [marks[q] EXCEPT ![s] = AddToMark(@, 1)])
                   = [marks[q] EXCEPT ![s] = m[q]]
      <4>1. marks[q] \in [Session -> Nat] /\ subs[s] \in SUBSET Pattern
        BY DEF TreeTypeOK
      <4>2. marks[q][s] = GetMatchCount(subs[s], q)
        BY <1>6 DEF MarksMatchSubscriptions, Subscribe
      <4>3. m[q] = IF MatchingSubs({pat}, q) = {} THEN marks[q][s]
                   ELSE AddToMark(marks[q][s], 1)
        BY <2>3, <4>1, <4>2, MarkArithmetic
      <4> QED
        BY <4>1, <4>3
    <3>3. /\ DOMAIN data' = nodes
          /\ marks' = [q \in nodes |-> [marks[q] EXCEPT ![s] = m[q]]]
          /\ subs' = [subs EXCEPT ![s] = S]
          /\ sessions' = sessions /\ s \in sessions
      BY <1>6, <2>3, <3>2 DEF Subscribe, DoSubscribeRef, nodes
    <3>4. /\ nodes' \subseteq Path
          /\ IsFiniteSet(nodes')
          /\ marks' \in [nodes' -> [Session -> Nat]]
          /\ subs' \in [Session -> SUBSET Pattern]
          /\ \A t \in Session \ sessions' : subs'[t] = {}
          /\ MarksMatchSubscriptions'
      <4>1. nodes \in SUBSET nodes /\ sessions \subseteq Session
        BY DEF TreeTypeOK
      <4>2. \A q \in nodes : m[q] = GetMatchCount(S, q)
        OBVIOUS
      <4> HIDE DEF S, m
      <4> QED
        BY <3>1, <3>3, <4>1, <4>2, KeepingNodes
    <3> QED
      BY <1>6, <2>1, <3>4 DEF Subscribe, TreeTypeOK, nodes
  <2> QED
    BY <2>2, <2>3
<1>7. ASSUME NEW s \in Session, NEW pat \in Pattern, Unsubscribe(s, pat)
      PROVE  TreeInv'
  <2> DEFINE S == subs[s] \ {pat}
             m == [q \in nodes |-> GetMatchCount(S, q)]
  <2>1. S \in SUBSET Pattern /\ m \in [nodes -> Nat]
    BY MatchCountBound DEF TreeTypeOK
  <2>2. ASSUME NEW q \in nodes
        PROVE  (IF MatchingSubs({pat}, q) = {} THEN marks[q]
                ELSE [marks[q] EXCEPT ![s] = AddToMark(@, -1)])
                 = [marks[q] EXCEPT ![s] = m[q]]
    <3>1. marks[q] \in [Session -> Nat] /\ subs[s] \in SUBSET Pattern
      BY DEF TreeTypeOK
    <3>2. marks[q][s] = GetMatchCount(subs[s], q)
      BY <1>7 DEF MarksMatchSubscriptions, Unsubscribe
    <3>3. m[q] = IF MatchingSubs({pat}, q) = {} THEN marks[q][s]
                 ELSE AddToMark(marks[q][s], -1)
      BY <1>7, <3>1, <3>2, MarkArithmetic DEF Unsubscribe
    <3> QED
      BY <3>1, <3>3
  <2>3. /\ DOMAIN data' = nodes
        /\ marks' = [q \in nodes |-> [marks[q] EXCEPT ![s] = m[q]]]
        /\ subs' = [subs EXCEPT ![s] = S]
        /\ sessions' = sessions /\ s \in sessions
    BY <1>7, <2>2 DEF Unsubscribe, DoSubscribeRef, nodes
  <2>4. /\ nodes' \subseteq Path
        /\ IsFiniteSet(nodes')
        /\ marks' \in [nodes' -> [Session -> Nat]]
        /\ subs' \in [Session -> SUBSET Pattern]
        /\ \A t \in Session \ sessions' : subs'[t] = {}
        /\ MarksMatchSubscriptions'
    <3>1. nodes \in SUBSET nodes /\ sessions \subseteq Session
      BY DEF TreeTypeOK
    <3>2. \A q \in nodes : m[q] = GetMatchCount(S, q)
      OBVIOUS
    <3> HIDE DEF S, m
    <3> QED
      BY <2>1, <2>3, <3>1, <3>2, KeepingNodes
  <2>5. filters' \in [Session -> [Pattern -> Filter]]
    BY <1>7, FilterAssumption DEF Unsubscribe, TreeTypeOK
  <2> QED
    BY <1>7, <2>4, <2>5 DEF Unsubscribe, TreeTypeOK, nodes
<1>8. CASE UNCHANGED treeVars
  BY <1>8 DEF treeVars, TreeTypeOK, MarksMatchSubscriptions, nodes
<1> QED
  BY <1>1, <1>2, <1>3, <1>4, <1>5, <1>6, <1>7, <1>8 DEF TreeNext

(* The empty server satisfies the invariant.                               *)
LEMMA TreeInvInit == TreeInit => TreeInv
<1> SUFFICES ASSUME TreeInit PROVE TreeInv
  OBVIOUS
<1>1. nodes = {}
  BY DEF TreeInit, nodes
<1>2. TreeTypeOK
  BY <1>1, FS_EmptySet, FilterAssumption DEF TreeInit, TreeTypeOK
<1> QED
  BY <1>1, <1>2 DEF TreeInv, MarksMatchSubscriptions

(* In every reachable state of the node database the variables have their  *)
(* types: the database is finite, and only attached sessions subscribe.    *)
THEOREM TreeTypeCorrect == TreeSpec => []TreeTypeOK
<1>1. TreeInv => TreeTypeOK
  BY DEF TreeInv
<1> QED
  BY <1>1, TreeInvInit, TreeInvStep, PTL DEF TreeSpec

(* In every reachable state the mark that a node carries for a session is  *)
(* the number of the session's subscription strings that match the node:   *)
(* the incremental bookkeeping of NodeCreated(), DoSubscribeRefCallback()  *)
(* and Cleanup() agrees with a recount from nothing.                       *)
THEOREM MarksCorrect == TreeSpec => []MarksMatchSubscriptions
<1>1. TreeInv => MarksMatchSubscriptions
  BY DEF TreeInv
<1> QED
  BY <1>1, TreeInvInit, TreeInvStep, PTL DEF TreeSpec

-----------------------------------------------------------------------------
(* The shape of the tree *)

(* Paths, name by name                                                     *)
LEMMA WithinNames ==
  ASSUME NEW p \in Path, NEW top \in Path
  PROVE  IsWithin(p, top) <=> Len(top) <= Len(p) /\ \A i \in 1 .. Len(top) : p[i] = top[i]
<1>1. p \in Seq(PathName) /\ top \in Seq(PathName) /\ Len(p) \in Nat /\ Len(top) \in Nat
  BY DEF Path
<1>2. CASE Len(top) <= Len(p)
  <2> DEFINE u == SubSeq(p, 1, Len(top))
  <2>1. u \in Seq(PathName) /\ Len(u) = Len(top) /\ \A i \in 1 .. Len(top) : u[i] = p[i]
    BY <1>1, <1>2
  <2> HIDE DEF u
  <2>2. u = top <=> \A i \in 1 .. Len(top) : u[i] = top[i]
    BY <1>1, <2>1
  <2> QED
    BY <1>2, <2>1, <2>2 DEF IsWithin, u
<1>3. CASE ~ (Len(top) <= Len(p))
  BY <1>3 DEF IsWithin
<1> QED
  BY <1>2, <1>3

LEMMA SessionNames ==
  ASSUME NEW s \in Session
  PROVE  /\ HostPath(s) \in Path /\ Len(HostPath(s)) = 1 /\ HostPath(s)[1] = HostOf[s]
         /\ SessionPath(s) \in Path /\ Len(SessionPath(s)) = 2
         /\ SessionPath(s)[1] = HostOf[s] /\ SessionPath(s)[2] = s
  BY SessionPathType DEF HostPath, SessionPath

(* A session's nodes are those whose path begins with its host and its id. *)
LEMMA WithinSession ==
  ASSUME NEW p \in Path, NEW s \in Session
  PROVE  /\ IsWithin(p, SessionPath(s)) <=> Len(p) >= 2 /\ p[1] = HostOf[s] /\ p[2] = s
         /\ p = SessionPath(s) <=> Len(p) = 2 /\ p[1] = HostOf[s] /\ p[2] = s
         /\ p = HostPath(s) <=> Len(p) = 1 /\ p[1] = HostOf[s]
<1>1. p \in Seq(PathName) /\ Len(p) \in Nat
  BY DEF Path
<1>2. IsWithin(p, SessionPath(s)) <=> 2 <= Len(p) /\ \A i \in 1 .. 2 : p[i] = SessionPath(s)[i]
  <2>1. SessionPath(s) \in Path /\ Len(SessionPath(s)) = 2
    BY SessionNames
  <2> DEFINE top == SessionPath(s)
  <2>2. IsWithin(p, top) <=> Len(top) <= Len(p) /\ \A i \in 1 .. Len(top) : p[i] = top[i]
    BY <2>1, WithinNames
  <2> HIDE DEF top
  <2> QED
    BY <2>1, <2>2 DEF top
<1>3. IsWithin(p, SessionPath(s)) <=> Len(p) >= 2 /\ p[1] = HostOf[s] /\ p[2] = s
  <2>1. (\A i \in 1 .. 2 : p[i] = SessionPath(s)[i])
          <=> p[1] = SessionPath(s)[1] /\ p[2] = SessionPath(s)[2]
    BY \A i \in 1 .. 2 : i = 1 \/ i = 2
  <2>2. SessionPath(s)[1] = HostOf[s] /\ SessionPath(s)[2] = s
    BY SessionNames
  <2> QED
    BY <1>1, <1>2, <2>1, <2>2
<1>4. ASSUME Len(p) = 2, p[1] = HostOf[s], p[2] = s PROVE p = SessionPath(s)
  <2>1. p = <<p[1], p[2]>>
    BY <1>1, <1>4
  <2> QED
    BY <1>4, <2>1 DEF SessionPath
<1>5. ASSUME Len(p) = 1, p[1] = HostOf[s] PROVE p = HostPath(s)
  <2>1. p = <<p[1]>>
    BY <1>1, <1>5
  <2> QED
    BY <1>5, <2>1 DEF HostPath
<1> QED
  BY <1>3, <1>4, <1>5, SessionNames

LEMMA ParentNames ==
  ASSUME NEW p \in Path, Len(p) > 1
  PROVE  /\ Parent(p) \in Path /\ Len(Parent(p)) = Len(p) - 1
         /\ \A i \in 1 .. Len(p) - 1 : Parent(p)[i] = p[i]
  BY DEF Parent, Path

(* What is below a node's parent is below the node.                        *)
LEMMA WithinParent ==
  ASSUME NEW p \in Path, Len(p) > 1, NEW top \in Path, IsWithin(Parent(p), top)
  PROVE  IsWithin(p, top)
<1>1. Len(p) \in Nat /\ Len(top) \in Nat
  BY DEF Path
<1>2. /\ Parent(p) \in Path /\ Len(Parent(p)) = Len(p) - 1
      /\ \A i \in 1 .. Len(p) - 1 : Parent(p)[i] = p[i]
  BY ParentNames
<1>3. Len(top) <= Len(p) - 1 /\ \A i \in 1 .. Len(top) : Parent(p)[i] = top[i]
  BY <1>2, WithinNames
<1>4. Len(top) <= Len(p) /\ \A i \in 1 .. Len(top) : i \in 1 .. Len(p) - 1
  BY <1>1, <1>3
<1>5. \A i \in 1 .. Len(top) : p[i] = top[i]
  BY <1>2, <1>3, <1>4
<1> QED
  BY <1>4, <1>5, WithinNames

(* The host of session s, or a node at or below the node of session s      *)
OwnedBy(q, s) == q[1] = HostOf[s] /\ (Len(q) > 1 => q[2] = s)

(* Every node has its parent and an owner, and the nodes that a session    *)
(* was attached with are there.                                            *)
TreeShape ==
  /\ \A q \in nodes : /\ Len(q) >= 1
                      /\ Len(q) > 1 => Parent(q) \in nodes
                      /\ \E s \in sessions : OwnedBy(q, s)
  /\ \A s \in sessions : HostPath(s) \in nodes /\ SessionPath(s) \in nodes

(* A session starts to count from zero when it is attached.                *)
CountsOK ==
  /\ NodeCountAccurate
  /\ \A s \in Session \ sessions : nodeCount[s] = 0

(* TreeShape says what NoOrphans does.                                     *)
LEMMA ShapeHasNoOrphans ==
  ASSUME TreeTypeOK, TreeShape
  PROVE  NoOrphans
<1>1. SUFFICES ASSUME NEW q \in nodes
      PROVE  /\ Len(q) > 1 => Parent(q) \in nodes
             /\ Len(q) = 1 => \E s \in sessions : q = HostPath(s)
             /\ Len(q) > 1 => \E s \in sessions : IsWithin(q, SessionPath(s))
  BY DEF NoOrphans
<1>2. PICK s \in sessions : OwnedBy(q, s)
  BY DEF TreeShape
<1>3. q \in Path /\ s \in Session /\ Len(q) \in Nat
  BY DEF TreeTypeOK, Path
<1>4. Len(q) = 1 => q = HostPath(s)
  BY <1>2, <1>3, WithinSession DEF OwnedBy
<1>5. Len(q) > 1 => IsWithin(q, SessionPath(s))
  <2>1. Len(q) > 1 => Len(q) >= 2
    BY <1>3
  <2> QED
    BY <1>2, <1>3, <2>1, WithinSession DEF OwnedBy
<1> QED
  BY <1>4, <1>5 DEF TreeShape

LEMMA OwnedWithin ==
  ASSUME NEW q \in Path, NEW s \in Session, Len(q) > 2
  PROVE  IsWithin(q, SessionPath(s)) <=> OwnedBy(q, s)
<1>1. Len(q) >= 2 /\ Len(q) > 1
  BY DEF Path
<1> QED
  BY <1>1, WithinSession DEF OwnedBy

(* The nodes that count for a session, before and after a step             *)
LEMMA UserNodes ==
  ASSUME NEW s \in Session
  PROVE  /\ nodes \subseteq Path =>
              UserNodesOf(s) = {q \in nodes : Len(q) > 2 /\ OwnedBy(q, s)}
         /\ nodes' \subseteq Path =>
              UserNodesOf(s)' = {q \in nodes' : Len(q) > 2 /\ OwnedBy(q, s)}
<1>1. nodes \subseteq Path => UserNodesOf(s) = {q \in nodes : Len(q) > 2 /\ OwnedBy(q, s)}
  BY OwnedWithin DEF UserNodesOf, SubtreeOf
<1>2. nodes' \subseteq Path => UserNodesOf(s)' = {q \in nodes' : Len(q) > 2 /\ OwnedBy(q, s)}
  BY OwnedWithin DEF UserNodesOf, SubtreeOf
<1> QED
  BY <1>1, <1>2

(* A session's call creates nodes of its own and counts them.              *)
LEMMA CountsGrow ==
  ASSUME TreeTypeOK, CountsOK, NEW created, IsFiniteSet(created), created \cap nodes = {},
         nodes' = nodes \cup created, nodes' \subseteq Path, NEW s \in sessions,
         \A q \in created : Len(q) > 2 /\ OwnedBy(q, s), sessions' = sessions,
         nodeCount' = [nodeCount EXCEPT ![s] = nodeCount[s] + Cardinality(created)],
         nodeCount[s] + Cardinality(created) <= MaxNodeCount
  PROVE  CountsOK'
<1>1. /\ sessions \subseteq Session /\ nodes \subseteq Path /\ IsFiniteSet(nodes)
      /\ nodeCount \in [Session -> Int] /\ s \in Session
  BY DEF TreeTypeOK
<1>2. Cardinality(created) \in Nat
  BY FS_CardinalityType
<1>3. ASSUME NEW t \in sessions
      PROVE  nodeCount'[t] = Cardinality(UserNodesOf(t)') /\ nodeCount'[t] <= MaxNodeCount
  <2>1. /\ UserNodesOf(t) = {q \in nodes : Len(q) > 2 /\ OwnedBy(q, t)}
        /\ UserNodesOf(t)' = {q \in nodes' : Len(q) > 2 /\ OwnedBy(q, t)}
    BY <1>1, UserNodes
  <2>2. CASE t = s
    <3>1. UserNodesOf(t)' = UserNodesOf(t) \cup created /\ UserNodesOf(t) \cap created = {}
      BY <2>1, <2>2
    <3>2. IsFiniteSet(UserNodesOf(t))
      <4>1. UserNodesOf(t) \subseteq nodes
        BY <2>1
      <4> QED
        BY <1>1, <4>1, FS_Subset
    <3>3. Cardinality(UserNodesOf(t)')
            = Cardinality(UserNodesOf(t)) + Cardinality(created) - Cardinality({})
      BY <3>1, <3>2, FS_Union
    <3>4. Cardinality(UserNodesOf(t)) = nodeCount[s] /\ nodeCount[s] \in Int
      BY <1>1, <2>2 DEF CountsOK, NodeCountAccurate
    <3>5. nodeCount'[t] = nodeCount[s] + Cardinality(created)
      BY <1>1, <2>2
    <3> QED
      BY <1>2, <3>3, <3>4, <3>5, FS_EmptySet
  <2>3. CASE t # s
    <3>1. \A q \in created : ~ OwnedBy(q, t)
      BY <2>3 DEF OwnedBy
    <3>2. UserNodesOf(t)' = UserNodesOf(t)
      BY <2>1, <3>1
    <3>3. nodeCount'[t] = nodeCount[t]
      BY <1>1, <2>3
    <3> QED
      BY <3>2, <3>3 DEF CountsOK, NodeCountAccurate
  <2> QED
    BY <2>2, <2>3
<1>4. \A t \in Session \ sessions : nodeCount'[t] = 0
  BY <1>1 DEF CountsOK
<1> QED
  BY <1>3, <1>4 DEF CountsOK, NodeCountAccurate

(* A session's call removes nodes of its own and counts them.              *)
LEMMA CountsShrink ==
  ASSUME TreeTypeOK, CountsOK, NEW s \in sessions, NEW gone \in SUBSET UserNodesOf(s),
         nodes' = nodes \ gone, sessions' = sessions,
         nodeCount' = [nodeCount EXCEPT ![s] = nodeCount[s] - Cardinality(gone)]
  PROVE  CountsOK'
<1>1. /\ sessions \subseteq Session /\ nodes \subseteq Path /\ IsFiniteSet(nodes)
      /\ nodeCount \in [Session -> Int] /\ s \in Session /\ nodes' \subseteq Path
  BY DEF TreeTypeOK
<1>2. \A t \in sessions :
        /\ UserNodesOf(t) = {q \in nodes : Len(q) > 2 /\ OwnedBy(q, t)}
        /\ UserNodesOf(t)' = {q \in nodes' : Len(q) > 2 /\ OwnedBy(q, t)}
  BY <1>1, UserNodes
<1>3. IsFiniteSet(UserNodesOf(s)) /\ IsFiniteSet(gone) /\ Cardinality(gone) \in Nat
  <2>1. UserNodesOf(s) \subseteq nodes
    BY <1>2
  <2>2. IsFiniteSet(UserNodesOf(s))
    BY <1>1, <2>1, FS_Subset
  <2> QED
    BY <2>2, FS_Subset, FS_CardinalityType
<1>4. ASSUME NEW t \in sessions
      PROVE  nodeCount'[t] = Cardinality(UserNodesOf(t)') /\ nodeCount'[t] <= MaxNodeCount
  <2>1. CASE t = s
    <3>1. UserNodesOf(t)' = UserNodesOf(s) \ gone
      BY <1>2, <2>1
    <3>2. Cardinality(UserNodesOf(s) \ gone)
            = Cardinality(UserNodesOf(s)) - Cardinality(UserNodesOf(s) \cap gone)
      BY <1>3, FS_Difference
    <3>3. UserNodesOf(s) \cap gone = gone
      OBVIOUS
    <3>4. /\ Cardinality(UserNodesOf(s)) = nodeCount[s] /\ nodeCount[s] \in Int
          /\ nodeCount[s] <= MaxNodeCount
      BY <1>1 DEF CountsOK, NodeCountAccurate
    <3>5. nodeCount'[t] = nodeCount[s] - Cardinality(gone)
      BY <1>1, <2>1
    <3>6. nodeCount'[t] = Cardinality(UserNodesOf(t)')
      BY <3>1, <3>2, <3>3, <3>4, <3>5
    <3>7. nodeCount'[t] <= MaxNodeCount
      BY <1>3, <3>4, <3>5, LimitAssumption
    <3> QED
      BY <3>6, <3>7
  <2>2. CASE t # s
    <3>1. \A q \in gone : ~ (Len(q) > 2 /\ OwnedBy(q, t))
      BY <1>2, <2>2 DEF OwnedBy
    <3>2. UserNodesOf(t)' = UserNodesOf(t)
      BY <1>2, <3>1
    <3>3. nodeCount'[t] = nodeCount[t]
      BY <1>1, <2>2
    <3> QED
      BY <3>2, <3>3 DEF CountsOK, NodeCountAccurate
  <2> QED
    BY <2>1, <2>2
<1>5. \A t \in Session \ sessions : nodeCount'[t] = 0
  BY <1>1 DEF CountsOK
<1> QED
  BY <1>4, <1>5 DEF CountsOK, NodeCountAccurate

-----------------------------------------------------------------------------
(* The nodes that SetDataNode() creates *)

(* The paths on the way down to rel                                        *)
LEMMA AbsPathNames ==
  ASSUME NEW s \in Session, NEW rel \in RelPath, NEW k \in 1 .. Len(rel)
  PROVE  LET p == AbsPath(s, SubSeq(rel, 1, k)) IN
         /\ p \in Path /\ Len(p) = k + 2 /\ OwnedBy(p, s)
         /\ k = 1 => Parent(p) = SessionPath(s)
         /\ k # 1 => k - 1 \in 1 .. Len(rel) /\ Parent(p) = AbsPath(s, SubSeq(rel, 1, k - 1))
<1> DEFINE r(n) == SubSeq(rel, 1, n)
           sp == SessionPath(s)
<1>1. rel \in Seq(PathName) /\ Len(rel) \in Nat /\ k \in Nat
  <2>1. rel \in Seq(Name)
    BY InputAssumption
  <2> QED
    BY <2>1 DEF PathName
<1>2. /\ sp \in Seq(PathName) /\ Len(sp) = 2 /\ sp[1] = HostOf[s] /\ sp[2] = s
  BY SessionNames DEF Path
<1>3. ASSUME NEW n \in 0 .. Len(rel)
      PROVE  r(n) \in Seq(PathName) /\ Len(r(n)) = n /\ \A i \in 1 .. n : r(n)[i] = rel[i]
  BY <1>1
<1> HIDE DEF r, sp
<1>4. ASSUME NEW n \in 0 .. Len(rel)
      PROVE  /\ sp \o r(n) \in Seq(PathName) /\ Len(sp \o r(n)) = n + 2
             /\ \A i \in 1 .. n + 2 : (sp \o r(n))[i] = IF i <= 2 THEN sp[i] ELSE rel[i - 2]
  <2>1. r(n) \in Seq(PathName) /\ Len(r(n)) = n /\ \A i \in 1 .. n : r(n)[i] = rel[i]
    BY <1>3
  <2>2. /\ sp \o r(n) \in Seq(PathName) /\ Len(sp \o r(n)) = 2 + n
        /\ \A i \in 1 .. 2 + n : (sp \o r(n))[i] = IF i <= 2 THEN sp[i] ELSE r(n)[i - 2]
    <3>1. ASSUME NEW q \in Seq(PathName), Len(q) = n
          PROVE  /\ sp \o q \in Seq(PathName) /\ Len(sp \o q) = 2 + n
                 /\ \A i \in 1 .. 2 + n : (sp \o q)[i] = IF i <= 2 THEN sp[i] ELSE q[i - 2]
      <4>1. /\ sp \o q \in Seq(PathName) /\ Len(sp \o q) = Len(sp) + Len(q)
            /\ \A i \in 1 .. Len(sp) + Len(q) :
                 (sp \o q)[i] = IF i <= Len(sp) THEN sp[i] ELSE q[i - Len(sp)]
        BY <1>2, ConcatProperties
      <4> QED
        BY <1>2, <3>1, <4>1
    <3> QED
      BY <2>1, <3>1
  <2>3. \A i \in 1 .. n + 2 : ~ (i <= 2) => i - 2 \in 1 .. n
    BY <1>1
  <2>4. 2 + n = n + 2
    BY <1>1
  <2> QED
    BY <2>1, <2>2, <2>3, <2>4
<1> DEFINE p(n) == sp \o r(n)
<1>5. \A n \in 0 .. Len(rel) : p(n) \in Seq(PathName) /\ Len(p(n)) = n + 2
                               /\ \A i \in 1 .. n + 2 : p(n)[i] = IF i <= 2 THEN sp[i] ELSE rel[i - 2]
  BY <1>4
<1> HIDE DEF p
<1>6. k \in 0 .. Len(rel) /\ k - 1 \in 0 .. Len(rel) /\ 1 \in 1 .. k + 2 /\ 2 \in 1 .. k + 2
  BY <1>1
<1>7. /\ p(k) \in Path /\ Len(p(k)) = k + 2 /\ OwnedBy(p(k), s)
  BY <1>2, <1>5, <1>6 DEF OwnedBy, Path
<1>8. Parent(p(k)) = p(k - 1)
  <2>1. /\ p(k) \in Seq(PathName) /\ p(k - 1) \in Seq(PathName)
        /\ Len(p(k)) = k + 2 /\ Len(p(k - 1)) = k + 1
        /\ \A i \in 1 .. k + 1 : p(k)[i] = p(k - 1)[i]
    <3>1. Len(p(k - 1)) = (k - 1) + 2 /\ (k - 1) + 2 = k + 1
      BY <1>1, <1>5, <1>6
    <3>2. \A i \in 1 .. k + 1 : i \in 1 .. k + 2 /\ i \in 1 .. (k - 1) + 2
      BY <1>1
    <3> QED
      BY <1>5, <1>6, <3>1, <3>2
  <2>2. Parent(p(k)) = SubSeq(p(k), 1, k + 1)
    BY <1>1, <2>1 DEF Parent
  <2> QED
    BY <1>1, <2>1, <2>2
<1>9. p(0) = sp
  <2>1. p(0) \in Seq(PathName) /\ Len(p(0)) = 2 /\ \A i \in 1 .. 2 : p(0)[i] = sp[i]
    <3>1. 0 \in 0 .. Len(rel)
      BY <1>1
    <3>2. /\ p(0) \in Seq(PathName) /\ Len(p(0)) = 0 + 2
          /\ \A i \in 1 .. 0 + 2 : p(0)[i] = IF i <= 2 THEN sp[i] ELSE rel[i - 2]
      BY <1>5, <3>1
    <3> QED
      BY <3>2
  <2> QED
    BY <1>2, <2>1
<1>10. \A n : AbsPath(s, SubSeq(rel, 1, n)) = p(n)
  BY DEF AbsPath, p, r, sp
<1>11. k # 1 => k - 1 \in 1 .. Len(rel)
  BY <1>1
<1>12. k = 1 => k - 1 = 0
  OBVIOUS
<1> QED
  BY <1>7, <1>8, <1>9, <1>10, <1>11, <1>12 DEF sp

Missing(s, rel) == {AbsPath(s, SubSeq(rel, 1, k)) : k \in 1 .. Len(rel)} \ nodes
Above(M, p) == {q \in M : Len(q) < Len(p)}

(* Nodes that are missing on the way down to rel have different lengths.   *)
LEMMA MissingFacts ==
  ASSUME NEW s \in Session, NEW rel \in RelPath, NEW M, M = Missing(s, rel)
  PROVE  /\ \A p \in M : /\ p \in Path /\ p \notin nodes /\ Len(p) \in Nat /\ Len(p) > 2
                         /\ OwnedBy(p, s)
                         /\ Parent(p) = SessionPath(s) \/ Parent(p) \in nodes \cup Above(M, p)
         /\ \A p, q \in M : Len(p) = Len(q) => p = q
<1> DEFINE A(k) == AbsPath(s, SubSeq(rel, 1, k))
<1>1. Len(rel) \in Nat
  BY InputAssumption
<1>2. ASSUME NEW k \in 1 .. Len(rel)
      PROVE  /\ A(k) \in Path /\ Len(A(k)) = k + 2 /\ OwnedBy(A(k), s)
             /\ k = 1 => Parent(A(k)) = SessionPath(s)
             /\ k # 1 => k - 1 \in 1 .. Len(rel) /\ Parent(A(k)) = A(k - 1)
  BY AbsPathNames
<1>3. M = {A(k) : k \in 1 .. Len(rel)} \ nodes
  BY DEF Missing
<1> HIDE DEF A
<1>4. ASSUME NEW p \in M
      PROVE  /\ p \in Path /\ p \notin nodes /\ Len(p) \in Nat /\ Len(p) > 2 /\ OwnedBy(p, s)
             /\ Parent(p) = SessionPath(s) \/ Parent(p) \in nodes \cup Above(M, p)
  <2>1. PICK k \in 1 .. Len(rel) : p = A(k)
    BY <1>3
  <2>2. k \in Nat /\ k + 2 > 2 /\ k + 2 \in Nat
    BY <1>1
  <2>3. k # 1 => Parent(p) \in nodes \cup Above(M, p)
    <3>1. SUFFICES ASSUME k # 1, A(k - 1) \notin nodes PROVE A(k - 1) \in Above(M, p)
      BY <1>2, <2>1
    <3>2. k - 1 \in 1 .. Len(rel) /\ Len(A(k - 1)) = (k - 1) + 2 /\ Len(p) = k + 2
      BY <1>2, <2>1, <3>1
    <3> QED
      BY <1>3, <2>2, <3>1, <3>2 DEF Above
  <2> QED
    BY <1>2, <1>3, <1>4, <2>1, <2>2, <2>3
<1>5. ASSUME NEW p \in M, NEW q \in M, Len(p) = Len(q) PROVE p = q
  <2>1. PICK k \in 1 .. Len(rel) : p = A(k)
    BY <1>3
  <2>2. PICK j \in 1 .. Len(rel) : q = A(j)
    BY <1>3
  <2>3. k + 2 = j + 2
    BY <1>2, <1>5, <2>1, <2>2
  <2>4. k = j
    BY <1>1, <2>3
  <2> QED
    BY <2>1, <2>2, <2>4
<1> QED
  BY <1>4, <1>5

(* What SetDataNode() creates has its parents, and keeps to the limit: the *)
(* number of missing nodes above a node tells the created nodes apart.     *)
LEMMA CreatedFacts ==
  ASSUME TreeTypeOK, TreeShape, CountsOK, NEW s \in sessions, NEW rel \in RelPath,
         NEW flags \in SetFlags, NEW created, created = CreatedBySetDataNode(s, rel, flags)
  PROVE  /\ \A p \in created : /\ Len(p) > 2 /\ OwnedBy(p, s)
                               /\ Parent(p) \in nodes \cup created
         /\ nodeCount[s] + Cardinality(created) <= MaxNodeCount
<1> DEFINE M == Missing(s, rel)
           n == nodeCount[s]
           room == MaxNodeCount - n
           f == [p \in created |-> Cardinality(Above(M, p))]
<1>0. s \in Session
  BY DEF TreeTypeOK
<1>1. created = {p \in M : /\ ~flags.dontCreate
                           /\ \A q \in Above(M, p) \cup {p} :
                                MayCreate(s, q, Cardinality(Above(M, q)))}
  BY DEF CreatedBySetDataNode, Missing, Above
<1> HIDE DEF M
<1>2. /\ \A p \in M : /\ p \in Path /\ p \notin nodes /\ Len(p) \in Nat /\ Len(p) > 2
                      /\ OwnedBy(p, s)
                      /\ Parent(p) = SessionPath(s) \/ Parent(p) \in nodes \cup Above(M, p)
      /\ \A p, q \in M : Len(p) = Len(q) => p = q
  BY <1>0, MissingFacts DEF M
<1>3. ASSUME NEW p \in created, NEW q \in Above(M, p)
      PROVE  q \in created /\ Above(M, q) \subseteq Above(M, p)
  <2>1. q \in M /\ p \in M /\ Len(q) < Len(p)
    BY <1>1 DEF Above
  <2>2. Above(M, q) \subseteq Above(M, p)
    BY <1>2, <2>1 DEF Above
  <2> QED
    BY <1>1, <2>1, <2>2
<1>4. ASSUME NEW p \in created PROVE Parent(p) \in nodes \cup created
  <2>1. SessionPath(s) \in nodes /\ p \in M
    BY <1>1 DEF TreeShape
  <2> QED
    BY <1>2, <1>3, <2>1
<1>5. IsFiniteSet(M)
  <2> DEFINE K == 1 .. Len(rel)
             A == {AbsPath(s, SubSeq(rel, 1, k)) : k \in K}
             g == [k \in K |-> AbsPath(s, SubSeq(rel, 1, k))]
  <2>1. IsFiniteSet(K)
    BY InputAssumption, FS_Interval
  <2>2. g \in Surjection(K, A)
    BY DEF Surjection
  <2>3. IsFiniteSet(A)
    BY <2>1, <2>2, FS_Surjection
  <2> QED
    BY <2>3, FS_Subset DEF M, Missing
<1>6. \A p : IsFiniteSet(Above(M, p)) /\ Cardinality(Above(M, p)) \in Nat
  <2>1. ASSUME NEW p PROVE IsFiniteSet(Above(M, p)) /\ Cardinality(Above(M, p)) \in Nat
    <3>1. Above(M, p) \in SUBSET M
      BY DEF Above
    <3> QED
      BY <1>5, <3>1, FS_Subset, FS_CardinalityType
  <2> QED
    BY <2>1
<1>7. n \in Int /\ n <= MaxNodeCount /\ MaxNodeCount \in Nat /\ room \in Nat
  <2>1. n \in Int /\ n <= MaxNodeCount
    BY <1>0 DEF TreeTypeOK, CountsOK, NodeCountAccurate
  <2> QED
    BY <2>1, LimitAssumption
<1>8. ASSUME NEW p \in created PROVE Cardinality(Above(M, p)) \in 0 .. room - 1
  <2>1. n + Cardinality(Above(M, p)) < MaxNodeCount
    BY <1>1 DEF MayCreate
  <2> QED
    BY <1>6, <1>7, <2>1
<1>9. ASSUME NEW p \in created, NEW q \in created, Len(q) < Len(p)
      PROVE  Cardinality(Above(M, q)) < Cardinality(Above(M, p))
  <2>1. q \in Above(M, p) /\ q \notin Above(M, q)
    BY <1>1, <1>2, <1>9 DEF Above
  <2>2. Above(M, q) \subseteq Above(M, p)
    BY <1>3, <2>1
  <2>3. Cardinality(Above(M, q)) <= Cardinality(Above(M, p))
        /\ Cardinality(Above(M, q)) # Cardinality(Above(M, p))
    BY <1>6, <2>1, <2>2, FS_Subset
  <2> QED
    BY <1>6, <2>3
<1>10. f \in Injection(created, 0 .. room - 1)
  <2>1. f \in [created -> 0 .. room - 1]
    BY <1>8
  <2>2. ASSUME NEW p \in created, NEW q \in created, f[p] = f[q] PROVE p = q
    <3>1. Cardinality(Above(M, p)) = Cardinality(Above(M, q))
      BY <2>2
    <3>2. ~ (Len(q) < Len(p)) /\ ~ (Len(p) < Len(q))
      BY <1>6, <1>9, <3>1
    <3>3. p \in M /\ q \in M /\ Len(p) \in Nat /\ Len(q) \in Nat
      BY <1>1, <1>2
    <3> QED
      BY <1>2, <3>2, <3>3
  <2> HIDE DEF f
  <2> QED
    BY <2>1, <2>2 DEF Injection, IsInjective
<1>11. n + Cardinality(created) <= MaxNodeCount
  <2>1. IsFiniteSet(0 .. room - 1) /\ Cardinality(0 .. room - 1) = room
    <3>1. 0 \in Int /\ room - 1 \in Int
      BY <1>7
    <3> DEFINE top == room - 1
    <3>2. IsFiniteSet(0 .. top) /\ Cardinality(0 .. top) = IF 0 > top THEN 0 ELSE top - 0 + 1
      BY <3>1, FS_Interval
    <3>3. (IF 0 > top THEN 0 ELSE top - 0 + 1) = room
      BY <1>7
    <3> QED
      BY <3>2, <3>3
  <2> HIDE DEF f, room
  <2>2. IsFiniteSet(created) /\ Cardinality(created) <= room
    BY <1>10, <2>1, FS_Injection
  <2>3. Cardinality(created) \in Nat
    BY <2>2, FS_CardinalityType
  <2> QED
    BY <1>7, <2>2, <2>3 DEF room
<1> QED
  BY <1>1, <1>2, <1>4, <1>11

-----------------------------------------------------------------------------
(* The steps, on the tree's shape and on the counts *)

LEMMA AttachShape ==
  ASSUME TreeTypeOK, TreeShape, CountsOK, NEW s \in Session, AttachedToServer(s),
         nodes' \subseteq Path
  PROVE  TreeShape' /\ CountsOK'
<1> DEFINE hp == HostPath(s)
           sp == SessionPath(s)
<1>1. /\ s \notin sessions /\ sessions' = sessions \cup {s} /\ nodeCount' = nodeCount
      /\ nodes' = nodes \cup {hp, sp}
  BY DEF AttachedToServer, nodes
<1>2. /\ hp \in Path /\ Len(hp) = 1 /\ OwnedBy(hp, s)
      /\ sp \in Path /\ Len(sp) = 2 /\ OwnedBy(sp, s) /\ Parent(sp) = hp
  <2>1. /\ hp \in Path /\ Len(hp) = 1 /\ OwnedBy(hp, s)
        /\ sp \in Path /\ Len(sp) = 2 /\ OwnedBy(sp, s)
    BY SessionNames DEF OwnedBy
  <2>2. Parent(sp) \in Path /\ Len(Parent(sp)) = 1 /\ Parent(sp)[1] = HostOf[s]
    <3>1. Len(sp) > 1 /\ 1 \in 1 .. Len(sp) - 1 /\ sp[1] = HostOf[s] /\ Len(sp) - 1 = 1
      BY <2>1 DEF OwnedBy
    <3> HIDE DEF sp
    <3> QED
      BY <2>1, <3>1, ParentNames
  <2> QED
    BY <2>1, <2>2, WithinSession
<1> HIDE DEF hp, sp
<1>3. TreeShape'
  <2>1. ASSUME NEW q \in nodes'
        PROVE  /\ Len(q) >= 1
               /\ Len(q) > 1 => Parent(q) \in nodes'
               /\ \E t \in sessions' : OwnedBy(q, t)
    <3>1. CASE q \in nodes
      BY <1>1, <3>1 DEF TreeShape
    <3>2. CASE q = hp \/ q = sp
      BY <1>1, <1>2, <3>2
    <3> QED
      BY <1>1, <3>1, <3>2
  <2>2. \A t \in sessions' : HostPath(t) \in nodes' /\ SessionPath(t) \in nodes'
    BY <1>1 DEF TreeShape, hp, sp
  <2> QED
    BY <2>1, <2>2 DEF TreeShape
<1>4. CountsOK'
  <2>1. /\ sessions \subseteq Session /\ nodes \subseteq Path
    BY DEF TreeTypeOK
  <2>2. ASSUME NEW t \in sessions'
        PROVE  nodeCount'[t] = Cardinality(UserNodesOf(t)') /\ nodeCount'[t] <= MaxNodeCount
    <3>1. t \in Session
      BY <1>1, <2>1
    <3>2. UserNodesOf(t)' = UserNodesOf(t)
      <4>1. /\ UserNodesOf(t) = {q \in nodes : Len(q) > 2 /\ OwnedBy(q, t)}
            /\ UserNodesOf(t)' = {q \in nodes' : Len(q) > 2 /\ OwnedBy(q, t)}
        BY <2>1, <3>1, UserNodes
      <4>2. ~ (Len(hp) > 2) /\ ~ (Len(sp) > 2)
        BY <1>2
      <4> QED
        BY <1>1, <4>1, <4>2
    <3>3. CASE t \in sessions
      BY <1>1, <3>2, <3>3 DEF CountsOK, NodeCountAccurate
    <3>4. CASE t = s
      <4>1. ASSUME NEW q \in nodes, Len(q) > 2, OwnedBy(q, s) PROVE FALSE
        <5>1. PICK u \in sessions : OwnedBy(q, u)
          BY DEF TreeShape
        <5>2. Len(q) > 1
          BY <2>1, <4>1 DEF Path
        <5> QED
          BY <1>1, <4>1, <5>1, <5>2 DEF OwnedBy
      <4>2. UserNodesOf(t) = {}
        BY <2>1, <3>4, <4>1, UserNodes
      <4>3. nodeCount'[t] = 0
        BY <1>1, <3>4 DEF CountsOK
      <4> QED
        BY <3>2, <4>2, <4>3, FS_EmptySet, LimitAssumption
    <3> QED
      BY <1>1, <3>3, <3>4
  <2>3. \A t \in Session \ sessions' : nodeCount'[t] = 0
    BY <1>1 DEF CountsOK
  <2> QED
    BY <2>2, <2>3 DEF CountsOK, NodeCountAccurate
<1> QED
  BY <1>3, <1>4

(* Cleanup() takes exactly what the session owns alone.                    *)
LEMMA DetachShape ==
  ASSUME TreeTypeOK, TreeShape, CountsOK, NEW s \in Session, AboutToDetachFromServer(s)
  PROVE  TreeShape' /\ CountsOK'
<1> DEFINE hp == HostPath(s)
           mine == SubtreeOf(SessionPath(s))
           gone == CleanedUp(s)
<1>1. /\ s \in sessions /\ sessions' = sessions \ {s} /\ nodes' = nodes \ gone
      /\ nodeCount' = [nodeCount EXCEPT ![s] = 0]
  BY DEF AboutToDetachFromServer, nodes
<1>2. /\ sessions \subseteq Session /\ nodes \subseteq Path /\ nodeCount \in [Session -> Int]
  BY DEF TreeTypeOK
<1>3. \A q \in nodes : q \in mine <=> Len(q) >= 2 /\ OwnedBy(q, s)
  <2>1. ASSUME NEW q \in nodes PROVE q \in mine <=> Len(q) >= 2 /\ OwnedBy(q, s)
    <3>1. q \in Path /\ Len(q) \in Nat /\ (Len(q) >= 2 => Len(q) > 1)
      BY <1>2 DEF Path
    <3> QED
      BY <3>1, WithinSession DEF SubtreeOf, OwnedBy
  <2> QED
    BY <2>1
<1>4. \A q \in nodes : q = hp <=> Len(q) = 1 /\ q[1] = HostOf[s]
  BY <1>2, WithinSession
<1>5. /\ mine \subseteq nodes
      /\ ChildrenOf(hp) \subseteq mine => gone = mine \cup (nodes \cap {hp})
      /\ ~ (ChildrenOf(hp) \subseteq mine) => gone = mine
  BY DEF CleanedUp, SubtreeOf
<1>6. \A q \in nodes : q \in ChildrenOf(hp) <=> Len(q) > 1 /\ Parent(q) = hp
  BY DEF ChildrenOf
<1> HIDE DEF hp, mine, gone
<1>7. \A q \in nodes : /\ Len(q) \in Nat /\ Len(q) >= 1 /\ q \in Path
                       /\ Len(q) > 1 => Parent(q) \in nodes
                       /\ \E t \in sessions : OwnedBy(q, t)
  BY <1>2 DEF TreeShape, Path
<1>8. ASSUME NEW q \in nodes, Len(q) > 1
      PROVE  /\ Len(Parent(q)) = Len(q) - 1 /\ Parent(q)[1] = q[1]
             /\ Len(q) > 2 => Parent(q)[2] = q[2]
  <2>1. q \in Path /\ Len(q) \in Nat
    BY <1>7
  <2>2. 1 \in 1 .. Len(q) - 1 /\ (Len(q) > 2 => 2 \in 1 .. Len(q) - 1)
    BY <1>8, <2>1
  <2> QED
    BY <1>8, <2>1, <2>2, ParentNames
<1>9. ASSUME NEW q \in nodes', Len(q) > 1 PROVE Parent(q) \in nodes'
  <2>1. q \in nodes /\ q \notin gone /\ Parent(q) \in nodes /\ Len(q) \in Nat
    BY <1>1, <1>7, <1>9
  <2>2. Parent(q) \notin mine
    <3>1. SUFFICES ASSUME Len(Parent(q)) >= 2, OwnedBy(Parent(q), s) PROVE FALSE
      BY <1>3, <2>1
    <3>2. Len(q) > 2 /\ Len(Parent(q)) > 1
      BY <1>8, <1>9, <2>1, <3>1
    <3>3. OwnedBy(q, s) /\ Len(q) >= 2
      BY <1>8, <1>9, <2>1, <3>1, <3>2 DEF OwnedBy
    <3>4. q \in mine
      BY <1>3, <2>1, <3>3
    <3> QED
      BY <1>5, <2>1, <3>4
  <2>3. CASE ChildrenOf(hp) \subseteq mine
    <3>1. Parent(q) # hp
      BY <1>5, <1>6, <1>9, <2>1, <2>3
    <3> QED
      BY <1>1, <1>5, <2>1, <2>2, <2>3, <3>1
  <2>4. CASE ~ (ChildrenOf(hp) \subseteq mine)
    BY <1>1, <1>5, <2>1, <2>2, <2>4
  <2> QED
    BY <2>3, <2>4
<1>10. ASSUME NEW q \in nodes' PROVE \E t \in sessions' : OwnedBy(q, t)
  <2>1. q \in nodes /\ q \notin gone /\ Len(q) \in Nat /\ Len(q) >= 1
    BY <1>1, <1>7
  <2>2. PICK t \in sessions : OwnedBy(q, t)
    BY <1>7, <2>1
  <2>3. CASE t # s
    BY <1>1, <2>2, <2>3
  <2>4. CASE t = s /\ Len(q) >= 2
    BY <1>3, <1>5, <2>1, <2>2, <2>4
  <2>5. CASE t = s /\ ~ (Len(q) >= 2)
    <3>1. Len(q) = 1 /\ q[1] = HostOf[s] /\ ~ (Len(q) > 1)
      <4>1. Len(q) = 1
        BY <2>1, <2>5, \A n \in Nat : n >= 1 /\ ~ (n >= 2) => n = 1
      <4> QED
        BY <2>2, <2>5, <4>1 DEF OwnedBy
    <3>2. q = hp
      BY <1>4, <2>1, <3>1
    <3>3. PICK c \in ChildrenOf(hp) : c \notin mine
      BY <1>5, <2>1, <3>2
    <3>4. c \in nodes /\ Len(c) > 1 /\ Parent(c) = hp
      BY <3>3 DEF ChildrenOf
    <3>5. c[1] = HostOf[s] /\ Len(c) \in Nat
      BY <1>7, <1>8, <3>1, <3>2, <3>4
    <3>6. PICK u \in sessions : OwnedBy(c, u)
      BY <1>7, <3>4
    <3>7. u # s
      BY <1>3, <3>3, <3>4, <3>5, <3>6 DEF OwnedBy
    <3>8. OwnedBy(q, u)
      BY <3>1, <3>5, <3>6 DEF OwnedBy
    <3> QED
      BY <1>1, <3>6, <3>7, <3>8
  <2> QED
    BY <2>3, <2>4, <2>5
<1>11. ASSUME NEW t \in sessions' PROVE HostPath(t) \in nodes' /\ SessionPath(t) \in nodes'
  <2>1. t \in sessions /\ t # s /\ t \in Session
    BY <1>1, <1>2
  <2>2. HostPath(t) \in nodes /\ SessionPath(t) \in nodes
    BY <2>1 DEF TreeShape
  <2>3. /\ Len(HostPath(t)) = 1 /\ HostPath(t)[1] = HostOf[t] /\ Len(SessionPath(t)) = 2
        /\ SessionPath(t)[1] = HostOf[t] /\ SessionPath(t)[2] = t
    BY <2>1, SessionNames
  <2>4. SessionPath(t) \notin mine /\ HostPath(t) \notin mine /\ SessionPath(t) # hp
    BY <1>3, <1>4, <2>1, <2>2, <2>3 DEF OwnedBy
  <2>5. ChildrenOf(hp) \subseteq mine => HostPath(t) # hp
    <3>1. SUFFICES ASSUME HostPath(t) = hp PROVE SessionPath(t) \in ChildrenOf(hp)
      BY <2>4
    <3>2. Parent(SessionPath(t)) \in nodes /\ Len(Parent(SessionPath(t))) = 1
          /\ Parent(SessionPath(t))[1] = HostOf[t]
      <4> DEFINE q == SessionPath(t)
      <4>1. q \in nodes /\ Len(q) = 2 /\ Len(q) > 1 /\ q[1] = HostOf[t]
        BY <2>2, <2>3
      <4> HIDE DEF q
      <4>2. Parent(q) \in nodes /\ Len(Parent(q)) = 1 /\ Parent(q)[1] = HostOf[t]
        <5>1. Parent(q) \in nodes
          BY <1>7, <4>1
        <5>2. Len(Parent(q)) = Len(q) - 1 /\ Parent(q)[1] = q[1]
          BY <1>8, <4>1
        <5>3. Len(q) - 1 = 1
          BY <4>1
        <5> QED
          BY <4>1, <5>1, <5>2, <5>3
      <4> QED
        BY <4>2 DEF q
    <3>3. HostOf[t] = HostOf[s]
      BY <1>4, <2>2, <2>3, <3>1
    <3>4. Parent(SessionPath(t)) = hp
      BY <1>4, <3>2, <3>3
    <3> QED
      BY <1>6, <2>2, <2>3, <3>4
  <2> QED
    BY <1>1, <1>5, <2>2, <2>4, <2>5
<1>12. TreeShape'
  <2>1. \A q \in nodes' : Len(q) >= 1
    BY <1>1, <1>7
  <2> QED
    BY <1>9, <1>10, <1>11, <2>1 DEF TreeShape
<1>13. CountsOK'
  <2>1. ASSUME NEW t \in sessions'
        PROVE  nodeCount'[t] = Cardinality(UserNodesOf(t)') /\ nodeCount'[t] <= MaxNodeCount
    <3>1. t \in sessions /\ t # s /\ t \in Session /\ nodes' \subseteq Path
      BY <1>1, <1>2
    <3>2. \A q \in nodes : Len(q) > 2 /\ OwnedBy(q, t) => q \notin gone
      <4>1. ASSUME NEW q \in nodes, Len(q) > 2, OwnedBy(q, t) PROVE q \notin gone
        <5>0. Len(q) \in Nat
          BY <1>7
        <5>1. Len(q) > 1 /\ Len(q) # 1
          BY <4>1, <5>0, \A n \in Nat : n > 2 => n > 1 /\ n # 1
        <5>2. ~ OwnedBy(q, s)
          BY <3>1, <4>1, <5>1 DEF OwnedBy
        <5> QED
          BY <1>3, <1>4, <1>5, <5>1, <5>2
      <4> QED
        BY <4>1
    <3>3. UserNodesOf(t)' = UserNodesOf(t)
      BY <1>1, <1>2, <3>1, <3>2, UserNodes
    <3>4. nodeCount'[t] = nodeCount[t]
      BY <1>1, <1>2, <3>1
    <3> QED
      BY <3>1, <3>3, <3>4 DEF CountsOK, NodeCountAccurate
  <2>2. \A t \in Session \ sessions' : nodeCount'[t] = 0
    BY <1>1, <1>2 DEF CountsOK
  <2> QED
    BY <2>1, <2>2 DEF CountsOK, NodeCountAccurate
<1> QED
  BY <1>12, <1>13

(* A session's call creates nodes of its own, each with its parent.        *)
LEMMA ShapeGrows ==
  ASSUME TreeTypeOK, TreeShape, NEW s \in sessions, NEW created, nodes' = nodes \cup created,
         sessions' = sessions,
         \A q \in created : Len(q) > 2 /\ OwnedBy(q, s) /\ Parent(q) \in nodes',
         nodes' \subseteq Path
  PROVE  TreeShape'
<1>1. ASSUME NEW q \in created PROVE Len(q) >= 1
  <2>1. Len(q) \in Nat
    BY DEF Path
  <2> QED
    BY <2>1, \A n \in Nat : n > 2 => n >= 1
<1> QED
  BY <1>1 DEF TreeShape

LEMMA SetDataShape ==
  ASSUME TreeTypeOK, TreeShape, CountsOK, NEW s \in Session, NEW rel \in RelPath,
         NEW v \in Value, NEW flags \in SetFlags, SetDataNode(s, rel, v, flags),
         nodes' \subseteq Path
  PROVE  TreeShape' /\ CountsOK'
<1> DEFINE created == CreatedBySetDataNode(s, rel, flags)
<1>1. /\ s \in sessions /\ sessions' = sessions /\ nodes' = nodes \cup created
      /\ nodeCount' = [nodeCount EXCEPT ![s] = nodeCount[s] + Cardinality(created)]
  BY DEF SetDataNode, nodes
<1>2. IsFiniteSet(created) /\ created \cap nodes = {}
  <2>1. IsFiniteSet(created)
    BY CreatedFinite
  <2>2. created \cap nodes = {}
    BY DEF CreatedBySetDataNode
  <2> QED
    BY <2>1, <2>2
<1>3. /\ \A q \in created : Len(q) > 2 /\ OwnedBy(q, s) /\ Parent(q) \in nodes \cup created
      /\ nodeCount[s] + Cardinality(created) <= MaxNodeCount
  BY <1>1, CreatedFacts
<1> HIDE DEF created
<1>4. TreeShape'
  BY <1>1, <1>3, ShapeGrows
<1>5. CountsOK'
  BY <1>1, <1>2, <1>3, CountsGrow
<1> QED
  BY <1>4, <1>5

LEMMA InsertShape ==
  ASSUME TreeTypeOK, TreeShape, CountsOK, NEW s \in Session, NEW parent \in nodes,
         NEW nm \in Name, NEW v \in Value, InsertOrderedData(s, parent, nm, v),
         nodes' \subseteq Path
  PROVE  TreeShape' /\ CountsOK'
<1> DEFINE p == Append(parent, nm)
<1>1. /\ s \in sessions /\ sessions' = sessions /\ nodes' = nodes \cup {p} /\ p \notin nodes
      /\ nodeCount' = [nodeCount EXCEPT ![s] = nodeCount[s] + 1]
      /\ parent \in UserNodesOf(s) /\ nodeCount[s] + 0 < MaxNodeCount
  BY DEF InsertOrderedData, MayCreate, nodes
<1>2. nodes \subseteq Path /\ nodeCount[s] \in Int
  BY DEF TreeTypeOK
<1>3. parent \in Path /\ Len(parent) > 2 /\ OwnedBy(parent, s) /\ Len(parent) \in Nat
  BY <1>1, <1>2, UserNodes DEF Path
<1>4. /\ Len(p) = Len(parent) + 1 /\ Parent(p) = parent
      /\ \A i \in 1 .. Len(parent) : p[i] = parent[i]
  <2>1. parent \in Seq(PathName) /\ nm \in PathName
    BY <1>3 DEF Path, PathName
  <2>2. /\ p \in Seq(PathName) /\ Len(p) = Len(parent) + 1
        /\ \A i \in 1 .. Len(parent) : p[i] = parent[i]
    BY <2>1
  <2> HIDE DEF p
  <2>3. Parent(p) = SubSeq(p, 1, Len(parent))
    BY <1>3, <2>2 DEF Parent
  <2>4. Parent(p) = parent
    BY <1>3, <2>1, <2>2, <2>3
  <2> QED
    BY <2>2, <2>4
<1> HIDE DEF p
<1>5. Len(p) > 2 /\ OwnedBy(p, s)
  <2>1. /\ 1 \in 1 .. Len(parent) /\ 2 \in 1 .. Len(parent) /\ Len(parent) > 1
        /\ Len(parent) + 1 > 2
    BY <1>3
  <2> QED
    BY <1>3, <1>4, <2>1 DEF OwnedBy
<1>6. TreeShape'
  <2>1. \A q \in {p} : Len(q) > 2 /\ OwnedBy(q, s) /\ Parent(q) \in nodes'
    BY <1>1, <1>4, <1>5
  <2> QED
    BY <1>1, <2>1, ShapeGrows
<1>7. CountsOK'
  <2>1. IsFiniteSet({p}) /\ Cardinality({p}) = 1 /\ {p} \cap nodes = {}
    BY <1>1, FS_Singleton
  <2>2. nodeCount[s] + 1 <= MaxNodeCount
    BY <1>1, <1>2, LimitAssumption
  <2>3. \A q \in {p} : Len(q) > 2 /\ OwnedBy(q, s)
    BY <1>5
  <2>4. /\ nodeCount' = [nodeCount EXCEPT ![s] = nodeCount[s] + Cardinality({p})]
        /\ nodeCount[s] + Cardinality({p}) <= MaxNodeCount
    BY <1>1, <2>1, <2>2
  <2> QED
    BY <1>1, <2>1, <2>3, <2>4, CountsGrow
<1> QED
  BY <1>6, <1>7

(* RemoveChild() takes whole subtrees.                                     *)
LEMMA RemoveShape ==
  ASSUME TreeTypeOK, TreeShape, CountsOK, NEW s \in Session, NEW pat, NEW f,
         DoRemoveData(s, pat, f)
  PROVE  TreeShape' /\ CountsOK'
<1> DEFINE targets == RemoveTargets(s, pat, f)
           gone == RemovedWith(targets)
<1>1. /\ s \in sessions /\ sessions' = sessions /\ nodes' = nodes \ gone
      /\ nodeCount' = [nodeCount EXCEPT ![s] = nodeCount[s] - Cardinality(gone)]
  BY DEF DoRemoveData, nodes
<1>2. nodes \subseteq Path /\ sessions \subseteq Session
  BY DEF TreeTypeOK
<1>3. targets \subseteq UserNodesOf(s)
  BY DEF RemoveTargets
<1>4. UserNodesOf(s) = {q \in nodes : Len(q) > 2 /\ OwnedBy(q, s)}
  BY <1>2, UserNodes
<1>5. gone = {q \in nodes : \E t \in targets : IsWithin(q, t)}
  BY DEF RemovedWith
<1> HIDE DEF targets, gone
<1>6. ASSUME NEW q \in gone PROVE q \in UserNodesOf(s)
  <2>1. PICK t \in targets : IsWithin(q, t)
    BY <1>5
  <2>2. q \in Path /\ t \in Path /\ q \in nodes /\ Len(q) \in Nat /\ Len(t) \in Nat
        /\ Len(t) > 2 /\ OwnedBy(t, s)
    BY <1>2, <1>3, <1>4, <1>5 DEF Path
  <2>3. Len(t) <= Len(q) /\ \A i \in 1 .. Len(t) : q[i] = t[i]
    BY <2>1, <2>2, WithinNames
  <2>4. /\ 1 \in 1 .. Len(t) /\ 2 \in 1 .. Len(t) /\ Len(q) > 2 /\ Len(t) > 1
    BY <2>2, <2>3
  <2>5. OwnedBy(q, s)
    BY <2>2, <2>3, <2>4 DEF OwnedBy
  <2> QED
    BY <1>4, <2>2, <2>4, <2>5
<1>7. ASSUME NEW q \in nodes', Len(q) > 1 PROVE Parent(q) \in nodes'
  <2>1. q \in nodes /\ q \notin gone /\ Parent(q) \in nodes /\ q \in Path
    BY <1>1, <1>2, <1>7 DEF TreeShape
  <2>2. ASSUME NEW t \in targets, IsWithin(Parent(q), t) PROVE FALSE
    <3>1. t \in Path
      BY <1>2, <1>3, <1>4
    <3>2. IsWithin(q, t)
      BY <1>7, <2>1, <2>2, <3>1, WithinParent
    <3> QED
      BY <1>5, <2>1, <3>2
  <2> QED
    BY <1>1, <1>5, <2>1, <2>2
<1>8. TreeShape'
  <2>1. \A q \in nodes' : Len(q) >= 1 /\ \E t \in sessions' : OwnedBy(q, t)
    BY <1>1 DEF TreeShape
  <2>2. ASSUME NEW t \in sessions' PROVE HostPath(t) \in nodes' /\ SessionPath(t) \in nodes'
    <3>1. t \in Session /\ HostPath(t) \in nodes /\ SessionPath(t) \in nodes
      BY <1>1, <1>2 DEF TreeShape
    <3>2. Len(HostPath(t)) = 1 /\ Len(SessionPath(t)) = 2
      BY <3>1, SessionNames
    <3>3. HostPath(t) \notin gone /\ SessionPath(t) \notin gone
      <4>1. \A q \in gone : Len(q) > 2
        BY <1>4, <1>6
      <4> QED
        BY <3>2, <4>1, ~ (1 > 2), ~ (2 > 2)
    <3> QED
      BY <1>1, <3>1, <3>3
  <2> QED
    BY <1>7, <2>1, <2>2 DEF TreeShape
<1>9. CountsOK'
  BY <1>1, <1>6, CountsShrink
<1> QED
  BY <1>8, <1>9

-----------------------------------------------------------------------------
TreeFullInv == TreeInv /\ TreeShape /\ CountsOK

(* Every handler keeps the database a tree and the sessions' counts exact. *)
LEMMA TreeFullStep ==
  ASSUME TreeFullInv, [TreeNext]_treeVars
  PROVE  TreeFullInv'
<1>1. TreeInv' /\ TreeTypeOK /\ TreeShape /\ CountsOK
  BY TreeInvStep DEF TreeFullInv, TreeInv
<1>2. nodes' \subseteq Path
  BY <1>1 DEF TreeInv, TreeTypeOK
<1>3. ASSUME NEW s \in Session, AttachedToServer(s) PROVE TreeShape' /\ CountsOK'
  BY <1>1, <1>2, <1>3, AttachShape
<1>4. ASSUME NEW s \in Session, AboutToDetachFromServer(s) PROVE TreeShape' /\ CountsOK'
  BY <1>1, <1>4, DetachShape
<1>5. ASSUME NEW s \in Session, NEW rel \in RelPath, NEW v \in Value, NEW flags \in SetFlags,
             SetDataNode(s, rel, v, flags)
      PROVE  TreeShape' /\ CountsOK'
  BY <1>1, <1>2, <1>5, SetDataShape
<1>6. ASSUME NEW s \in Session, NEW parent \in nodes, NEW nm \in Name, NEW v \in Value,
             InsertOrderedData(s, parent, nm, v)
      PROVE  TreeShape' /\ CountsOK'
  BY <1>1, <1>2, <1>6, InsertShape
<1>7. ASSUME NEW s \in Session, NEW pat \in RelPattern, NEW f \in Filter, DoRemoveData(s, pat, f)
      PROVE  TreeShape' /\ CountsOK'
  BY <1>1, <1>7, RemoveShape
<1>8. ASSUME UNCHANGED <<data, sessions, nodeCount>> PROVE TreeShape' /\ CountsOK'
  <2>1. nodes' = nodes /\ \A s \in sessions : UserNodesOf(s)' = UserNodesOf(s)
    BY <1>8 DEF nodes, UserNodesOf, SubtreeOf
  <2> QED
    BY <1>1, <1>8, <2>1 DEF TreeShape, CountsOK, NodeCountAccurate
<1>9. ASSUME NEW s \in Session, NEW pat \in Pattern, NEW f \in Filter,
             Subscribe(s, pat, f) \/ Unsubscribe(s, pat)
      PROVE  TreeShape' /\ CountsOK'
  <2>1. UNCHANGED <<data, sessions, nodeCount>>
    BY <1>9 DEF Subscribe, Unsubscribe
  <2> QED
    BY <1>8, <2>1
<1>10. ASSUME UNCHANGED treeVars PROVE TreeShape' /\ CountsOK'
  <2>1. UNCHANGED <<data, sessions, nodeCount>>
    BY <1>10 DEF treeVars
  <2> QED
    BY <1>8, <2>1
<1>11. TreeShape' /\ CountsOK'
  BY <1>3, <1>4, <1>5, <1>6, <1>7, <1>9, <1>10, FilterAssumption DEF TreeNext
<1> QED
  BY <1>1, <1>11 DEF TreeFullInv

LEMMA TreeFullInit == TreeInit => TreeFullInv
<1>1. SUFFICES ASSUME TreeInit PROVE TreeFullInv
  OBVIOUS
<1>2. nodes = {} /\ sessions = {} /\ \A s \in Session : nodeCount[s] = 0
  BY <1>1 DEF TreeInit, nodes
<1>3. TreeShape /\ CountsOK
  BY <1>2 DEF TreeShape, CountsOK, NodeCountAccurate
<1> QED
  BY <1>1, <1>3, TreeInvInit DEF TreeFullInv

(* Whatever sessions come and go, and whichever call fails half way down   *)
(* its path: the database stays a tree.  Every node has its parent, and    *)
(* Cleanup() and RemoveChild() leave no node without an attached owner.    *)
THEOREM TreeHasNoOrphans == TreeSpec => []NoOrphans
<1>1. TreeFullInv => NoOrphans
  BY ShapeHasNoOrphans DEF TreeFullInv, TreeInv
<1> QED
  BY <1>1, TreeFullInit, TreeFullStep, PTL DEF TreeSpec

(* _currentNodeCount is the number of nodes the session really stores, and *)
(* never more than _maxNodeCount, also when SetDataNode() has to create    *)
(* several nodes and may create only some of them.                         *)
THEOREM CountsCorrect == TreeSpec => []NodeCountAccurate
<1>1. TreeFullInv => NodeCountAccurate
  BY DEF TreeFullInv, CountsOK
<1> QED
  BY <1>1, TreeFullInit, TreeFullStep, PTL DEF TreeSpec

-----------------------------------------------------------------------------
(***************************************************************************)
(* The ordered indices                                                     *)
(***************************************************************************)

(* The index of node p, when N are the nodes: an entry is the name of a    *)
(* child, and no child has two.                                            *)
ListsChildren(idx, p, N) ==
  /\ idx \in Seq(PathName)
  /\ \A i, j \in 1 .. Len(idx) :
       Append(p, idx[i]) \in N /\ (idx[i] = idx[j] => i = j)

(* The inductive invariant, on top of that of NodeTree                     *)
IndexInv ==
  /\ DOMAIN index = nodes
  /\ \A p \in nodes : ListsChildren(index[p], p, nodes)

-----------------------------------------------------------------------------
(***************************************************************************)
(* Sequences                                                               *)
(***************************************************************************)

(* RemoveAt takes out one element and closes the gap.                      *)
LEMMA RemoveAtFacts ==
  ASSUME NEW T, NEW s \in Seq(T), NEW i \in DOMAIN s
  PROVE  /\ RemoveAt(s, i) \in Seq(T)
         /\ DOMAIN RemoveAt(s, i) = 1 .. Len(s) - 1
         /\ \A j \in 1 .. Len(s) - 1 :
              RemoveAt(s, i)[j] = s[IF j < i THEN j ELSE j + 1]
<1> DEFINE front == SubSeq(s, 1, i - 1)
           back == SubSeq(s, i + 1, Len(s))
<1>1. i \in 1 .. Len(s) /\ Len(s) \in Nat
  OBVIOUS
<1>2. front \in Seq(T) /\ Len(front) = i - 1 /\ \A j \in 1 .. i - 1 : front[j] = s[j]
  BY <1>1
<1>3. /\ back \in Seq(T) /\ Len(back) = Len(s) - i
      /\ \A j \in 1 .. Len(s) - i : back[j] = s[i + j]
  BY <1>1
<1>4. RemoveAt(s, i) = front \o back
  BY DEF RemoveAt
<1> HIDE DEF front, back
<1>5. RemoveAt(s, i) \in Seq(T) /\ Len(RemoveAt(s, i)) = Len(s) - 1
  BY <1>1, <1>2, <1>3, <1>4, ConcatProperties
<1>6. ASSUME NEW j \in 1 .. Len(s) - 1
      PROVE  RemoveAt(s, i)[j] = s[IF j < i THEN j ELSE j + 1]
  <2>1. (front \o back)[j] = IF j <= Len(front) THEN front[j]
                             ELSE back[j - Len(front)]
    BY <1>1, <1>2, <1>3, ConcatProperties
  <2>2. CASE j < i
    BY <2>1, <2>2, <1>1, <1>2, <1>4
  <2>3. CASE ~ j < i
    <3>1. j - (i - 1) \in 1 .. Len(s) - i /\ i + (j - (i - 1)) = j + 1
      BY <2>3, <1>1
    <3>2. (front \o back)[j] = back[j - (i - 1)]
      BY <2>1, <2>3, <1>1, <1>2
    <3>3. back[j - (i - 1)] = s[j + 1]
      BY <3>1, <1>1, <1>3
    <3> QED
      BY <3>2, <3>3, <2>3, <1>1, <1>4
  <2> QED
    BY <2>2, <2>3
<1> QED
  BY <1>1, <1>5, <1>6

(* InsertAt puts an element before another one or at the end.              *)
LEMMA InsertAtFacts ==
  ASSUME NEW T, NEW s \in Seq(T), NEW i \in 1 .. Len(s) + 1, NEW e \in T
  PROVE  /\ InsertAt(s, i, e) \in Seq(T)
         /\ DOMAIN InsertAt(s, i, e) = 1 .. Len(s) + 1
         /\ \A j \in 1 .. Len(s) + 1 :
              InsertAt(s, i, e)[j] = IF j < i THEN s[j]
                                     ELSE IF j = i THEN e ELSE s[j - 1]
<1>1. i \in 1 .. Len(s) + 1 /\ Len(s) \in Nat
  OBVIOUS
<1> DEFINE front == SubSeq(s, 1, i - 1)
           back == SubSeq(s, i, Len(s))
<1>2. front \in Seq(T) /\ Len(front) = i - 1 /\ \A j \in 1 .. i - 1 : front[j] = s[j]
  BY <1>1
<1>3. /\ back \in Seq(T) /\ Len(back) = Len(s) - i + 1
      /\ \A j \in 1 .. Len(s) - i + 1 : back[j] = s[i + j - 1]
  BY <1>1
<1> PICK start : start = front \o <<e>>
  OBVIOUS
<1>4. /\ start \in Seq(T) /\ Len(start) = i
      /\ \A j \in 1 .. i : start[j] = IF j < i THEN s[j] ELSE e
  <2> HIDE DEF front
  <2>1. <<e>> \in Seq(T) /\ Len(<<e>>) = 1 /\ <<e>>[1] = e
    OBVIOUS
  <2>2. front \o <<e>> \in Seq(T) /\ Len(front \o <<e>>) = Len(front) + 1
    BY <2>1, <1>2, ConcatProperties
  <2>3. start \in Seq(T) /\ Len(start) = i
    BY <2>2, <1>1, <1>2
  <2>4. ASSUME NEW j \in 1 .. i
        PROVE  start[j] = IF j < i THEN s[j] ELSE e
    <3>1. j \in 1 .. Len(front) + Len(<<e>>)
      BY <2>1, <1>1, <1>2
    <3>2. (front \o <<e>>)[j] = IF j <= Len(front) THEN front[j]
                               ELSE <<e>>[j - Len(front)]
      BY <3>1, <2>1, <1>2, ConcatProperties
    <3>3. CASE j < i
      BY <3>2, <3>3, <1>1, <1>2
    <3>4. CASE ~ j < i
      <4>1. j - Len(front) = 1 /\ ~ j <= Len(front)
        BY <3>4, <1>1, <1>2
      <4> QED
        BY <3>2, <3>4, <4>1, <2>1
    <3> QED
      BY <3>3, <3>4
  <2> QED
    BY <2>3, <2>4
<1>5. InsertAt(s, i, e) = start \o back
  BY DEF InsertAt
<1> HIDE DEF front, back
<1>6. InsertAt(s, i, e) \in Seq(T) /\ Len(InsertAt(s, i, e)) = Len(s) + 1
  <2>1. start \o back \in Seq(T) /\ Len(start \o back) = Len(start) + Len(back)
    BY <1>3, <1>4, ConcatProperties
  <2>2. i + (Len(s) - i + 1) = Len(s) + 1
    BY <1>1
  <2>3. Len(start \o back) = Len(s) + 1
    BY <2>1, <2>2, <1>3, <1>4
  <2> QED
    BY <2>1, <2>3, <1>5
<1>7. ASSUME NEW j \in 1 .. Len(s) + 1
      PROVE  InsertAt(s, i, e)[j] = IF j < i THEN s[j]
                                     ELSE IF j = i THEN e ELSE s[j - 1]
  <2>1. (start \o back)[j] = IF j <= Len(start) THEN start[j]
                             ELSE back[j - Len(start)]
    BY <1>1, <1>3, <1>4, ConcatProperties
  <2>2. CASE j <= i
    <3>1. j \in 1 .. i /\ (~ j < i => j = i) /\ (j < i => j # i)
      BY <2>2, <1>1
    <3>2. InsertAt(s, i, e)[j] = start[j]
      BY <2>1, <2>2, <1>4, <1>5
    <3>3. start[j] = IF j < i THEN s[j] ELSE e
      BY <3>1, <1>4
    <3> QED
      BY <3>1, <3>2, <3>3
  <2>3. CASE ~ j <= i
    <3>1. j - i \in 1 .. Len(s) - i + 1 /\ i + (j - i) - 1 = j - 1
      BY <2>3, <1>1
    <3>2. (start \o back)[j] = back[j - i]
      BY <2>1, <2>3, <1>1, <1>4
    <3>3. back[j - i] = s[j - 1]
      BY <3>1, <1>1, <1>3
    <3>4. InsertAt(s, i, e)[j] = s[j - 1]
      BY <3>2, <3>3, <1>5
    <3>5. ~ j < i /\ j # i
      BY <2>3, <1>1
    <3> QED
      BY <3>4, <3>5
  <2> QED
    BY <2>2, <2>3
<1> QED
  BY <1>1, <1>6, <1>7

-----------------------------------------------------------------------------
(***************************************************************************)
(* The operations on one index                                             *)
(***************************************************************************)

(* More nodes do not make an index wrong.                                  *)
LEMMA ListsMore ==
  ASSUME NEW idx, NEW p, NEW N, NEW M, N \subseteq M, ListsChildren(idx, p, N)
  PROVE  ListsChildren(idx, p, M)
BY DEF ListsChildren

LEMMA ListsNothing ==
  ASSUME NEW p, NEW N
  PROVE  ListsChildren(<<>>, p, N)
<1>1. <<>> \in Seq(PathName) /\ Len(<<>>) = 0 /\ 1 .. 0 = {}
  OBVIOUS
<1> QED
  BY <1>1 DEF ListsChildren

(* The last entry of a name is the only one.                               *)
LEMMA EntryFacts ==
  ASSUME NEW idx, NEW p, NEW N, NEW nm, ListsChildren(idx, p, N)
  PROVE  \/ /\ EntryOf(idx, nm) = 0
            /\ \A i \in 1 .. Len(idx) : idx[i] # nm
         \/ /\ EntryOf(idx, nm) \in 1 .. Len(idx) /\ EntryOf(idx, nm) # 0
            /\ \A i \in 1 .. Len(idx) : idx[i] = nm <=> i = EntryOf(idx, nm)
<1>1. idx \in Seq(PathName) /\ DOMAIN idx = 1 .. Len(idx) /\ Len(idx) \in Nat
  BY DEF ListsChildren
<1> DEFINE places == {i \in DOMAIN idx : idx[i] = nm}
<1>2. CASE places = {}
  BY <1>1, <1>2 DEF EntryOf
<1>3. CASE places # {}
  <2>1. PICK k \in 1 .. Len(idx) : idx[k] = nm
    BY <1>1, <1>3
  <2>2. places = {k}
    BY <1>1, <2>1 DEF ListsChildren
  <2>3. k >= k /\ k \in Nat /\ k # 0
    BY <1>1, <2>1
  <2>4. Max({k}) = k
    BY <2>3 DEF Max
  <2>5. EntryOf(idx, nm) = k
    BY <2>2, <2>4, <1>3 DEF EntryOf
  <2> QED
    BY <1>1, <2>1, <2>2, <2>3, <2>5
<1> QED
  BY <1>2, <1>3

(* Where a child is inserted is a place of the index, or after its end.    *)
LEMMA PositionFacts ==
  ASSUME NEW idx, NEW p, NEW N, NEW nm, ListsChildren(idx, p, N)
  PROVE  InsertPosition(idx, nm) \in 1 .. Len(idx) + 1
<1>1. Len(idx) \in Nat
  BY DEF ListsChildren
<1> QED
  BY <1>1, EntryFacts DEF InsertPosition

(* InsertOrderedChild() and ReorderChild() with a child that the index     *)
(* does not list yet                                                       *)
LEMMA ListsInserted ==
  ASSUME NEW idx, NEW p, NEW N, NEW k \in 1 .. Len(idx) + 1, NEW nm \in PathName,
         ListsChildren(idx, p, N), Append(p, nm) \in N,
         \A i \in 1 .. Len(idx) : idx[i] # nm
  PROVE  ListsChildren(InsertAt(idx, k, nm), p, N)
<1>1. idx \in Seq(PathName) /\ Len(idx) \in Nat
  BY DEF ListsChildren
<1> PICK new : new = InsertAt(idx, k, nm)
  OBVIOUS
<1>2. /\ new \in Seq(PathName)
      /\ DOMAIN new = 1 .. Len(idx) + 1
      /\ \A j \in 1 .. Len(idx) + 1 :
           new[j] = IF j < k THEN idx[j] ELSE IF j = k THEN nm ELSE idx[j - 1]
  <2>1. new \in Seq(PathName) /\ DOMAIN new = 1 .. Len(idx) + 1
    BY <1>1, InsertAtFacts
  <2>2. ASSUME NEW j \in 1 .. Len(idx) + 1
        PROVE  new[j] = IF j < k THEN idx[j] ELSE IF j = k THEN nm ELSE idx[j - 1]
    BY <1>1, InsertAtFacts
  <2> QED
    BY <2>1, <2>2
<1>3. Len(new) = Len(idx) + 1
  BY <1>1, <1>2
<1> DEFINE old(j) == IF j < k THEN j ELSE j - 1
<1>4. ASSUME NEW j \in 1 .. Len(new)
      PROVE  /\ j = k => new[j] = nm
             /\ j # k => old(j) \in 1 .. Len(idx) /\ new[j] = idx[old(j)]
  BY <1>1, <1>2, <1>3
<1>5. ASSUME NEW i \in 1 .. Len(new), NEW j \in 1 .. Len(new), i # k, j # k,
             old(i) = old(j)
      PROVE  i = j
  BY <1>1, <1>3, <1>5
<1> HIDE DEF old
<1>6. ASSUME NEW i \in 1 .. Len(new)
      PROVE  Append(p, new[i]) \in N
  BY <1>4 DEF ListsChildren
<1>7. ASSUME NEW i \in 1 .. Len(new), NEW j \in 1 .. Len(new), new[i] = new[j]
      PROVE  i = j
  <2>1. CASE i = k \/ j = k
    BY <2>1, <1>4, <1>7
  <2>2. CASE i # k /\ j # k
    <3>1. old(i) = old(j)
      BY <2>2, <1>4, <1>7 DEF ListsChildren
    <3> QED
      BY <3>1, <2>2, <1>5
  <2> QED
    BY <2>1, <2>2
<1> QED
  BY <1>2, <1>6, <1>7 DEF ListsChildren

(* RemoveIndexEntry() takes out a name and leaves the others.              *)
LEMMA ListsRemoved ==
  ASSUME NEW idx, NEW p, NEW N, NEW nm, ListsChildren(idx, p, N)
  PROVE  /\ ListsChildren(RemoveIndexEntry(idx, nm), p, N)
         /\ \A i \in 1 .. Len(RemoveIndexEntry(idx, nm)) :
              RemoveIndexEntry(idx, nm)[i] # nm
<1> PICK new : new = RemoveIndexEntry(idx, nm)
  OBVIOUS
<1> PICK k : k = EntryOf(idx, nm)
  OBVIOUS
<1>1. idx \in Seq(PathName) /\ Len(idx) \in Nat /\ DOMAIN idx = 1 .. Len(idx)
  BY DEF ListsChildren
<1>2. CASE k = 0
  <2>1. new = idx /\ \A i \in 1 .. Len(idx) : idx[i] # nm
    BY <1>2, EntryFacts DEF RemoveIndexEntry
  <2> QED
    BY <2>1
<1>3. CASE k # 0
  <2>1. /\ k \in 1 .. Len(idx)
        /\ \A i \in 1 .. Len(idx) : idx[i] = nm <=> i = k
    BY <1>3, EntryFacts
  <2>2. new = RemoveAt(idx, k)
    BY <1>3 DEF RemoveIndexEntry
  <2>3. /\ new \in Seq(PathName)
        /\ DOMAIN new = 1 .. Len(idx) - 1
        /\ \A j \in 1 .. Len(idx) - 1 : new[j] = idx[IF j < k THEN j ELSE j + 1]
    BY <1>1, <2>1, <2>2, RemoveAtFacts
  <2>4. Len(new) = Len(idx) - 1
    <3>1. Len(new) \in Nat /\ DOMAIN new = 1 .. Len(new)
      BY <2>3
    <3>2. Len(idx) - 1 \in Nat
      BY <1>1, <2>1
    <3> QED
      BY <3>1, <3>2, <2>3
  <2> DEFINE old(j) == IF j < k THEN j ELSE j + 1
  <2>5. ASSUME NEW j \in 1 .. Len(new)
        PROVE  old(j) \in 1 .. Len(idx) /\ new[j] = idx[old(j)] /\ old(j) # k
    BY <1>1, <2>1, <2>3, <2>4
  <2>6. ASSUME NEW i \in 1 .. Len(new), NEW j \in 1 .. Len(new), old(i) = old(j)
        PROVE  i = j
    BY <1>1, <2>1, <2>4, <2>6
  <2> HIDE DEF old
  <2>7. ASSUME NEW i \in 1 .. Len(new), NEW j \in 1 .. Len(new)
        PROVE  Append(p, new[i]) \in N /\ (new[i] = new[j] => i = j)
    BY <2>5, <2>6 DEF ListsChildren
  <2>8. \A i \in 1 .. Len(new) : new[i] # nm
    BY <2>1, <2>5
  <2> QED
    BY <2>3, <2>7, <2>8 DEF ListsChildren
<1> QED
  BY <1>2, <1>3

(* ReorderChild() moves a child that exists, or takes it out.              *)
LEMMA ListsReordered ==
  ASSUME NEW idx, NEW p, NEW N, NEW nm \in PathName, NEW before,
         ListsChildren(idx, p, N), Append(p, nm) \in N
  PROVE  ListsChildren(ReorderedIndex(idx, nm, before), p, N)
<1> PICK rest : rest = RemoveIndexEntry(idx, nm)
  OBVIOUS
<1>1. ListsChildren(rest, p, N) /\ \A i \in 1 .. Len(rest) : rest[i] # nm
  BY ListsRemoved
<1>2. InsertPosition(rest, before) \in 1 .. Len(rest) + 1
  BY <1>1, PositionFacts
<1>3. ListsChildren(InsertAt(rest, InsertPosition(rest, before), nm), p, N)
  BY <1>1, <1>2, ListsInserted
<1> QED
  BY <1>1, <1>3 DEF ReorderedIndex

(* How many of the places in left come up to place i                       *)
Rank(left, i) == Cardinality({j \in left : j <= i})

(* g lists the m places in left in ascending order.                        *)
Ranks(g, m, left) ==
  /\ m \in Nat /\ g \in [1 .. m -> left]
  /\ \A k \in 1 .. m : Rank(left, g[k]) = k
  /\ \A i \in left : Rank(left, i) \in 1 .. m /\ g[Rank(left, i)] = i

(* new has the entries of idx at the places in left, in their order.       *)
KeepsOrder(new, idx, left) ==
  \E g, m : Ranks(g, m, left) /\ new = [k \in 1 .. m |-> idx[g[k]]]

(* Taking out any entries at once leaves the others in the old order.      *)
LEMMA EntriesKept ==
  ASSUME NEW idx, idx \in Seq(PathName), NEW lost
  PROVE  KeepsOrder(EntriesExcept(idx, lost), idx, (1 .. Len(idx)) \ lost)
<1> DEFINE left == (1 .. Len(idx)) \ lost
           upTo(i) == {j \in left : j <= i}
           n == Cardinality(left)
           nth(k) == CHOOSE i \in left : Cardinality(upTo(i)) = k
<1>1. Len(idx) \in Nat /\ DOMAIN idx = 1 .. Len(idx)
  OBVIOUS
<1>2. left \subseteq 1 .. Len(idx) /\ IsFiniteSet(left) /\ n \in Nat
  <2>1. left \subseteq 1 .. Len(idx) /\ IsFiniteSet(1 .. Len(idx))
    BY <1>1, FS_Interval
  <2>2. IsFiniteSet(left)
    BY <2>1, FS_Subset
  <2> QED
    BY <2>1, <2>2, FS_CardinalityType
<1>3. EntriesExcept(idx, lost) = [k \in 1 .. n |-> idx[nth(k)]]
  BY <1>1 DEF EntriesExcept
<1> HIDE DEF left
<1>4. ASSUME NEW i \in left
      PROVE  /\ IsFiniteSet(upTo(i)) /\ Cardinality(upTo(i)) \in 1 .. n
  <2>1. IsFiniteSet(upTo(i)) /\ Cardinality(upTo(i)) <= n
    BY <1>2, FS_Subset
  <2>2. i \in upTo(i)
    BY <1>2
  <2>3. Cardinality(upTo(i)) \in Nat /\ Cardinality(upTo(i)) # 0
    BY <2>1, <2>2, FS_CardinalityType, FS_EmptySet
  <2> QED
    BY <2>1, <2>3, <1>2
<1>5. ASSUME NEW i \in left, NEW k \in left, Cardinality(upTo(i)) = Cardinality(upTo(k))
      PROVE  ~ (i < k)
  <2>1. SUFFICES ASSUME i < k PROVE FALSE
    OBVIOUS
  <2>2. i \in Nat /\ k \in Nat
    BY <1>2
  <2>3. upTo(i) \in SUBSET upTo(k) /\ k \in upTo(k) /\ k \notin upTo(i)
    <3>1. \A j \in left : j \in Nat /\ (j <= i => j <= k)
      BY <1>2, <2>1, <2>2
    <3>2. k <= k /\ ~ (k <= i)
      BY <2>1, <2>2
    <3> QED
      BY <3>1, <3>2
  <2>4. upTo(k) = upTo(i)
    BY <1>4, <1>5, <2>3, FS_Subset
  <2> QED
    BY <2>3, <2>4
<1> DEFINE rank == [i \in left |-> Cardinality(upTo(i))]
<1>6. rank \in Injection(left, 1 .. n)
  <2>1. ASSUME NEW i \in left, NEW k \in left, rank[i] = rank[k] PROVE i = k
    BY <1>2, <1>5, <2>1
  <2>2. rank \in [left -> 1 .. n]
    BY <1>4
  <2> QED
    BY <2>1, <2>2, Fun_IsInj
<1>7. rank \in Surjection(left, 1 .. n)
  <2>1. IsFiniteSet(1 .. n) /\ Cardinality(1 .. n) = n
    BY <1>2, FS_Interval
  <2> QED
    BY <1>6, <2>1, FS_Injection
<1>8. ASSUME NEW k \in 1 .. n
      PROVE  nth(k) \in left /\ Cardinality(upTo(nth(k))) = k
  <2>1. \E i \in left : Cardinality(upTo(i)) = k
    BY <1>7 DEF Surjection
  <2> QED
    BY <2>1
<1>9. PICK g : g = [k \in 1 .. n |-> nth(k)]
  OBVIOUS
<1>10. \A i \in left : Rank(left, i) = Cardinality(upTo(i))
  BY DEF Rank
<1> HIDE DEF n, nth, upTo, rank
<1>11. \A k \in 1 .. n : g[k] = nth(k) /\ g[k] \in left /\ Rank(left, g[k]) = k
  BY <1>8, <1>9, <1>10
<1>12. ASSUME NEW i \in left PROVE Rank(left, i) \in 1 .. n /\ g[Rank(left, i)] = i
  <2>1. Rank(left, i) \in 1 .. n
    BY <1>4, <1>10
  <2>2. PICK k : k = g[Rank(left, i)]
    OBVIOUS
  <2>3. k \in left /\ Rank(left, k) = Rank(left, i)
    BY <1>11, <2>1, <2>2
  <2>4. ~ (i < k) /\ ~ (k < i)
    BY <1>5, <1>10, <2>3
  <2>5. i = k
    BY <1>2, <2>3, <2>4
  <2> QED
    BY <2>1, <2>2, <2>5
<1>13. g \in [1 .. n -> left]
  BY <1>9, <1>11
<1>14. Ranks(g, n, left)
  BY <1>2, <1>11, <1>12, <1>13 DEF Ranks
<1>15. EntriesExcept(idx, lost) = [k \in 1 .. n |-> idx[g[k]]]
  BY <1>3, <1>11
<1> QED
  BY <1>14, <1>15 DEF left, KeepsOrder

(* What is left lists every remaining child once.                          *)
LEMMA ListsKept ==
  ASSUME NEW idx, NEW p, NEW N, NEW M, NEW lost, ListsChildren(idx, p, N),
         \A i \in 1 .. Len(idx) : i \notin lost => Append(p, idx[i]) \in M
  PROVE  ListsChildren(EntriesExcept(idx, lost), p, M)
<1>1. idx \in Seq(PathName) /\ Len(idx) \in Nat /\ DOMAIN idx = 1 .. Len(idx)
  BY DEF ListsChildren
<1>2. PICK new : new = EntriesExcept(idx, lost)
  OBVIOUS
<1>3. PICK left : left = (1 .. Len(idx)) \ lost
  OBVIOUS
<1>4. PICK g, n : Ranks(g, n, left) /\ new = [k \in 1 .. n |-> idx[g[k]]]
  <2>1. KeepsOrder(new, idx, left)
    BY <1>1, <1>2, <1>3, EntriesKept
  <2> QED
    BY <2>1 DEF KeepsOrder
<1>5. /\ n \in Nat
      /\ \A k \in 1 .. n : g[k] \in 1 .. Len(idx) /\ g[k] \notin lost
      /\ \A k, m \in 1 .. n : g[k] = g[m] => k = m
  BY <1>3, <1>4 DEF Ranks
<1>6. \A k \in 1 .. n : idx[g[k]] \in PathName
  BY <1>1, <1>5
<1>7. new \in Seq(PathName) /\ Len(new) = n /\ \A k \in 1 .. n : new[k] = idx[g[k]]
  BY <1>4, <1>5, <1>6
<1>8. ASSUME NEW i \in 1 .. n, NEW j \in 1 .. n
      PROVE  Append(p, new[i]) \in M /\ (new[i] = new[j] => i = j)
  BY <1>5, <1>7 DEF ListsChildren
<1> QED
  BY <1>2, <1>7, <1>8 DEF ListsChildren

-----------------------------------------------------------------------------
(***************************************************************************)
(* The indices of the tree                                                 *)
(***************************************************************************)

(* A child is its parent's path with a name appended.                      *)
LEMMA ChildNames ==
  ASSUME NEW p \in Path, NEW nm \in PathName
  PROVE  /\ Append(p, nm) \in Path /\ Len(Append(p, nm)) = Len(p) + 1
         /\ Parent(Append(p, nm)) = p
         /\ NodeName(Append(p, nm)) = nm
<1>1. p \in Seq(PathName) /\ Len(p) \in Nat
  BY DEF Path
<1> PICK q : q = Append(p, nm)
  OBVIOUS
<1>2. /\ q \in Seq(PathName) /\ Len(q) = Len(p) + 1 /\ q[Len(p) + 1] = nm
      /\ \A i \in 1 .. Len(p) : q[i] = p[i]
  BY <1>1
<1>3. Parent(q) = SubSeq(q, 1, Len(p))
  BY <1>1, <1>2 DEF Parent
<1>4. Parent(q) = p
  BY <1>1, <1>2, <1>3
<1> QED
  BY <1>2, <1>4 DEF Path, NodeName

LEMMA ParentAndName ==
  ASSUME NEW q \in Path, Len(q) > 1
  PROVE  /\ Parent(q) \in Path /\ NodeName(q) \in PathName
         /\ q = Append(Parent(q), NodeName(q))
<1>1. q \in Seq(PathName) /\ Len(q) \in Nat /\ Len(q) \in 1 .. Len(q)
  BY DEF Path
<1>2. NodeName(q) \in PathName
  BY <1>1 DEF NodeName
<1> PICK p : p = Parent(q)
  OBVIOUS
<1>3. /\ p \in Seq(PathName) /\ Len(p) = Len(q) - 1
      /\ \A i \in 1 .. Len(q) - 1 : p[i] = q[i]
  BY ParentNames DEF Path
<1> PICK r : r = Append(p, NodeName(q))
  OBVIOUS
<1>4. /\ r \in Seq(PathName) /\ Len(r) = Len(q)
      /\ \A i \in 1 .. Len(q) - 1 : r[i] = q[i]
      /\ r[Len(q)] = NodeName(q)
  BY <1>1, <1>2, <1>3
<1>5. ASSUME NEW i \in 1 .. Len(q) PROVE r[i] = q[i]
  <2>1. i \in 1 .. Len(q) - 1 \/ i = Len(q)
    BY <1>1
  <2> QED
    BY <2>1, <1>4 DEF NodeName
<1>6. r = q
  BY <1>1, <1>4, <1>5
<1> QED
  BY <1>2, <1>3, <1>6 DEF Path

(* An index never lists a child that the database does not hold.           *)
LEMMA NotListed ==
  ASSUME NEW idx, NEW p, NEW N, NEW nm, ListsChildren(idx, p, N), Append(p, nm) \notin N
  PROVE  \A i \in 1 .. Len(idx) : idx[i] # nm
BY DEF ListsChildren

(* The index of a node before it is changed                                *)
LEMMA IndexOfLists ==
  ASSUME IndexInv, NEW p
  PROVE  ListsChildren(IndexOf(p), p, nodes)
<1>1. CASE p \in nodes
  BY <1>1 DEF IndexOf, IndexInv
<1>2. CASE p \notin nodes
  BY <1>2, ListsNothing DEF IndexOf
<1> QED
  BY <1>1, <1>2

(* A step that adds nodes and changes at most the index of one node k      *)
LEMMA IndexGrows ==
  ASSUME IndexInv, nodes \subseteq nodes', NEW k, NEW new,
         index' = [p \in nodes' |-> IF p = k THEN new ELSE IndexOf(p)],
         k \in nodes' => ListsChildren(new, k, nodes')
  PROVE  IndexInv'
<1>1. ASSUME NEW p \in nodes' PROVE ListsChildren(index'[p], p, nodes')
  <2>1. CASE p = k
    BY <2>1
  <2>2. CASE p # k
    <3>1. ListsChildren(IndexOf(p), p, nodes')
      BY IndexOfLists, ListsMore
    <3> QED
      BY <2>2, <3>1
  <2> QED
    BY <2>1, <2>2
<1>2. DOMAIN index' = nodes'
  OBVIOUS
<1> QED
  BY <1>1, <1>2 DEF IndexInv, ListsChildren

(* A step that removes nodes: RemoveChild() of each takes its entry out of *)
(* the index of its parent.                                                *)
LEMMA IndexShrinks ==
  ASSUME TreeTypeOK, TreeShape, IndexInv, NEW gone, nodes' = nodes \ gone,
         index' = IndexWithout(gone)
  PROVE  IndexInv'
<1>1. index' = [p \in nodes' |->
                 EntriesExcept(index[p],
                   {EntryOf(index[p], NodeName(q)) : q \in gone \cap ChildrenOf(p)})]
  BY DEF IndexWithout
<1>2. ASSUME NEW p \in nodes' PROVE ListsChildren(index'[p], p, nodes')
  <2> PICK idx : idx = index[p]
    OBVIOUS
  <2> PICK lost : lost = {EntryOf(idx, NodeName(q)) : q \in gone \cap ChildrenOf(p)}
    OBVIOUS
  <2>1. p \in nodes /\ p \in Path /\ Len(p) >= 1 /\ Len(p) \in Nat
    BY DEF TreeTypeOK, TreeShape, Path
  <2>2. ListsChildren(idx, p, nodes)
    BY <2>1 DEF IndexInv
  <2>3. ASSUME NEW i \in 1 .. Len(idx), i \notin lost PROVE Append(p, idx[i]) \in nodes'
    <3> PICK q : q = Append(p, idx[i])
      OBVIOUS
    <3>1. q \in nodes /\ idx[i] \in PathName
      BY <2>2 DEF ListsChildren
    <3>2. Len(q) > 1 /\ Parent(q) = p /\ NodeName(q) = idx[i]
      BY <2>1, <3>1, ChildNames
    <3>3. EntryOf(idx, NodeName(q)) = i
      BY <2>2, <3>2, EntryFacts
    <3>4. q \notin gone
      BY <2>3, <3>1, <3>2, <3>3 DEF ChildrenOf
    <3> QED
      BY <3>1, <3>4
  <2>4. ListsChildren(EntriesExcept(idx, lost), p, nodes')
    BY <2>2, <2>3, ListsKept
  <2> QED
    BY <1>1, <2>4
<1>3. DOMAIN index' = nodes'
  BY <1>1
<1> QED
  BY <1>2, <1>3 DEF IndexInv, ListsChildren

-----------------------------------------------------------------------------
(***************************************************************************)
(* One lemma per handler                                                   *)
(***************************************************************************)

LEMMA AttachIndex ==
  ASSUME IndexInv, NEW s \in Session, IAttachedToServer(s)
  PROVE  IndexInv'
<1>1. /\ nodes' = nodes \cup ({HostPath(s), SessionPath(s)} \ nodes)
      /\ index' = [p \in nodes' |-> IndexOf(p)]
  BY DEF IAttachedToServer, AttachedToServer, nodes
<1>2. ASSUME NEW p \in nodes' PROVE ListsChildren(index'[p], p, nodes')
  BY <1>1, IndexOfLists, ListsMore
<1> QED
  BY <1>1, <1>2 DEF IndexInv, ListsChildren

LEMMA DetachIndex ==
  ASSUME TreeTypeOK, TreeShape, IndexInv, NEW s \in Session, IAboutToDetachFromServer(s)
  PROVE  IndexInv'
<1>1. nodes' = nodes \ CleanedUp(s) /\ index' = IndexWithout(CleanedUp(s))
  BY DEF IAboutToDetachFromServer, AboutToDetachFromServer, nodes
<1> QED
  BY <1>1, IndexShrinks

LEMMA RemoveIndex ==
  ASSUME TreeTypeOK, TreeShape, IndexInv, NEW s \in Session, NEW pat, NEW f,
         IDoRemoveData(s, pat, f)
  PROVE  IndexInv'
<1> PICK gone : gone = RemovedWith(RemoveTargets(s, pat, f))
  OBVIOUS
<1>1. nodes' = nodes \ gone /\ index' = IndexWithout(gone)
  BY DEF IDoRemoveData, DoRemoveData, nodes
<1> QED
  BY <1>1, IndexShrinks

(* SetDataNode() enters a node into the index of its parent only when the  *)
(* same call has created it.                                               *)
LEMMA SetDataIndex ==
  ASSUME TreeTypeOK, IndexInv, NEW s \in Session, NEW rel \in RelPath, NEW v,
         NEW flags \in SetFlags, NEW before, ISetDataNode(s, rel, v, flags, before)
  PROVE  IndexInv'
<1> PICK created : created = CreatedBySetDataNode(s, rel, flags)
  OBVIOUS
<1> PICK target : target = AbsPath(s, rel)
  OBVIOUS
<1> PICK k : k = Parent(target)
  OBVIOUS
<1> PICK nm : nm = NodeName(target)
  OBVIOUS
<1> PICK new : new = IndexAfterSet(IndexOf(k), target, created, flags, before)
  OBVIOUS
<1>1. /\ nodes' = nodes \cup created
      /\ index' = [p \in nodes' |->
                     IF p = k THEN IndexAfterSet(IndexOf(p), target, created, flags, before)
                     ELSE IndexOf(p)]
  BY DEF ISetDataNode, SetDataNode, nodes
<1>2. index' = [p \in nodes' |-> IF p = k THEN new ELSE IndexOf(p)]
  BY <1>1
<1>3. created \cap nodes = {}
  BY DEF CreatedBySetDataNode
<1>4. /\ k \in Path /\ nm \in PathName /\ target = Append(k, nm)
  <2>1. rel \in Seq(Name) /\ rel # <<>>
    BY InputAssumption
  <2>2. rel \in Seq(PathName) /\ Len(rel) \in Nat /\ Len(rel) > 0
    BY <2>1 DEF PathName
  <2>3. SessionPath(s) \in Seq(PathName) /\ Len(SessionPath(s)) = 2
    BY SessionNames DEF Path
  <2>4. /\ SessionPath(s) \o rel \in Seq(PathName)
        /\ Len(SessionPath(s) \o rel) = Len(SessionPath(s)) + Len(rel)
    BY <2>2, <2>3, ConcatProperties
  <2>5. target \in Path /\ Len(target) > 1
    BY <2>2, <2>3, <2>4 DEF AbsPath, Path
  <2> QED
    BY <2>5, ParentAndName
<1> PICK idx : idx = IndexOf(k)
  OBVIOUS
<1>5. ListsChildren(idx, k, nodes) /\ ListsChildren(idx, k, nodes')
  BY <1>1, IndexOfLists, ListsMore
<1>6. \/ new = idx
      \/ target \in created /\ new = InsertAt(idx, InsertPosition(idx, before), nm)
      \/ new = RemoveIndexEntry(idx, nm)
  BY DEF IndexAfterSet
<1>7. ListsChildren(new, k, nodes')
  <2>1. CASE target \in created /\ new = InsertAt(idx, InsertPosition(idx, before), nm)
    <3>1. target \notin nodes /\ target \in nodes'
      BY <2>1, <1>1, <1>3
    <3>2. \A i \in 1 .. Len(idx) : idx[i] # nm
      BY <3>1, <1>4, <1>5, NotListed
    <3>3. InsertPosition(idx, before) \in 1 .. Len(idx) + 1
      BY <1>5, PositionFacts
    <3> QED
      BY <2>1, <3>1, <3>2, <3>3, <1>4, <1>5, ListsInserted
  <2>2. CASE new = RemoveIndexEntry(idx, nm)
    BY <2>2, <1>5, ListsRemoved
  <2> QED
    BY <2>1, <2>2, <1>5, <1>6
<1>8. nodes \subseteq nodes'
  BY <1>1
<1> QED
  BY <1>2, <1>7, <1>8, IndexGrows

(* InsertOrderedChildNode() enters a node that it has just created.        *)
LEMMA InsertIndex ==
  ASSUME TreeTypeOK, IndexInv, NEW s \in Session, NEW parent \in nodes, NEW nm \in Name,
         NEW v, NEW before, IInsertOrderedData(s, parent, nm, v, before)
  PROVE  IndexInv'
<1> PICK idx : idx = index[parent]
  OBVIOUS
<1> PICK new : new = IF before # RemoveFromIndex
                     THEN InsertAt(idx, InsertPosition(idx, before), nm) ELSE idx
  OBVIOUS
<1>1. /\ nodes' = nodes \cup {Append(parent, nm)} /\ Append(parent, nm) \notin nodes
      /\ index' = [p \in nodes' |->
                     IF p = parent /\ before # RemoveFromIndex
                     THEN InsertAt(index[p], InsertPosition(index[p], before), nm)
                     ELSE IndexOf(p)]
  BY DEF IInsertOrderedData, InsertOrderedData, nodes
<1>2. idx = IndexOf(parent) /\ nm \in PathName
  BY DEF IndexOf, PathName
<1>3. index' = [p \in nodes' |-> IF p = parent THEN new ELSE IndexOf(p)]
  BY <1>1, <1>2
<1>4. ListsChildren(idx, parent, nodes) /\ ListsChildren(idx, parent, nodes')
  BY <1>1, <1>2, IndexOfLists, ListsMore
<1>5. ListsChildren(InsertAt(idx, InsertPosition(idx, before), nm), parent, nodes')
  <2>1. \A i \in 1 .. Len(idx) : idx[i] # nm
    BY <1>1, <1>4, NotListed
  <2>2. InsertPosition(idx, before) \in 1 .. Len(idx) + 1
    BY <1>4, PositionFacts
  <2>3. Append(parent, nm) \in nodes'
    BY <1>1
  <2> QED
    BY <2>1, <2>2, <2>3, <1>2, <1>4, ListsInserted
<1>6. ListsChildren(new, parent, nodes')
  BY <1>4, <1>5
<1>7. nodes \subseteq nodes'
  BY <1>1
<1> QED
  BY <1>3, <1>6, <1>7, IndexGrows

(* ReorderChild() on a node of the database                                *)
LEMMA ReorderIndex ==
  ASSUME TreeTypeOK, TreeShape, IndexInv, NEW s \in Session, NEW child \in nodes, NEW before,
         ReorderData(s, child, before)
  PROVE  IndexInv'
<1> PICK k : k = Parent(child)
  OBVIOUS
<1> PICK nm : nm = NodeName(child)
  OBVIOUS
<1>1. /\ Len(child) > 2 /\ nodes' = nodes
      /\ index' = [index EXCEPT ![k] = ReorderedIndex(index[k], nm, before)]
  BY DEF ReorderData, treeVars, nodes, UserNodesOf
<1>2. child \in Path /\ Len(child) > 1
  BY <1>1 DEF TreeTypeOK, Path
<1>3. k \in nodes /\ nm \in PathName /\ child = Append(k, nm)
  BY <1>2, ParentAndName DEF TreeShape
<1>4. ListsChildren(ReorderedIndex(index[k], nm, before), k, nodes)
  BY <1>3, ListsReordered DEF IndexInv
<1>5. DOMAIN index = nodes /\ \A p \in nodes : ListsChildren(index[p], p, nodes)
  BY DEF IndexInv
<1>6. DOMAIN index' = nodes'
  BY <1>1, <1>5
<1>7. ASSUME NEW p \in nodes' PROVE ListsChildren(index'[p], p, nodes')
  <2>1. CASE p = k
    BY <2>1, <1>1, <1>3, <1>4, <1>5
  <2>2. CASE p # k
    BY <2>2, <1>1, <1>5
  <2> QED
    BY <2>1, <2>2
<1> QED
  BY <1>6, <1>7 DEF IndexInv, ListsChildren

-----------------------------------------------------------------------------
(* Every step of the database with its indices is a step of the database.  *)
LEMMA IndexStepIsTreeStep ==
  ASSUME [IndexNext]_<<treeVars, indexVars>>
  PROVE  [TreeNext]_treeVars
<1>1. ASSUME NEW s \in Session, IAttachedToServer(s) PROVE TreeNext
  BY <1>1 DEF IAttachedToServer, TreeNext
<1>2. ASSUME NEW s \in Session, IAboutToDetachFromServer(s) PROVE TreeNext
  BY <1>2 DEF IAboutToDetachFromServer, TreeNext
<1>3. ASSUME NEW s \in Session, NEW rel \in RelPath, NEW v \in Value, NEW flags \in SetFlags,
             NEW before \in SetBefore, ISetDataNode(s, rel, v, flags, before)
      PROVE  TreeNext
  BY <1>3 DEF ISetDataNode, TreeNext
<1>4. ASSUME NEW s \in Session, NEW parent \in nodes, NEW nm \in Name, NEW v \in Value,
             NEW before \in InsertBefore, IInsertOrderedData(s, parent, nm, v, before)
      PROVE  TreeNext
  BY <1>4 DEF IInsertOrderedData, TreeNext
<1>5. ASSUME NEW s \in Session, NEW child \in nodes, NEW before \in ReorderBefore,
             ReorderData(s, child, before)
      PROVE  UNCHANGED treeVars
  BY <1>5 DEF ReorderData
<1>6. ASSUME NEW s \in Session, NEW pat \in RelPattern, NEW f \in Filter,
             IDoRemoveData(s, pat, f)
      PROVE  TreeNext
  BY <1>6 DEF IDoRemoveData, TreeNext
<1>7. ASSUME NEW s \in Session, NEW pat \in Pattern, NEW f \in Filter, ISubscribe(s, pat, f)
      PROVE  TreeNext
  BY <1>7 DEF ISubscribe, TreeNext
<1>8. ASSUME NEW s \in Session, NEW pat \in Pattern, IUnsubscribe(s, pat)
      PROVE  TreeNext
  BY <1>8 DEF IUnsubscribe, TreeNext
<1>9. CASE UNCHANGED <<treeVars, indexVars>>
  BY <1>9
<1> QED
  BY <1>1, <1>2, <1>3, <1>4, <1>5, <1>6, <1>7, <1>8, <1>9 DEF IndexNext

(* Every handler keeps the indices well formed.                            *)
LEMMA IndexInvStep ==
  ASSUME TreeTypeOK, TreeShape, IndexInv, [IndexNext]_<<treeVars, indexVars>>
  PROVE  IndexInv'
<1>1. ASSUME UNCHANGED <<data, index>> PROVE IndexInv'
  BY <1>1 DEF IndexInv, ListsChildren, nodes
<1>2. ASSUME NEW s \in Session, NEW pat, NEW f, ISubscribe(s, pat, f) \/ IUnsubscribe(s, pat)
      PROVE  IndexInv'
  <2>1. UNCHANGED <<data, index>>
    BY <1>2 DEF ISubscribe, IUnsubscribe, Subscribe, Unsubscribe, indexVars
  <2> QED
    BY <1>1, <2>1
<1>3. ASSUME UNCHANGED <<treeVars, indexVars>> PROVE IndexInv'
  <2>1. UNCHANGED <<data, index>>
    BY <1>3 DEF treeVars, indexVars
  <2> QED
    BY <1>1, <2>1
<1>4. ASSUME NEW s \in Session, NEW pat \in Pattern, IUnsubscribe(s, pat) PROVE IndexInv'
  BY <1>2, <1>4
<1>5. ASSUME NEW s \in Session, IAttachedToServer(s) PROVE IndexInv'
  BY <1>5, AttachIndex
<1>6. ASSUME NEW s \in Session, IAboutToDetachFromServer(s) PROVE IndexInv'
  BY <1>6, DetachIndex
<1>7. ASSUME NEW s \in Session, NEW rel \in RelPath, NEW v \in Value, NEW flags \in SetFlags,
             NEW before \in SetBefore, ISetDataNode(s, rel, v, flags, before)
      PROVE  IndexInv'
  BY <1>7, SetDataIndex
<1>8. ASSUME NEW s \in Session, NEW parent \in nodes, NEW nm \in Name, NEW v \in Value,
             NEW before \in InsertBefore, IInsertOrderedData(s, parent, nm, v, before)
      PROVE  IndexInv'
  BY <1>8, InsertIndex
<1>9. ASSUME NEW s \in Session, NEW child \in nodes, NEW before \in ReorderBefore,
             ReorderData(s, child, before)
      PROVE  IndexInv'
  BY <1>9, ReorderIndex
<1>10. ASSUME NEW s \in Session, NEW pat \in RelPattern, NEW f \in Filter,
              IDoRemoveData(s, pat, f)
       PROVE  IndexInv'
  BY <1>10, RemoveIndex
<1>11. ASSUME NEW s \in Session, NEW pat \in Pattern, NEW f \in Filter, ISubscribe(s, pat, f)
       PROVE  IndexInv'
  BY <1>2, <1>11
<1> QED
  BY <1>3, <1>4, <1>5, <1>6, <1>7, <1>8, <1>9, <1>10, <1>11 DEF IndexNext

LEMMA IndexInvInit == IndexInit => IndexInv
<1>1. SUFFICES ASSUME IndexInit PROVE IndexInv
  OBVIOUS
<1>2. data = <<>> /\ index = <<>>
  BY <1>1 DEF IndexInit, TreeInit
<1>3. nodes = {} /\ DOMAIN index = {}
  BY <1>2 DEF nodes
<1> QED
  BY <1>3 DEF IndexInv

(* What is proved of the database alone (marks, shape, counts) holds with  *)
(* the indices too: no command on an index disturbs the tree.              *)
THEOREM IndexKeepsTree == IndexSpec => TreeSpec
<1>1. IndexInit => TreeInit
  BY DEF IndexInit
<1> QED
  BY <1>1, IndexStepIsTreeStep, PTL DEF IndexSpec, TreeSpec

(* However insertions, moves and removals of children and of whole         *)
(* subtrees follow each other: every index lists children that exist, each *)
(* of them once, so RemoveChild(), which takes out one entry, leaves none  *)
(* behind.                                                                 *)
THEOREM IndicesCorrect == IndexSpec => []IndexWellFormed
<1> DEFINE Inv == TreeFullInv /\ IndexInv
<1>1. IndexInit => Inv
  BY TreeFullInit, IndexInvInit DEF IndexInit
<1>2. Inv /\ [IndexNext]_<<treeVars, indexVars>> => Inv'
  <2>1. SUFFICES ASSUME Inv, [IndexNext]_<<treeVars, indexVars>> PROVE Inv'
    OBVIOUS
  <2>2. [TreeNext]_treeVars
    BY <2>1, IndexStepIsTreeStep
  <2>3. TreeFullInv'
    BY <2>1, <2>2, TreeFullStep
  <2>4. TreeTypeOK /\ TreeShape
    BY <2>1 DEF TreeFullInv, TreeInv
  <2>5. IndexInv'
    BY <2>1, <2>4, IndexInvStep
  <2> QED
    BY <2>3, <2>5
<1>3. Inv => IndexWellFormed
  BY DEF IndexInv, IndexWellFormed, ListsChildren
<1> HIDE DEF Inv
<1> QED
  BY <1>1, <1>2, <1>3, PTL DEF IndexSpec

-----------------------------------------------------------------------------
(***************************************************************************)
(* Induction and folds                                                     *)
(***************************************************************************)

LEMMA AllNat ==
  ASSUME NEW W \in SUBSET Nat, 0 \in W, \A n \in W : n + 1 \in W
  PROVE  W = Nat
<1>1. SUFFICES ASSUME Nat \ W # {} PROVE FALSE
  OBVIOUS
<1>2. PICK m \in Nat \ W : \A k \in Nat \ W : ~ (<<k, m>> \in OpToRel(<, Nat))
  BY <1>1, NatLessThanWellFounded, WFMin, Zenon
<1>3. m \in Nat /\ m \notin W
  OBVIOUS
<1>4. m - 1 \in Nat /\ m - 1 < m /\ (m - 1) + 1 = m
  BY <1>3
<1>5. m - 1 \in W
  BY <1>2, <1>3, <1>4 DEF OpToRel
<1>6. (m - 1) + 1 \in W
  BY <1>5
<1> QED
  BY <1>3, <1>4, <1>6

IsFold(it, S, A, a, pick, step) ==
  /\ it \in [SUBSET S -> A]
  /\ \A s \in SUBSET S : it[s] = IF s = {} THEN a ELSE step[pick[s]][it[s \ {pick[s]}]]

(* Folding steps of a type over a finite set, in an order that is picked,  *)
(* is well defined.                                                        *)
LEMMA FoldExists ==
  ASSUME NEW S, IsFiniteSet(S), NEW A, NEW a \in A,
         NEW pick, \A s \in (SUBSET S) \ {{}} : pick[s] \in s,
         NEW step, \A x \in S, y \in A : step[x][y] \in A
  PROVE  \E it : IsFold(it, S, A, a, pick, step)
<1> DEFINE Small(n) == {s \in SUBSET S : Cardinality(s) <= n}
           Good(n) == \E it \in [Small(n) -> A] : \A s \in Small(n) :
                        it[s] = IF s = {} THEN a ELSE step[pick[s]][it[s \ {pick[s]}]]
           W == {n \in Nat : Good(n)}
<1>1. \A s \in SUBSET S : IsFiniteSet(s) /\ Cardinality(s) \in Nat
  BY FS_Subset, FS_CardinalityType
<1>2. \A s \in SUBSET S : s # {} => /\ s \ {pick[s]} \in SUBSET S
                                    /\ Cardinality(s \ {pick[s]}) = Cardinality(s) - 1
  BY <1>1, FS_RemoveElement
<1>3. 0 \in W
  <2>1. \A s \in Small(0) : s = {}
    BY <1>1, FS_EmptySet
  <2>2. [s \in Small(0) |-> a] \in [Small(0) -> A]
    OBVIOUS
  <2> QED
    BY <2>1, <2>2
<1>4. ASSUME NEW n \in W PROVE n + 1 \in W
  <2>1. PICK it \in [Small(n) -> A] : \A s \in Small(n) :
               it[s] = IF s = {} THEN a ELSE step[pick[s]][it[s \ {pick[s]}]]
    BY <1>4
  <2>2. PICK jt : jt = [s \in Small(n + 1) |-> IF s = {} THEN a
                          ELSE step[pick[s]][it[s \ {pick[s]}]]]
    OBVIOUS
  <2>3. \A s \in Small(n + 1) : s # {} => s \ {pick[s]} \in Small(n)
    BY <1>1, <1>2
  <2>4. jt \in [Small(n + 1) -> A]
    <3>1. ASSUME NEW s \in Small(n + 1) PROVE jt[s] \in A
      BY <2>2, <2>3, <2>1
    <3> QED
      BY <2>2, <3>1
  <2>0. n \in Nat /\ n + 1 \in Nat
    BY <1>4
  <2>5. ASSUME NEW s \in Small(n) PROVE s \in Small(n + 1) /\ jt[s] = it[s]
    <3>1. Cardinality(s) \in Nat /\ Cardinality(s) <= n /\ s \in SUBSET S
      BY <1>1
    <3>2. s \in Small(n + 1)
      BY <2>0, <3>1
    <3> QED
      BY <2>1, <2>2, <3>2
  <2>6. \A s \in Small(n + 1) :
          jt[s] = IF s = {} THEN a ELSE step[pick[s]][jt[s \ {pick[s]}]]
    BY <2>2, <2>3, <2>5
  <2>7. Good(n + 1)
    BY <2>4, <2>6
  <2> QED
    BY <2>0, <2>7
<1>5. W = Nat
  <2> HIDE DEF W
  <2>1. W \in SUBSET Nat
    BY DEF W
  <2> QED
    BY <1>3, <1>4, <2>1, AllNat
<1>6. Small(Cardinality(S)) = SUBSET S
  BY <1>1, FS_Subset
<1>7. Good(Cardinality(S))
  BY <1>1, <1>5
<1> QED
  BY <1>6, <1>7 DEF IsFold

(* What holds of the empty set, and of a set if it holds without its       *)
(* picked element, holds of all.                                           *)
LEMMA SubsetInduction ==
  ASSUME NEW S, IsFiniteSet(S), NEW pick, \A s \in (SUBSET S) \ {{}} : pick[s] \in s,
         NEW W, {} \in W,
         \A s \in SUBSET S : s # {} /\ s \ {pick[s]} \in W => s \in W
  PROVE  \A s \in SUBSET S : s \in W
<1> DEFINE N == {n \in Nat : \A s \in SUBSET S : Cardinality(s) = n => s \in W}
<1>1. \A s \in SUBSET S : IsFiniteSet(s) /\ Cardinality(s) \in Nat
  BY FS_Subset, FS_CardinalityType
<1>2. 0 \in N
  BY <1>1, FS_EmptySet
<1>3. ASSUME NEW n \in N PROVE n + 1 \in N
  <2>1. SUFFICES ASSUME NEW s \in SUBSET S, Cardinality(s) = n + 1 PROVE s \in W
    OBVIOUS
  <2>2. s # {}
    BY <2>1, <1>1, FS_EmptySet
  <2>3. Cardinality(s \ {pick[s]}) = n /\ s \ {pick[s]} \in SUBSET S
    <3>1. n \in Nat /\ pick[s] \in s /\ IsFiniteSet(s)
      BY <2>1, <2>2, <1>1, <1>3
    <3>2. Cardinality(s \ {pick[s]}) = Cardinality(s) - 1
      BY <3>1, FS_RemoveElement
    <3> QED
      BY <2>1, <3>1, <3>2
  <2> QED
    BY <1>3, <2>2, <2>3
<1>4. N = Nat
  <2> HIDE DEF N
  <2>1. N \in SUBSET Nat
    BY DEF N
  <2> QED
    BY <1>2, <1>3, <2>1, AllNat
<1> QED
  BY <1>1, <1>4

(* The same over the positions of a sequence, the last one first           *)
LEMMA MaxOfPositions ==
  ASSUME NEW n \in Nat, NEW s \in SUBSET (1 .. n), s # {}
  PROVE  Max(s) \in s /\ \A i \in s : i <= Max(s)
<1>1. s \in SUBSET Int /\ \A i \in s : i <= n
  OBVIOUS
<1>2. \E m \in s : \A i \in s : m >= i
  <2> DEFINE T == {k \in Nat : \E i \in s : i = n - k}
  <2>1. T \in SUBSET Nat /\ T # {}
    <3>1. PICK i \in s : TRUE
      OBVIOUS
    <3>2. n - i \in Nat /\ i = n - (n - i)
      BY <3>1
    <3> QED
      BY <3>1, <3>2
  <2> HIDE DEF T
  <2>2. PICK k \in T : \A j \in T : ~ (<<j, k>> \in OpToRel(<, Nat))
    BY <2>1, NatLessThanWellFounded, WFMin, Zenon
  <2>3. k \in Nat /\ n - k \in s
    BY <2>1 DEF T
  <2>4. ASSUME NEW i \in s PROVE n - k >= i
    <3>1. i \in 1 .. n /\ n - i \in Nat /\ i = n - (n - i)
      OBVIOUS
    <3>2. n - i \in T
      BY <3>1 DEF T
    <3>3. ~ (n - i < k)
      BY <2>2, <2>3, <3>1, <3>2 DEF OpToRel
    <3> QED
      BY <2>3, <3>1, <3>3
  <2> QED
    BY <2>3, <2>4
<1>3. PICK m \in s : \A i \in s : m >= i
  BY <1>2
<1>4. Max(s) \in s /\ \A i \in s : Max(s) >= i
  BY <1>3 DEF Max
<1> QED
  BY <1>1, <1>4

IsSeqFold(it, n, A, a, step) ==
  /\ it \in [SUBSET (1 .. n) -> A]
  /\ \A s \in SUBSET (1 .. n) :
       it[s] = IF s = {} THEN a ELSE step[Max(s)][it[s \ {Max(s)}]]

StepsIn(step, n, A) == \A k \in 1 .. n, y \in A : step[k][y] \in A

LEMMA SeqFoldExists ==
  ASSUME NEW n \in Nat, NEW A, NEW a \in A,
         NEW step, StepsIn(step, n, A)
  PROVE  \E it : IsSeqFold(it, n, A, a, step)
<1>1. PICK pick : pick = [s \in (SUBSET (1 .. n)) \ {{}} |-> Max(s)]
  OBVIOUS
<1>2. \A s \in (SUBSET (1 .. n)) \ {{}} : pick[s] \in s /\ pick[s] = Max(s)
  BY <1>1, MaxOfPositions
<1>3. IsFiniteSet(1 .. n)
  BY FS_Interval
<1>4. PICK S : S = 1 .. n
  OBVIOUS
<1>5. IsFiniteSet(S)
  BY <1>3, <1>4
<1>9. \A s \in (SUBSET S) \ {{}} : pick[s] \in s
  BY <1>2, <1>4
<1>10. \A x \in S, y \in A : step[x][y] \in A
  BY <1>4 DEF StepsIn
<1>11. PICK it : IsFold(it, S, A, a, pick, step)
  BY <1>5, <1>9, <1>10, FoldExists
<1>6. /\ it \in [SUBSET S -> A]
      /\ \A s \in SUBSET S :
           it[s] = IF s = {} THEN a ELSE step[pick[s]][it[s \ {pick[s]}]]
  BY <1>11 DEF IsFold
<1>7. ASSUME NEW s \in SUBSET S
      PROVE  it[s] = IF s = {} THEN a ELSE step[Max(s)][it[s \ {Max(s)}]]
  <2>1. CASE s = {}
    BY <1>6, <2>1
  <2>2. CASE s # {}
    <3>1. pick[s] = Max(s)
      BY <1>2, <1>4, <2>2
    <3> QED
      BY <1>6, <2>2, <3>1
  <2> QED
    BY <2>1, <2>2
<1> QED
  BY <1>4, <1>6, <1>7 DEF IsSeqFold

IsTrace(f, n, A, a, step) ==
  /\ f \in [0 .. n -> A]
  /\ f[0] = a
  /\ \A k \in 1 .. n : f[k] = step[k][f[k - 1]]

Unfolds(h, n, A, a, step) ==
  /\ h[{}] = a
  /\ \A s \in SUBSET (1 .. n) : s # {} /\ h[s \ {Max(s)}] \in A =>
       h[s] = step[Max(s)][h[s \ {Max(s)}]]

LEMMA SeqTrace ==
  ASSUME NEW n \in Nat, NEW A, NEW a \in A,
         NEW step, StepsIn(step, n, A), NEW h, Unfolds(h, n, A, a, step)
  PROVE  \E f : IsTrace(f, n, A, a, step) /\ f[n] = h[1 .. n]
<1>1. \A k \in 1 .. n : Max(1 .. k) = k /\ (1 .. k) \ {k} = 1 .. (k - 1)
  <2>1. SUFFICES ASSUME NEW k \in 1 .. n PROVE Max(1 .. k) = k
    OBVIOUS
  <2>2. k \in Nat /\ k \in 1 .. k /\ 1 .. k \in SUBSET (1 .. k) /\ 1 .. k # {}
    BY <2>1
  <2>3. Max(1 .. k) \in 1 .. k /\ k <= Max(1 .. k)
    BY <2>2, MaxOfPositions
  <2> QED
    BY <2>2, <2>3
<1> DEFINE W == {k \in Nat : k <= n => h[1 .. k] \in A}
<1>2. 1 .. 0 = {}
  OBVIOUS
<1>3. 0 \in W
  BY <1>2 DEF Unfolds
<1>4. ASSUME NEW k \in W PROVE k + 1 \in W
  <2>1. CASE k + 1 <= n
    <3>1. k + 1 \in 1 .. n /\ (k + 1) - 1 = k /\ k <= n /\ k \in Nat
      BY <2>1
    <3>2. h[1 .. k] \in A
      BY <3>1
    <3>5. k + 1 \in 1 .. (k + 1) /\ \A i \in 1 .. (k + 1) : i \in 1 .. n
      BY <3>1
    <3>3. 1 .. (k + 1) \in SUBSET (1 .. n) /\ 1 .. (k + 1) # {}
      BY <3>5
    <3>4. h[1 .. (k + 1)] = step[k + 1][h[1 .. k]]
      BY <1>1, <3>1, <3>2, <3>3 DEF Unfolds
    <3> QED
      BY <3>1, <3>2, <3>4 DEF StepsIn
  <2> QED
    BY <2>1
<1>5. W = Nat
  <2> HIDE DEF W
  <2>1. W \in SUBSET Nat
    BY DEF W
  <2> QED
    BY <1>3, <1>4, <2>1, AllNat
<1>6. \A k \in 0 .. n : h[1 .. k] \in A
  BY <1>5
<1>7. PICK f : f = [k \in 0 .. n |-> h[1 .. k]]
  OBVIOUS
<1>8. ASSUME NEW k \in 1 .. n PROVE f[k] = step[k][f[k - 1]]
  <2>1. 1 .. k \in SUBSET (1 .. n) /\ 1 .. k # {} /\ k - 1 \in 0 .. n /\ k \in 0 .. n
    OBVIOUS
  <2>2. h[1 .. k] = step[k][h[1 .. (k - 1)]]
    BY <1>1, <1>6, <2>1 DEF Unfolds
  <2> QED
    BY <1>7, <2>1, <2>2
<1>9. f \in [0 .. n -> A]
  BY <1>6, <1>7
<1>10. f[0] = a /\ f[n] = h[1 .. n]
  BY <1>2, <1>7 DEF Unfolds
<1> QED
  BY <1>8, <1>9, <1>10 DEF IsTrace

-----------------------------------------------------------------------------
(***************************************************************************)
(* Types                                                                   *)
(***************************************************************************)

Partial(S, V) == UNION {[P -> V] : P \in SUBSET S}

ItemsType == {f \in Partial(Path, Value) : IsFiniteSet(DOMAIN f)}

OpType ==
  [kind : {"index"}, op : {"i", "r"}, path : Path, at : Nat \ {0}, name : PathName]
  \cup [kind : {"index"}, op : {"c"}, path : Path]
OpsType == Partial(Path, Seq(OpType))

ItemsMsg == [kind : {"items"}, removed : SUBSET Path, items : ItemsType]
IndexMsg == [kind : {"index"}, ops : OpsType]
PongMsg  == [kind : {"pong"}, keep : SUBSET [pat : Pattern, filter : Filter]]
MsgType  == ItemsMsg \cup IndexMsg \cup PongMsg

ClientType == [items : Partial(Path, Value), index : Partial(Path, Seq(PathName))]

LEMMA PartialIs ==
  ASSUME NEW S, NEW V, NEW f
  PROVE  f \in Partial(S, V) <=> DOMAIN f \in SUBSET S /\ f \in [DOMAIN f -> V]
  BY DEF Partial

LEMMA EmptyPartial ==
  ASSUME NEW S, NEW V
  PROVE  <<>> \in Partial(S, V) /\ DOMAIN <<>> = {}
<1>1. DOMAIN <<>> = {} /\ <<>> \in [{} -> V]
  OBVIOUS
<1> QED
  BY <1>1, PartialIs

LEMMA MsgKinds ==
  ASSUME NEW m \in MsgType
  PROVE  /\ m.kind \in {"items", "index", "pong"}
         /\ m.kind = "items" => m \in ItemsMsg
         /\ m.kind = "index" => m \in IndexMsg
         /\ m.kind = "pong" => m \in PongMsg
  BY DEF MsgType, ItemsMsg, IndexMsg, PongMsg

-----------------------------------------------------------------------------
(***************************************************************************)
(* What the client makes of the op codes of an index                       *)
(***************************************************************************)

LEMMA ApplyOpType ==
  ASSUME NEW idx \in Seq(PathName), NEW e \in OpType
  PROVE  ApplyOp(idx, e) \in Seq(PathName)
<1>1. e.op \in {"i", "r", "c"} /\ (e.op # "c" => e.at \in Nat \ {0} /\ e.name \in PathName)
  BY DEF OpType
<1>2. CASE e.op = "c"
  BY <1>2 DEF ApplyOp
<1>3. CASE e.op = "i" /\ e.at <= Len(idx) + 1
  <2>1. e.at \in 1 .. Len(idx) + 1 /\ e.name \in PathName
    BY <1>1, <1>3
  <2>2. ApplyOp(idx, e) = InsertAt(idx, e.at, e.name)
    BY <1>3 DEF ApplyOp
  <2> QED
    BY <2>1, <2>2, InsertAtFacts
<1>4. CASE e.op = "r" /\ e.at <= Len(idx)
  <2>1. e.at \in DOMAIN idx
    BY <1>1, <1>4
  <2>2. ApplyOp(idx, e) = RemoveAt(idx, e.at)
    BY <1>4 DEF ApplyOp
  <2> QED
    BY <2>1, <2>2, RemoveAtFacts
<1>5. CASE ~ (e.op = "i" /\ e.at <= Len(idx) + 1) /\ ~ (e.op = "r" /\ e.at <= Len(idx))
           /\ e.op # "c"
  BY <1>5 DEF ApplyOp
<1> QED
  BY <1>2, <1>3, <1>4, <1>5

IsOpTrace(f, idx, ops) ==
  /\ f \in [0 .. Len(ops) -> Seq(PathName)]
  /\ f[0] = idx
  /\ \A k \in 1 .. Len(ops) : f[k] = ApplyOp(f[k - 1], ops[k])

LEMMA OpFold ==
  ASSUME NEW idx \in Seq(PathName), NEW ops \in Seq(OpType)
  PROVE  \E f : IsOpTrace(f, idx, ops) /\ FoldLeft(ApplyOp, idx, ops) = f[Len(ops)]
<1> DEFINE n == Len(ops)
           A == Seq(PathName)
           H == CHOOSE g : g = [s \in SUBSET (DOMAIN ops) |->
                  IF s = {} THEN idx ELSE ApplyOp(g[s \ {Max(s)}], ops[Max(s)])]
<1>1. n \in Nat /\ DOMAIN ops = 1 .. n /\ \A k \in 1 .. n : ops[k] \in OpType
  OBVIOUS
<1>2. idx \in A
  OBVIOUS
<1>3. PICK step : step = [k \in 1 .. n |-> [x \in A |-> ApplyOp(x, ops[k])]]
  OBVIOUS
<1>4. \A k \in 1 .. n, x \in A : ApplyOp(x, ops[k]) \in A
  BY <1>1, ApplyOpType
<1>5. FoldLeft(ApplyOp, idx, ops) = H[DOMAIN ops]
  BY DEF FoldLeft, MapThenFoldSet
<1> HIDE DEF n, A, H
<1>6. /\ StepsIn(step, n, A)
      /\ \A k \in 1 .. n, x \in A : step[k][x] = ApplyOp(x, ops[k])
  BY <1>3, <1>4 DEF StepsIn
<1>7. PICK it : IsSeqFold(it, n, A, idx, step)
  BY <1>1, <1>2, <1>6, SeqFoldExists
<1>8. ASSUME NEW s \in SUBSET (1 .. n), s # {}
      PROVE  it[s] = ApplyOp(it[s \ {Max(s)}], ops[Max(s)])
  <2>1. Max(s) \in 1 .. n /\ s \ {Max(s)} \in SUBSET (1 .. n)
    BY <1>1, <1>8, MaxOfPositions
  <2>2. it[s \ {Max(s)}] \in A /\ it[s] = step[Max(s)][it[s \ {Max(s)}]]
    BY <1>7, <1>8, <2>1 DEF IsSeqFold
  <2> QED
    BY <1>6, <2>1, <2>2
<1>9. it = [s \in SUBSET (1 .. n) |->
              IF s = {} THEN idx ELSE ApplyOp(it[s \ {Max(s)}], ops[Max(s)])]
  BY <1>7, <1>8 DEF IsSeqFold
<1>10. H = [s \in SUBSET (1 .. n) |->
              IF s = {} THEN idx ELSE ApplyOp(H[s \ {Max(s)}], ops[Max(s)])]
  BY <1>1, <1>9 DEF H
<1>11. Unfolds(H, n, A, idx, step)
  <2>1. H[{}] = idx
    BY <1>10
  <2>2. \A s \in SUBSET (1 .. n) : s # {} /\ H[s \ {Max(s)}] \in A =>
          H[s] = step[Max(s)][H[s \ {Max(s)}]]
    BY <1>1, <1>6, <1>10, MaxOfPositions
  <2> QED
    BY <2>1, <2>2 DEF Unfolds
<1>12. PICK f : IsTrace(f, n, A, idx, step) /\ f[n] = H[1 .. n]
  BY <1>1, <1>2, <1>6, <1>11, SeqTrace
<1>13. f \in [0 .. n -> A] /\ f[0] = idx
  BY <1>12 DEF IsTrace
<1>14. ASSUME NEW k \in 1 .. n PROVE f[k] = ApplyOp(f[k - 1], ops[k])
  <2>1. k - 1 \in 0 .. n
    BY <1>1
  <2>2. f[k - 1] \in A /\ f[k] = step[k][f[k - 1]]
    BY <1>12, <1>13, <2>1 DEF IsTrace
  <2> QED
    BY <1>6, <2>2
<1> QED
  BY <1>1, <1>5, <1>12, <1>13, <1>14 DEF IsOpTrace, n, A

(* What holds before the first step and is kept by each holds at the end.  *)
LEMMA PositionInduction ==
  ASSUME NEW n \in Nat, NEW W, 0 \in W, \A k \in 1 .. n : k - 1 \in W => k \in W
  PROVE  \A k \in 0 .. n : k \in W
<1> DEFINE N == {k \in Nat : k <= n => k \in W}
<1>1. 0 \in N
  OBVIOUS
<1>2. ASSUME NEW k \in N PROVE k + 1 \in N
  <2>1. k \in Nat /\ k + 1 \in Nat /\ (k + 1) - 1 = k
    OBVIOUS
  <2>2. CASE k + 1 <= n
    <3>1. k \in W /\ k + 1 \in 1 .. n
      BY <2>1, <2>2
    <3> QED
      BY <2>1, <3>1
  <2> QED
    BY <2>1, <2>2
<1>3. N = Nat
  <2> HIDE DEF N
  <2>1. N \in SUBSET Nat
    BY DEF N
  <2> QED
    BY <1>1, <1>2, <2>1, AllNat
<1> QED
  BY <1>3

LEMMA AppendFacts ==
  ASSUME NEW T, NEW s \in Seq(T), NEW e \in T
  PROVE  /\ Append(s, e) \in Seq(T) /\ Len(Append(s, e)) = Len(s) + 1
         /\ \A k \in 1 .. Len(s) : Append(s, e)[k] = s[k]
         /\ Append(s, e)[Len(s) + 1] = e
  OBVIOUS

LEMMA OpFoldType ==
  ASSUME NEW idx \in Seq(PathName), NEW ops \in Seq(OpType)
  PROVE  FoldLeft(ApplyOp, idx, ops) \in Seq(PathName)
<1>1. PICK f : IsOpTrace(f, idx, ops) /\ FoldLeft(ApplyOp, idx, ops) = f[Len(ops)]
  BY OpFold
<1>2. Len(ops) \in 0 .. Len(ops)
  OBVIOUS
<1> QED
  BY <1>1, <1>2 DEF IsOpTrace

LEMMA OpFoldAppend ==
  ASSUME NEW idx \in Seq(PathName), NEW ops \in Seq(OpType), NEW e \in OpType
  PROVE  FoldLeft(ApplyOp, idx, Append(ops, e)) = ApplyOp(FoldLeft(ApplyOp, idx, ops), e)
<1> DEFINE n == Len(ops)
<1>1. PICK f : IsOpTrace(f, idx, ops) /\ FoldLeft(ApplyOp, idx, ops) = f[n]
  BY OpFold
<1>2. /\ Append(ops, e) \in Seq(OpType) /\ Len(Append(ops, e)) = n + 1 /\ n \in Nat
      /\ \A k \in 1 .. n : Append(ops, e)[k] = ops[k]
      /\ Append(ops, e)[n + 1] = e
  BY AppendFacts
<1>3. PICK g : /\ IsOpTrace(g, idx, Append(ops, e))
               /\ FoldLeft(ApplyOp, idx, Append(ops, e)) = g[n + 1]
  BY <1>2, OpFold
<1> HIDE DEF n
<1> DEFINE W == {k \in 0 .. n : f[k] = g[k]}
<1>4. /\ f[0] = g[0] /\ g[n + 1] = ApplyOp(g[n], e)
      /\ \A k \in 1 .. n : f[k] = ApplyOp(f[k - 1], ops[k]) /\ g[k] = ApplyOp(g[k - 1], ops[k])
  <2>1. /\ f[0] = idx /\ g[0] = idx
        /\ \A k \in 1 .. n : f[k] = ApplyOp(f[k - 1], ops[k])
        /\ \A k \in 1 .. (n + 1) : g[k] = ApplyOp(g[k - 1], Append(ops, e)[k])
    BY <1>1, <1>2, <1>3 DEF IsOpTrace, n
  <2>2. n + 1 \in 1 .. (n + 1) /\ (n + 1) - 1 = n /\ \A k \in 1 .. n : k \in 1 .. (n + 1)
    BY <1>2
  <2> QED
    BY <1>2, <2>1, <2>2
<1>5. 0 \in W /\ \A k \in 1 .. n : k - 1 \in W => k \in W
  BY <1>2, <1>4
<1>6. n \in W
  <2> HIDE DEF W
  <2>1. n \in 0 .. n
    BY <1>2
  <2> QED
    BY <1>2, <1>5, <2>1, PositionInduction
<1> QED
  BY <1>1, <1>3, <1>4, <1>6

LEMMA OpFoldOne ==
  ASSUME NEW idx \in Seq(PathName), NEW e \in OpType
  PROVE  FoldLeft(ApplyOp, idx, <<e>>) = ApplyOp(idx, e)
<1>1. <<e>> \in Seq(OpType) /\ Len(<<e>>) = 1 /\ <<e>>[1] = e
  OBVIOUS
<1>2. PICK f : IsOpTrace(f, idx, <<e>>) /\ FoldLeft(ApplyOp, idx, <<e>>) = f[1]
  BY <1>1, OpFold
<1>3. f[0] = idx /\ f[1] = ApplyOp(f[1 - 1], <<e>>[1])
  BY <1>1, <1>2 DEF IsOpTrace
<1> QED
  BY <1>1, <1>2, <1>3

-----------------------------------------------------------------------------
(***************************************************************************)
(* What the client makes of a Message, for one path                        *)
(***************************************************************************)

ItemAt(c, q) == IF q \in DOMAIN c.items THEN c.items[q] ELSE None

ItemAfter(m, q, x) ==
  CASE m.kind = "items" -> IF q \in DOMAIN m.items THEN m.items[q]
                           ELSE IF q \in m.removed THEN None ELSE x
    [] m.kind = "index" -> x
    [] m.kind = "pong" ->
         IF \E k \in m.keep : PathMatches(k.pat, q) /\ x \in k.filter THEN x ELSE None

IndexAfter(m, q, x) ==
  CASE m.kind = "items" -> x
    [] m.kind = "index" -> IF q \in DOMAIN m.ops THEN FoldLeft(ApplyOp, x, m.ops[q]) ELSE x
    [] m.kind = "pong" -> IF \E k \in m.keep : PathMatches(k.pat, q) THEN x ELSE <<>>

LEMMA ClientFields ==
  ASSUME NEW c \in ClientType
  PROVE  /\ DOMAIN c.items \in SUBSET Path /\ c.items \in [DOMAIN c.items -> Value]
         /\ DOMAIN c.index \in SUBSET Path /\ c.index \in [DOMAIN c.index -> Seq(PathName)]
         /\ \A q : ClientIndex(c, q) \in Seq(PathName) /\ ItemAt(c, q) \in Value \cup {None}
<1>1. c.items \in Partial(Path, Value) /\ c.index \in Partial(Path, Seq(PathName))
  BY DEF ClientType
<1>2. /\ DOMAIN c.items \in SUBSET Path /\ c.items \in [DOMAIN c.items -> Value]
      /\ DOMAIN c.index \in SUBSET Path /\ c.index \in [DOMAIN c.index -> Seq(PathName)]
  BY <1>1, PartialIs
<1> QED
  BY <1>2 DEF ClientIndex, ItemAt

LEMMA ReceiveItems ==
  ASSUME NEW c \in ClientType, NEW m \in ItemsMsg
  PROVE  /\ Receive(c, m) \in ClientType
         /\ \A q : /\ ItemAt(Receive(c, m), q) = ItemAfter(m, q, ItemAt(c, q))
                   /\ ClientIndex(Receive(c, m), q) = IndexAfter(m, q, ClientIndex(c, q))
<1>1. /\ m.kind = "items" /\ m.removed \in SUBSET Path
      /\ DOMAIN m.items \in SUBSET Path /\ m.items \in [DOMAIN m.items -> Value]
  BY PartialIs DEF ItemsMsg, ItemsType
<1>2. /\ DOMAIN c.items \in SUBSET Path /\ c.items \in [DOMAIN c.items -> Value]
      /\ c.index \in Partial(Path, Seq(PathName)) /\ c = [items |-> c.items, index |-> c.index]
  BY ClientFields DEF ClientType
<1>3. PICK f : f = [p \in DOMAIN m.items \cup (DOMAIN c.items \ m.removed) |->
                      IF p \in DOMAIN m.items THEN m.items[p] ELSE c.items[p]]
  OBVIOUS
<1>4. Receive(c, m) = [c EXCEPT !.items = f]
  BY <1>1, <1>3 DEF Receive
<1>5. Receive(c, m).items = f /\ Receive(c, m).index = c.index
      /\ Receive(c, m) = [items |-> f, index |-> c.index]
  BY <1>2, <1>4
<1>6. /\ DOMAIN f = DOMAIN m.items \cup (DOMAIN c.items \ m.removed)
      /\ \A q \in DOMAIN f : f[q] = IF q \in DOMAIN m.items THEN m.items[q] ELSE c.items[q]
  BY <1>3
<1>7. f \in Partial(Path, Value)
  <2>1. DOMAIN f \in SUBSET Path
    BY <1>1, <1>2, <1>6
  <2>2. f \in [DOMAIN f -> Value]
    <3>1. \A q \in DOMAIN f : f[q] \in Value
      BY <1>1, <1>2, <1>6
    <3>2. f = [q \in DOMAIN f |-> f[q]]
      BY <1>3
    <3> QED
      BY <3>1, <3>2
  <2> QED
    BY <2>1, <2>2, PartialIs
<1>8. Receive(c, m) \in ClientType
  BY <1>2, <1>5, <1>7 DEF ClientType
<1>9. ASSUME NEW q
      PROVE  ItemAt(Receive(c, m), q) = ItemAfter(m, q, ItemAt(c, q))
  BY <1>1, <1>5, <1>6 DEF ItemAt, ItemAfter
<1>10. ASSUME NEW q
       PROVE  ClientIndex(Receive(c, m), q) = IndexAfter(m, q, ClientIndex(c, q))
  BY <1>1, <1>5 DEF ClientIndex, IndexAfter
<1> QED
  BY <1>8, <1>9, <1>10

LEMMA ReceiveIndex ==
  ASSUME NEW c \in ClientType, NEW m \in IndexMsg
  PROVE  /\ Receive(c, m) \in ClientType
         /\ \A q : /\ ItemAt(Receive(c, m), q) = ItemAfter(m, q, ItemAt(c, q))
                   /\ ClientIndex(Receive(c, m), q) = IndexAfter(m, q, ClientIndex(c, q))
<1>1. /\ m.kind = "index"
      /\ DOMAIN m.ops \in SUBSET Path /\ m.ops \in [DOMAIN m.ops -> Seq(OpType)]
  BY PartialIs DEF IndexMsg, OpsType
<1>2. /\ DOMAIN c.index \in SUBSET Path /\ c.index \in [DOMAIN c.index -> Seq(PathName)]
      /\ c.items \in Partial(Path, Value) /\ c = [items |-> c.items, index |-> c.index]
  BY ClientFields DEF ClientType
<1> DEFINE new(q) == IF q \in DOMAIN m.ops
                     THEN FoldLeft(ApplyOp, ClientIndex(c, q), m.ops[q])
                     ELSE ClientIndex(c, q)
<1>3. \A q : new(q) \in Seq(PathName) /\ new(q) = IndexAfter(m, q, ClientIndex(c, q))
  <2>1. SUFFICES ASSUME NEW q PROVE new(q) \in Seq(PathName)
    BY <1>1 DEF IndexAfter
  <2>2. ClientIndex(c, q) \in Seq(PathName)
    BY ClientFields
  <2> QED
    BY <1>1, <2>2, OpFoldType
<1>4. PICK f : f = [q \in {p \in DOMAIN c.index \cup DOMAIN m.ops : new(p) # <<>>} |-> new(q)]
  OBVIOUS
<1>5. Receive(c, m) = [c EXCEPT !.index = f]
  BY <1>1, <1>4 DEF Receive
<1>6. Receive(c, m).index = f /\ Receive(c, m).items = c.items
      /\ Receive(c, m) = [items |-> c.items, index |-> f]
  BY <1>2, <1>5
<1>7. /\ DOMAIN f = {p \in DOMAIN c.index \cup DOMAIN m.ops : new(p) # <<>>}
      /\ \A q \in DOMAIN f : f[q] = new(q)
  BY <1>4
<1>8. \A q : q \notin DOMAIN c.index \cup DOMAIN m.ops => new(q) = <<>>
  BY DEF ClientIndex
<1> HIDE DEF new
<1>9. f \in Partial(Path, Seq(PathName))
  <2>1. DOMAIN f \in SUBSET Path
    BY <1>1, <1>2, <1>7
  <2>2. f \in [DOMAIN f -> Seq(PathName)]
    <3>1. \A q \in DOMAIN f : f[q] \in Seq(PathName)
      BY <1>3, <1>7
    <3>2. f = [q \in DOMAIN f |-> f[q]]
      BY <1>4
    <3> QED
      BY <3>1, <3>2
  <2> QED
    BY <2>1, <2>2, PartialIs
<1>10. Receive(c, m) \in ClientType
  BY <1>2, <1>6, <1>9 DEF ClientType
<1>11. ASSUME NEW q
       PROVE  ItemAt(Receive(c, m), q) = ItemAfter(m, q, ItemAt(c, q))
  BY <1>1, <1>6 DEF ItemAt, ItemAfter
<1>12. ASSUME NEW q
       PROVE  ClientIndex(Receive(c, m), q) = IndexAfter(m, q, ClientIndex(c, q))
  <2>1. ClientIndex(Receive(c, m), q) = IF q \in DOMAIN f THEN f[q] ELSE <<>>
    BY <1>6 DEF ClientIndex
  <2> QED
    BY <1>3, <1>7, <1>8, <2>1
<1> QED
  BY <1>10, <1>11, <1>12

LEMMA ReceivePong ==
  ASSUME NEW c \in ClientType, NEW m \in PongMsg
  PROVE  /\ Receive(c, m) \in ClientType
         /\ \A q : /\ ItemAt(Receive(c, m), q) = ItemAfter(m, q, ItemAt(c, q))
                   /\ ClientIndex(Receive(c, m), q) = IndexAfter(m, q, ClientIndex(c, q))
<1>1. m.kind = "pong"
  BY DEF PongMsg
<1>0. \A k \in m.keep : k.filter \in SUBSET Value
  BY FilterAssumption DEF PongMsg
<1>2. /\ DOMAIN c.items \in SUBSET Path /\ c.items \in [DOMAIN c.items -> Value]
      /\ DOMAIN c.index \in SUBSET Path /\ c.index \in [DOMAIN c.index -> Seq(PathName)]
  BY ClientFields
<1>3. PICK f : f = [p \in {q \in DOMAIN c.items : \E k \in m.keep :
                             PathMatches(k.pat, q) /\ c.items[q] \in k.filter} |-> c.items[p]]
  OBVIOUS
<1>4. PICK g : g = [p \in {q \in DOMAIN c.index : \E k \in m.keep :
                             PathMatches(k.pat, q)} |-> c.index[p]]
  OBVIOUS
<1>5. Receive(c, m) = [items |-> f, index |-> g]
  BY <1>1, <1>3, <1>4 DEF Receive
<1>6. /\ Receive(c, m).items = f /\ Receive(c, m).index = g
  BY <1>5
<1>7. f \in Partial(Path, Value)
  <2>1. DOMAIN f \in SUBSET Path /\ f \in [DOMAIN f -> Value]
    BY <1>2, <1>3
  <2> QED
    BY <2>1, PartialIs
<1>8. g \in Partial(Path, Seq(PathName))
  <2>1. DOMAIN g \in SUBSET Path /\ g \in [DOMAIN g -> Seq(PathName)]
    BY <1>2, <1>4
  <2> QED
    BY <2>1, PartialIs
<1>9. Receive(c, m) \in ClientType
  BY <1>5, <1>7, <1>8 DEF ClientType
<1>10. ASSUME NEW q
       PROVE  ItemAt(Receive(c, m), q) = ItemAfter(m, q, ItemAt(c, q))
  <2>1. None \notin Value
    BY DeliveryAssumption
  <2> QED
    BY <1>0, <1>1, <1>3, <1>6, <2>1 DEF ItemAt, ItemAfter
<1>11. ASSUME NEW q
       PROVE  ClientIndex(Receive(c, m), q) = IndexAfter(m, q, ClientIndex(c, q))
  BY <1>1, <1>4, <1>6 DEF ClientIndex, IndexAfter
<1> QED
  BY <1>9, <1>10, <1>11

LEMMA ReceiveFacts ==
  ASSUME NEW c \in ClientType, NEW m \in MsgType
  PROVE  /\ Receive(c, m) \in ClientType
         /\ \A q : /\ ItemAt(Receive(c, m), q) = ItemAfter(m, q, ItemAt(c, q))
                   /\ ClientIndex(Receive(c, m), q) = IndexAfter(m, q, ClientIndex(c, q))
<1>1. CASE m.kind = "items"
  BY <1>1, MsgKinds, ReceiveItems
<1>2. CASE m.kind = "index"
  BY <1>2, MsgKinds, ReceiveIndex
<1>3. CASE m.kind = "pong"
  BY <1>3, MsgKinds, ReceivePong
<1> QED
  BY <1>1, <1>2, <1>3, MsgKinds

IsReadTrace(f, c, queue) ==
  /\ f \in [0 .. Len(queue) -> ClientType]
  /\ f[0] = c
  /\ \A k \in 1 .. Len(queue) : f[k] = Receive(f[k - 1], queue[k])



LEMMA ReadFold ==
  ASSUME NEW c \in ClientType, NEW queue \in Seq(MsgType)
  PROVE  \E f : IsReadTrace(f, c, queue) /\ FoldLeft(Receive, c, queue) = f[Len(queue)]
<1> DEFINE n == Len(queue)
           A == ClientType
           H == CHOOSE g : g = [s \in SUBSET (DOMAIN queue) |->
                  IF s = {} THEN c ELSE Receive(g[s \ {Max(s)}], queue[Max(s)])]
<1>1. n \in Nat /\ DOMAIN queue = 1 .. n /\ \A k \in 1 .. n : queue[k] \in MsgType
  OBVIOUS
<1>2. c \in A
  OBVIOUS
<1>3. PICK step : step = [k \in 1 .. n |-> [x \in A |-> Receive(x, queue[k])]]
  OBVIOUS
<1>4. \A k \in 1 .. n, x \in A : Receive(x, queue[k]) \in A
  BY <1>1, ReceiveFacts
<1>5. FoldLeft(Receive, c, queue) = H[DOMAIN queue]
  BY DEF FoldLeft, MapThenFoldSet
<1> HIDE DEF n, A, H
<1>6. /\ StepsIn(step, n, A)
      /\ \A k \in 1 .. n, x \in A : step[k][x] = Receive(x, queue[k])
  BY <1>3, <1>4 DEF StepsIn
<1>7. PICK it : IsSeqFold(it, n, A, c, step)
  BY <1>1, <1>2, <1>6, SeqFoldExists
<1>8. ASSUME NEW s \in SUBSET (1 .. n), s # {}
      PROVE  it[s] = Receive(it[s \ {Max(s)}], queue[Max(s)])
  <2>1. Max(s) \in 1 .. n /\ s \ {Max(s)} \in SUBSET (1 .. n)
    BY <1>1, <1>8, MaxOfPositions
  <2>2. it[s \ {Max(s)}] \in A /\ it[s] = step[Max(s)][it[s \ {Max(s)}]]
    BY <1>7, <1>8, <2>1 DEF IsSeqFold
  <2> QED
    BY <1>6, <2>1, <2>2
<1>9. it = [s \in SUBSET (1 .. n) |->
              IF s = {} THEN c ELSE Receive(it[s \ {Max(s)}], queue[Max(s)])]
  BY <1>7, <1>8 DEF IsSeqFold
<1>10. H = [s \in SUBSET (1 .. n) |->
              IF s = {} THEN c ELSE Receive(H[s \ {Max(s)}], queue[Max(s)])]
  BY <1>1, <1>9 DEF H
<1>11. Unfolds(H, n, A, c, step)
  <2>1. H[{}] = c
    BY <1>10
  <2>2. \A s \in SUBSET (1 .. n) : s # {} /\ H[s \ {Max(s)}] \in A =>
          H[s] = step[Max(s)][H[s \ {Max(s)}]]
    BY <1>1, <1>6, <1>10, MaxOfPositions
  <2> QED
    BY <2>1, <2>2 DEF Unfolds
<1>12. PICK f : IsTrace(f, n, A, c, step) /\ f[n] = H[1 .. n]
  BY <1>1, <1>2, <1>6, <1>11, SeqTrace
<1>13. f \in [0 .. n -> A] /\ f[0] = c
  BY <1>12 DEF IsTrace
<1>14. ASSUME NEW k \in 1 .. n PROVE f[k] = Receive(f[k - 1], queue[k])
  <2>1. k - 1 \in 0 .. n
    BY <1>1
  <2>2. f[k - 1] \in A /\ f[k] = step[k][f[k - 1]]
    BY <1>12, <1>13, <2>1 DEF IsTrace
  <2> QED
    BY <1>6, <2>2
<1> QED
  BY <1>1, <1>5, <1>12, <1>13, <1>14 DEF IsReadTrace, n, A

LEMMA ReadType ==
  ASSUME NEW c \in ClientType, NEW queue \in Seq(MsgType)
  PROVE  FoldLeft(Receive, c, queue) \in ClientType
<1>1. PICK f : IsReadTrace(f, c, queue) /\ FoldLeft(Receive, c, queue) = f[Len(queue)]
  BY ReadFold
<1>2. Len(queue) \in 0 .. Len(queue)
  OBVIOUS
<1> QED
  BY <1>1, <1>2 DEF IsReadTrace

LEMMA ReadNothing ==
  ASSUME NEW c \in ClientType
  PROVE  FoldLeft(Receive, c, <<>>) = c
<1>1. <<>> \in Seq(MsgType) /\ Len(<<>>) = 0
  OBVIOUS
<1>2. PICK f : IsReadTrace(f, c, <<>>) /\ FoldLeft(Receive, c, <<>>) = f[0]
  BY <1>1, ReadFold
<1> QED
  BY <1>2 DEF IsReadTrace

LEMMA ReadAppend ==
  ASSUME NEW c \in ClientType, NEW queue \in Seq(MsgType), NEW m \in MsgType
  PROVE  FoldLeft(Receive, c, Append(queue, m)) = Receive(FoldLeft(Receive, c, queue), m)
<1> DEFINE n == Len(queue)
<1>1. PICK f : IsReadTrace(f, c, queue) /\ FoldLeft(Receive, c, queue) = f[n]
  BY ReadFold
<1>2. /\ Append(queue, m) \in Seq(MsgType) /\ Len(Append(queue, m)) = n + 1 /\ n \in Nat
      /\ \A k \in 1 .. n : Append(queue, m)[k] = queue[k]
      /\ Append(queue, m)[n + 1] = m
  BY AppendFacts
<1>3. PICK g : /\ IsReadTrace(g, c, Append(queue, m))
               /\ FoldLeft(Receive, c, Append(queue, m)) = g[n + 1]
  BY <1>2, ReadFold
<1> HIDE DEF n
<1> DEFINE W == {k \in 0 .. n : f[k] = g[k]}
<1>4. /\ f[0] = g[0] /\ g[n + 1] = Receive(g[n], m)
      /\ \A k \in 1 .. n : f[k] = Receive(f[k - 1], queue[k]) /\ g[k] = Receive(g[k - 1], queue[k])
  <2>1. /\ f[0] = c /\ g[0] = c
        /\ \A k \in 1 .. n : f[k] = Receive(f[k - 1], queue[k])
        /\ \A k \in 1 .. (n + 1) : g[k] = Receive(g[k - 1], Append(queue, m)[k])
    BY <1>1, <1>2, <1>3 DEF IsReadTrace, n
  <2>2. n + 1 \in 1 .. (n + 1) /\ (n + 1) - 1 = n /\ \A k \in 1 .. n : k \in 1 .. (n + 1)
    BY <1>2
  <2> QED
    BY <1>2, <2>1, <2>2
<1>5. 0 \in W /\ \A k \in 1 .. n : k - 1 \in W => k \in W
  BY <1>2, <1>4
<1>6. n \in W
  <2> HIDE DEF W
  <2>1. n \in 0 .. n
    BY <1>2
  <2> QED
    BY <1>2, <1>5, <2>1, PositionInduction
<1> QED
  BY <1>1, <1>3, <1>4, <1>6

(* Reading the first Message now and the others later                      *)
LEMMA ReadHead ==
  ASSUME NEW c \in ClientType, NEW queue \in Seq(MsgType), queue # <<>>
  PROVE  /\ Head(queue) \in MsgType /\ Tail(queue) \in Seq(MsgType)
         /\ FoldLeft(Receive, Receive(c, Head(queue)), Tail(queue)) = FoldLeft(Receive, c, queue)
<1> DEFINE n == Len(queue)
<1>1. PICK f : IsReadTrace(f, c, queue) /\ FoldLeft(Receive, c, queue) = f[n]
  BY ReadFold
<1>2. /\ Tail(queue) \in Seq(MsgType) /\ Len(Tail(queue)) = n - 1 /\ n \in Nat /\ n # 0
      /\ \A k \in 1 .. n - 1 : Tail(queue)[k] = queue[k + 1]
      /\ Head(queue) = queue[1] /\ Head(queue) \in MsgType
  OBVIOUS
<1>3. Receive(c, Head(queue)) \in ClientType
  BY <1>2, ReceiveFacts
<1>4. PICK c1 : c1 = Receive(c, Head(queue))
  OBVIOUS
<1>5. PICK g : IsReadTrace(g, c1, Tail(queue)) /\ FoldLeft(Receive, c1, Tail(queue)) = g[n - 1]
  BY <1>2, <1>3, <1>4, ReadFold
<1> HIDE DEF n
<1> DEFINE W == {k \in 0 .. n - 1 : f[k + 1] = g[k]}
<1>6. /\ f[0] = c /\ g[0] = c1
      /\ \A k \in 1 .. n : f[k] = Receive(f[k - 1], queue[k])
      /\ \A k \in 1 .. n - 1 : g[k] = Receive(g[k - 1], queue[k + 1])
  BY <1>1, <1>2, <1>5 DEF IsReadTrace, n
<1>7. 0 \in W
  <2>1. 1 \in 1 .. n /\ f[1] = Receive(f[1 - 1], queue[1])
    BY <1>2, <1>6
  <2> QED
    BY <1>2, <1>4, <1>6, <2>1
<1>8. ASSUME NEW k \in 1 .. n - 1, k - 1 \in W PROVE k \in W
  <2>1. k + 1 \in 1 .. n /\ (k + 1) - 1 = k /\ (k - 1) + 1 = k /\ k \in 0 .. n - 1
    BY <1>2
  <2>2. f[k + 1] = Receive(f[k], queue[k + 1]) /\ g[k] = Receive(g[k - 1], queue[k + 1])
    BY <1>6, <2>1
  <2> QED
    BY <1>8, <2>1, <2>2
<1>9. n - 1 \in W
  <2> HIDE DEF W
  <2>1. n - 1 \in 0 .. n - 1 /\ n - 1 \in Nat
    BY <1>2
  <2> QED
    BY <1>7, <1>8, <2>1, PositionInduction
<1>10. f[n] = g[n - 1]
  <2>1. (n - 1) + 1 = n
    BY <1>2
  <2> QED
    BY <1>9, <2>1
<1> QED
  BY <1>1, <1>2, <1>4, <1>5, <1>10

(* The effect of a queue on what a client has of one path: on the index    *)
(* and, when i holds, on the item                                          *)
SameEffect(q, i, m1, m2) ==
  /\ i => \A x : ItemAfter(m1, q, x) = ItemAfter(m2, q, x)
  /\ \A x : IndexAfter(m1, q, x) = IndexAfter(m2, q, x)

NoEffect(q, i, m) ==
  /\ i => \A x : ItemAfter(m, q, x) = x
  /\ \A x : IndexAfter(m, q, x) = x

SameAt(q, i, c1, c2) ==
  /\ i => ItemAt(c1, q) = ItemAt(c2, q)
  /\ ClientIndex(c1, q) = ClientIndex(c2, q)

LEMMA ReceiveSame ==
  ASSUME NEW c1 \in ClientType, NEW c2 \in ClientType, NEW q, NEW i \in BOOLEAN, SameAt(q, i, c1, c2),
         NEW m1 \in MsgType, NEW m2 \in MsgType
  PROVE  /\ SameEffect(q, i, m1, m2) => SameAt(q, i, Receive(c1, m1), Receive(c2, m2))
         /\ NoEffect(q, i, m1) => SameAt(q, i, Receive(c1, m1), c2)
<1>1. /\ ItemAt(Receive(c1, m1), q) = ItemAfter(m1, q, ItemAt(c1, q))
      /\ ClientIndex(Receive(c1, m1), q) = IndexAfter(m1, q, ClientIndex(c1, q))
  BY ReceiveFacts
<1>2. /\ ItemAt(Receive(c2, m2), q) = ItemAfter(m2, q, ItemAt(c2, q))
      /\ ClientIndex(Receive(c2, m2), q) = IndexAfter(m2, q, ClientIndex(c2, q))
  BY ReceiveFacts
<1> QED
  BY <1>1, <1>2 DEF SameAt, SameEffect, NoEffect

LEMMA ReadReplaced ==
  ASSUME NEW c \in ClientType, NEW queue \in Seq(MsgType), NEW q, NEW i \in BOOLEAN,
         NEW at \in 1 .. Len(queue), NEW m \in MsgType, SameEffect(q, i, queue[at], m)
  PROVE  /\ ReplaceAt(queue, at, m) \in Seq(MsgType)
         /\ SameAt(q, i, FoldLeft(Receive, c, queue),
                      FoldLeft(Receive, c, ReplaceAt(queue, at, m)))
<1> DEFINE n == Len(queue)
<1>1. PICK f : IsReadTrace(f, c, queue) /\ FoldLeft(Receive, c, queue) = f[n]
  BY ReadFold
<1>2. PICK qq : qq = ReplaceAt(queue, at, m)
  OBVIOUS
<1>3. /\ qq \in Seq(MsgType) /\ Len(qq) = n /\ n \in Nat
      /\ \A k \in 1 .. n : qq[k] = IF k = at THEN m ELSE queue[k]
      /\ \A k \in 1 .. n : queue[k] \in MsgType
  BY <1>2 DEF ReplaceAt
<1>4. PICK g : IsReadTrace(g, c, qq) /\ FoldLeft(Receive, c, qq) = g[n]
  BY <1>3, ReadFold
<1> HIDE DEF n
<1>5. /\ f[0] = c /\ g[0] = c
      /\ \A k \in 1 .. n : f[k] = Receive(f[k - 1], queue[k])
      /\ \A k \in 1 .. n : g[k] = Receive(g[k - 1], qq[k])
      /\ \A k \in 0 .. n : f[k] \in ClientType /\ g[k] \in ClientType
  BY <1>1, <1>3, <1>4 DEF IsReadTrace, n
<1> DEFINE W == {k \in 0 .. n : SameAt(q, i, f[k], g[k])}
<1>6. 0 \in W
  BY <1>3, <1>5 DEF SameAt
<1>7. ASSUME NEW k \in 1 .. n, k - 1 \in W PROVE k \in W
  <2>1. k - 1 \in 0 .. n /\ k \in 0 .. n
    BY <1>3
  <2>2. SameEffect(q, i, queue[k], qq[k])
    BY <1>3 DEF SameEffect
  <2>3. queue[k] \in MsgType /\ qq[k] \in MsgType
    BY <1>3
  <2>4. SameAt(q, i, Receive(f[k - 1], queue[k]), Receive(g[k - 1], qq[k]))
    BY <1>5, <1>7, <2>1, <2>2, <2>3, ReceiveSame
  <2> QED
    BY <1>5, <2>1, <2>4
<1>8. n \in W
  <2> HIDE DEF W
  <2>1. n \in 0 .. n
    BY <1>3
  <2> QED
    BY <1>3, <1>6, <1>7, <2>1, PositionInduction
<1> QED
  BY <1>1, <1>2, <1>3, <1>4, <1>8

LEMMA ReadRemoved ==
  ASSUME NEW c \in ClientType, NEW queue \in Seq(MsgType), NEW q, NEW i \in BOOLEAN,
         NEW at \in 1 .. Len(queue), NoEffect(q, i, queue[at])
  PROVE  /\ RemoveAt(queue, at) \in Seq(MsgType)
         /\ SameAt(q, i, FoldLeft(Receive, c, queue),
                      FoldLeft(Receive, c, RemoveAt(queue, at)))
<1> DEFINE n == Len(queue)
<1>1. PICK f : IsReadTrace(f, c, queue) /\ FoldLeft(Receive, c, queue) = f[n]
  BY ReadFold
<1>2. PICK qq : qq = RemoveAt(queue, at)
  OBVIOUS
<1>0. at \in DOMAIN queue /\ n \in Nat /\ n # 0
  OBVIOUS
<1>3. /\ qq \in Seq(MsgType) /\ DOMAIN qq = 1 .. n - 1
      /\ \A k \in 1 .. n - 1 : qq[k] = queue[IF k < at THEN k ELSE k + 1]
      /\ \A k \in 1 .. n : queue[k] \in MsgType
  BY <1>0, <1>2, RemoveAtFacts
<1>9. Len(qq) = n - 1
  BY <1>0, <1>3
<1>4. PICK g : IsReadTrace(g, c, qq) /\ FoldLeft(Receive, c, qq) = g[n - 1]
  BY <1>3, <1>9, ReadFold
<1>10. at \in 1 .. n
  OBVIOUS
<1> HIDE DEF n
<1>5. /\ f[0] = c /\ g[0] = c
      /\ \A k \in 1 .. n : f[k] = Receive(f[k - 1], queue[k])
      /\ \A k \in 1 .. n - 1 : g[k] = Receive(g[k - 1], qq[k])
      /\ \A k \in 0 .. n : f[k] \in ClientType
      /\ \A k \in 0 .. n - 1 : g[k] \in ClientType
  BY <1>1, <1>9, <1>4 DEF IsReadTrace, n
<1> DEFINE W == {k \in 0 .. n : SameAt(q, i, f[k], g[IF k < at THEN k ELSE k - 1])}
<1>6. 0 \in W
  <2>1. 0 < at
    BY <1>10
  <2> QED
    BY <1>0, <1>5, <2>1 DEF SameAt
<1>7. ASSUME NEW k \in 1 .. n, k - 1 \in W PROVE k \in W
  <2>1. k - 1 \in 0 .. n /\ k \in 0 .. n /\ queue[k] \in MsgType
    BY <1>0, <1>3
  <2>2. CASE k < at
    <3>1. k \in 1 .. n - 1 /\ k - 1 < at /\ k - 1 \in 0 .. n - 1 /\ qq[k] = queue[k]
      BY <1>0, <1>3, <1>10, <2>2
    <3>2. SameAt(q, i, f[k - 1], g[k - 1]) /\ SameEffect(q, i, queue[k], qq[k])
      BY <1>7, <3>1 DEF SameEffect
    <3>3. SameAt(q, i, Receive(f[k - 1], queue[k]), Receive(g[k - 1], qq[k]))
      BY <1>5, <2>1, <3>1, <3>2, ReceiveSame
    <3> QED
      BY <1>5, <2>1, <2>2, <3>1, <3>3
  <2>3. CASE k = at
    <3>1. k - 1 < at /\ k - 1 \in 0 .. n - 1 /\ ~ (k < at)
      BY <1>0, <1>10, <2>3
    <3>2. SameAt(q, i, f[k - 1], g[k - 1]) /\ NoEffect(q, i, queue[k])
      BY <1>7, <2>3, <3>1
    <3>3. SameAt(q, i, Receive(f[k - 1], queue[k]), g[k - 1])
      BY <1>5, <2>1, <3>1, <3>2, ReceiveSame
    <3> QED
      BY <1>5, <2>1, <3>1, <3>3
  <2>4. CASE k > at
    <3>1. k - 1 \in 1 .. n - 1 /\ ~ (k < at) /\ ~ (k - 1 < at) /\ (k - 1) - 1 \in 0 .. n - 1
          /\ qq[k - 1] = queue[k] /\ k - 1 \in 0 .. n - 1
      <4>1. k - 1 \in 1 .. n - 1 /\ ~ (k < at) /\ ~ (k - 1 < at) /\ (k - 1) - 1 \in 0 .. n - 1
            /\ (k - 1) + 1 = k /\ k - 1 \in 0 .. n - 1
        BY <1>0, <1>10, <2>4
      <4> QED
        BY <1>3, <4>1
    <3>2. SameAt(q, i, f[k - 1], g[(k - 1) - 1]) /\ SameEffect(q, i, queue[k], qq[k - 1])
      BY <1>7, <3>1 DEF SameEffect
    <3>3. SameAt(q, i, Receive(f[k - 1], queue[k]), Receive(g[(k - 1) - 1], qq[k - 1]))
      BY <1>5, <2>1, <3>1, <3>2, ReceiveSame
    <3> QED
      BY <1>5, <2>1, <3>1, <3>3
  <2> QED
    BY <1>10, <2>2, <2>3, <2>4
<1>8. SameAt(q, i, f[n], g[n - 1])
  <2>1. n \in W
    <3> HIDE DEF W
    <3>1. n \in 0 .. n
      BY <1>0
    <3> QED
      BY <1>0, <1>6, <1>7, <3>1, PositionInduction
  <2>2. ~ (n < at)
    BY <1>0, <1>10
  <2> QED
    BY <2>1, <2>2
<1> QED
  BY <1>1, <1>2, <1>3, <1>4, <1>8

-----------------------------------------------------------------------------
(***************************************************************************)
(* What the clients C will have seen once they have read all of D          *)
(***************************************************************************)

PendType == [removed : SUBSET Path, items : ItemsType]

DType == [out : [Session -> Seq(MsgType)], pend : [Session -> PendType],
          ipend : [Session -> OpsType]]

Arrived(C, D, t) == FoldLeft(Receive, C[t], D.out[t])
Seen(C, D, t)    == FoldLeft(Receive, C[t], Push(D).out[t])

XItem(C, D, t, q)  == ItemAt(Seen(C, D, t), q)
XIndex(C, D, t, q) == ClientIndex(Seen(C, D, t), q)

Clients == [Session -> ClientType]

LEMMA EmptyItems == <<>> \in ItemsType /\ NoItems \in PendType /\ <<>> \in OpsType
<1>1. <<>> \in Partial(Path, Value) /\ DOMAIN <<>> = {} /\ <<>> \in Partial(Path, Seq(OpType))
  BY EmptyPartial
<1>2. IsFiniteSet({})
  BY FS_EmptySet
<1>3. <<>> \in ItemsType
  BY <1>1, <1>2 DEF ItemsType
<1> QED
  BY <1>1, <1>3 DEF NoItems, PendType, OpsType

LEMMA DFields ==
  ASSUME NEW D \in DType, NEW t \in Session
  PROVE  /\ D.out \in [Session -> Seq(MsgType)] /\ D.out[t] \in Seq(MsgType)
         /\ D.pend \in [Session -> PendType] /\ D.pend[t] \in PendType
         /\ D.ipend \in [Session -> OpsType] /\ D.ipend[t] \in OpsType
         /\ ItemsMessage(D.pend[t]) \in MsgType /\ IndexMessage(D.ipend[t]) \in MsgType
<1>1. /\ D.out \in [Session -> Seq(MsgType)] /\ D.out[t] \in Seq(MsgType)
      /\ D.pend \in [Session -> PendType] /\ D.pend[t] \in PendType
      /\ D.ipend \in [Session -> OpsType] /\ D.ipend[t] \in OpsType
  BY DEF DType
<1>2. ItemsMessage(D.pend[t]) \in ItemsMsg /\ IndexMessage(D.ipend[t]) \in IndexMsg
  BY <1>1 DEF ItemsMessage, IndexMessage, ItemsMsg, IndexMsg, PendType
<1> QED
  BY <1>1, <1>2 DEF MsgType

LEMMA ConcatFacts ==
  ASSUME NEW T, NEW s \in Seq(T), NEW e \in T
  PROVE  s \o <<>> = s /\ s \o <<e>> = Append(s, e)
  OBVIOUS

LEMMA PushedQueue ==
  ASSUME NEW D \in DType, NEW t \in Session
  PROVE  LET items == ItemsMessage(D.pend[t])
             ops   == IndexMessage(D.ipend[t])
             one   == IF D.pend[t] = NoItems THEN D.out[t] ELSE Append(D.out[t], items)
         IN  /\ one \in Seq(MsgType) /\ Push(D).out[t] \in Seq(MsgType)
             /\ Push(D).out[t] = IF D.ipend[t] = <<>> THEN one ELSE Append(one, ops)
<1> DEFINE items == ItemsMessage(D.pend[t])
           ops   == IndexMessage(D.ipend[t])
           one   == IF D.pend[t] = NoItems THEN D.out[t] ELSE Append(D.out[t], items)
<1>1. D.out[t] \in Seq(MsgType) /\ items \in MsgType /\ ops \in MsgType
  BY DFields
<1>2. Push(D).out[t] = D.out[t] \o (IF D.pend[t] = NoItems THEN <<>> ELSE <<items>>)
                                \o (IF D.ipend[t] = <<>> THEN <<>> ELSE <<ops>>)
  BY DEF Push
<1> HIDE DEF items, ops
<1>3. D.out[t] \o (IF D.pend[t] = NoItems THEN <<>> ELSE <<items>>) = one
  BY <1>1, ConcatFacts
<1>4. one \in Seq(MsgType)
  BY <1>1, AppendFacts
<1> HIDE DEF one
<1>5. Push(D).out[t] = IF D.ipend[t] = <<>> THEN one ELSE Append(one, ops)
  BY <1>1, <1>2, <1>3, <1>4, ConcatFacts
<1>6. Push(D).out[t] \in Seq(MsgType)
  BY <1>1, <1>4, <1>5, AppendFacts
<1> QED
  BY <1>4, <1>5, <1>6 DEF items, ops, one

LEMMA PushFacts ==
  ASSUME NEW D \in DType
  PROVE  /\ Push(D) \in DType
         /\ Push(D).pend = [t \in Session |-> NoItems]
         /\ Push(D).ipend = [t \in Session |-> <<>>]
<1>1. /\ Push(D).pend = [t \in Session |-> NoItems]
      /\ Push(D).ipend = [t \in Session |-> <<>>]
      /\ Push(D) = [out |-> Push(D).out, pend |-> Push(D).pend, ipend |-> Push(D).ipend]
      /\ DOMAIN Push(D).out = Session /\ Push(D).out = [t \in Session |-> Push(D).out[t]]
  BY DEF Push
<1>2. \A t \in Session : Push(D).out[t] \in Seq(MsgType)
  BY PushedQueue
<1>3. Push(D).out \in [Session -> Seq(MsgType)]
  BY <1>1, <1>2
<1>4. Push(D).pend \in [Session -> PendType] /\ Push(D).ipend \in [Session -> OpsType]
  BY <1>1, EmptyItems
<1> QED
  BY <1>1, <1>3, <1>4 DEF DType

LEMMA SeenIs ==
  ASSUME NEW C \in Clients, NEW D \in DType, NEW t \in Session
  PROVE  /\ Seen(C, D, t) \in ClientType /\ Arrived(C, D, t) \in ClientType
         /\ \A q : /\ XItem(C, D, t, q) =
                        ItemAfter(ItemsMessage(D.pend[t]), q, ItemAt(Arrived(C, D, t), q))
                   /\ XIndex(C, D, t, q) =
                        IndexAfter(IndexMessage(D.ipend[t]), q, ClientIndex(Arrived(C, D, t), q))
<1> DEFINE items == ItemsMessage(D.pend[t])
           ops   == IndexMessage(D.ipend[t])
           one   == IF D.pend[t] = NoItems THEN D.out[t] ELSE Append(D.out[t], items)
           c0    == Arrived(C, D, t)
           c1    == FoldLeft(Receive, C[t], one)
<1>1. D.out[t] \in Seq(MsgType) /\ items \in MsgType /\ ops \in MsgType /\ C[t] \in ClientType
  BY DFields DEF Clients
<1>2. one \in Seq(MsgType)
      /\ Push(D).out[t] = IF D.ipend[t] = <<>> THEN one ELSE Append(one, ops)
  BY PushedQueue
<1>3. items.kind = "items" /\ items.items = D.pend[t].items /\ items.removed = D.pend[t].removed
      /\ ops.kind = "index" /\ ops.ops = D.ipend[t]
  BY DEF ItemsMessage, IndexMessage
<1>4. c0 \in ClientType
  BY <1>1, ReadType DEF Arrived
<1>5. c1 = IF D.pend[t] = NoItems THEN c0 ELSE Receive(c0, items)
  <2>1. CASE D.pend[t] = NoItems
    BY <2>1 DEF Arrived
  <2>2. CASE D.pend[t] # NoItems
    <3>1. one = Append(D.out[t], items)
      BY <2>2
    <3> HIDE DEF one, items
    <3> QED
      BY <1>1, <2>2, <3>1, ReadAppend DEF Arrived
  <2> QED
    BY <2>1, <2>2
<1>6. c1 \in ClientType
  <2> HIDE DEF one
  <2> QED
    BY <1>1, <1>2, ReadType
<1>7. Seen(C, D, t) = IF D.ipend[t] = <<>> THEN c1 ELSE Receive(c1, ops)
  <2> HIDE DEF one, ops
  <2>1. CASE D.ipend[t] = <<>>
    BY <1>2, <2>1 DEF Seen
  <2>2. CASE D.ipend[t] # <<>>
    <3>1. Push(D).out[t] = Append(one, ops)
      BY <1>2, <2>2
    <3> QED
      BY <1>1, <1>2, <2>2, <3>1, ReadAppend DEF Seen
  <2> QED
    BY <2>1, <2>2
<1> HIDE DEF c0, c1, one, items, ops
<1>8. \A q : ItemAt(c1, q) = ItemAfter(items, q, ItemAt(c0, q))
             /\ ClientIndex(c1, q) = ClientIndex(c0, q)
  <2>1. CASE D.pend[t] = NoItems
    <3>1. items.items = <<>> /\ items.removed = {} /\ DOMAIN <<>> = {}
      BY <1>3, <2>1 DEF NoItems
    <3> QED
      BY <1>3, <1>5, <2>1, <3>1 DEF ItemAfter
  <2>2. CASE D.pend[t] # NoItems
    <3>1. c1 = Receive(c0, items)
      BY <1>5, <2>2
    <3> QED
      BY <1>1, <1>3, <1>4, <3>1, ReceiveFacts DEF IndexAfter
  <2> QED
    BY <2>1, <2>2
<1>9. \A q : ItemAt(Seen(C, D, t), q) = ItemAt(c1, q)
             /\ ClientIndex(Seen(C, D, t), q) = IndexAfter(ops, q, ClientIndex(c1, q))
  <2>1. CASE D.ipend[t] = <<>>
    <3>1. ops.ops = <<>> /\ DOMAIN <<>> = {}
      BY <1>3, <2>1
    <3> QED
      BY <1>3, <1>7, <2>1, <3>1 DEF IndexAfter
  <2>2. CASE D.ipend[t] # <<>>
    <3>1. Seen(C, D, t) = Receive(c1, ops)
      BY <1>7, <2>2
    <3> QED
      BY <1>1, <1>3, <1>6, <3>1, ReceiveFacts DEF ItemAfter
  <2> QED
    BY <2>1, <2>2
<1>10. Seen(C, D, t) \in ClientType
  BY <1>1, <1>6, <1>7, ReceiveFacts
<1> QED
  BY <1>4, <1>8, <1>9, <1>10 DEF XItem, XIndex, c0, items, ops

(* E shows every client what D shows it.                                   *)
Keeps(C, D, E) ==
  \A u \in Session, q \in Path :
    XItem(C, E, u, q) = XItem(C, D, u, q) /\ XIndex(C, E, u, q) = XIndex(C, D, u, q)

LEMMA PushKeeps ==
  ASSUME NEW C \in Clients, NEW D \in DType
  PROVE  Push(D) \in DType /\ Keeps(C, D, Push(D))
<1>1. /\ Push(D) \in DType
      /\ Push(D).pend = [t \in Session |-> NoItems]
      /\ Push(D).ipend = [t \in Session |-> <<>>]
  BY PushFacts
<1>2. \A t \in Session : Push(Push(D)).out[t] = Push(D).out[t]
  BY <1>1, PushedQueue
<1> QED
  BY <1>1, <1>2 DEF Keeps, XItem, XIndex, Seen

-----------------------------------------------------------------------------
(***************************************************************************)
(* NodeChangedAux: one item of one session becomes known to its client     *)
(***************************************************************************)

IsWith(g, f, p, x) ==
  /\ DOMAIN g = DOMAIN f \cup {p}
  /\ \A q \in DOMAIN f \cup {p} : g[q] = IF q = p THEN x ELSE f[q]

IsWithout(g, f, p) ==
  /\ DOMAIN g = DOMAIN f \ {p}
  /\ \A q \in DOMAIN f \ {p} : g[q] = f[q]

LEMMA WithFacts ==
  ASSUME NEW S, NEW V, NEW f \in Partial(S, V), NEW p \in S, NEW x \in V
  PROVE  With(f, p, x) \in Partial(S, V) /\ IsWith(With(f, p, x), f, p, x)
<1>1. DOMAIN f \in SUBSET S /\ f \in [DOMAIN f -> V]
  BY PartialIs
<1>2. PICK g : g = With(f, p, x)
  OBVIOUS
<1>3. /\ DOMAIN g = DOMAIN f \cup {p}
      /\ \A q \in DOMAIN f \cup {p} : g[q] = IF q = p THEN x ELSE f[q]
      /\ g = [q \in DOMAIN g |-> g[q]]
  BY <1>2 DEF With
<1>4. DOMAIN g \in SUBSET S /\ \A q \in DOMAIN g : g[q] \in V
  BY <1>1, <1>3
<1>5. g \in [DOMAIN g -> V]
  BY <1>3, <1>4
<1>6. g \in Partial(S, V)
  BY <1>4, <1>5, PartialIs
<1> QED
  BY <1>2, <1>3, <1>6 DEF IsWith

LEMMA WithoutFacts ==
  ASSUME NEW S, NEW V, NEW f \in Partial(S, V), NEW p
  PROVE  Without(f, p) \in Partial(S, V) /\ IsWithout(Without(f, p), f, p)
<1>1. DOMAIN f \in SUBSET S /\ f \in [DOMAIN f -> V]
  BY PartialIs
<1>2. PICK g : g = Without(f, p)
  OBVIOUS
<1>3. /\ DOMAIN g = DOMAIN f \ {p}
      /\ \A q \in DOMAIN f \ {p} : g[q] = f[q]
      /\ g = [q \in DOMAIN g |-> g[q]]
  BY <1>2 DEF Without
<1>4. DOMAIN g \in SUBSET S /\ \A q \in DOMAIN g : g[q] \in V
  BY <1>1, <1>3
<1>5. g \in [DOMAIN g -> V]
  BY <1>3, <1>4
<1>6. g \in Partial(S, V)
  BY <1>4, <1>5, PartialIs
<1> QED
  BY <1>2, <1>3, <1>6 DEF IsWithout

LEMMA ItemsWith ==
  ASSUME NEW f \in ItemsType, NEW p \in Path, NEW v \in Value
  PROVE  With(f, p, v) \in ItemsType /\ IsWith(With(f, p, v), f, p, v)
<1>1. f \in Partial(Path, Value) /\ IsFiniteSet(DOMAIN f)
  BY DEF ItemsType
<1>2. With(f, p, v) \in Partial(Path, Value) /\ IsWith(With(f, p, v), f, p, v)
  BY <1>1, WithFacts
<1>3. IsFiniteSet(DOMAIN f \cup {p})
  BY <1>1, FS_AddElement
<1> QED
  BY <1>2, <1>3 DEF ItemsType, IsWith

LEMMA ItemsWithout ==
  ASSUME NEW f \in ItemsType, NEW p
  PROVE  Without(f, p) \in ItemsType /\ IsWithout(Without(f, p), f, p)
<1>1. f \in Partial(Path, Value) /\ IsFiniteSet(DOMAIN f)
  BY DEF ItemsType
<1>2. Without(f, p) \in Partial(Path, Value) /\ IsWithout(Without(f, p), f, p)
  BY <1>1, WithoutFacts
<1>3. IsFiniteSet(DOMAIN f \ {p})
  BY <1>1, FS_RemoveElement
<1> QED
  BY <1>2, <1>3 DEF ItemsType, IsWithout

PendEffect(C, D, E, s, m) ==
  /\ E \in DType /\ E.out = D.out /\ E.ipend = D.ipend
  /\ E.pend = [D.pend EXCEPT ![s] = m]
  /\ \A u \in Session : \A q :
       /\ XIndex(C, E, u, q) = XIndex(C, D, u, q)
       /\ XItem(C, E, u, q) =
            IF u = s THEN ItemAfter(ItemsMessage(m), q, ItemAt(Arrived(C, D, s), q))
            ELSE XItem(C, D, u, q)

(* Only the items that are gathered for session s change.                  *)
LEMMA PendChanges ==
  ASSUME NEW C \in Clients, NEW D \in DType, NEW s \in Session, NEW m \in PendType,
         NEW E, E = [D EXCEPT !.pend[s] = m]
  PROVE  PendEffect(C, D, E, s, m)
<1>1. /\ D.out \in [Session -> Seq(MsgType)] /\ D.pend \in [Session -> PendType]
      /\ D.ipend \in [Session -> OpsType]
      /\ D = [out |-> D.out, pend |-> D.pend, ipend |-> D.ipend]
  BY DEF DType
<1>2. /\ E.out = D.out /\ E.ipend = D.ipend /\ E.pend = [D.pend EXCEPT ![s] = m]
      /\ E = [out |-> E.out, pend |-> E.pend, ipend |-> E.ipend]
  BY <1>1
<1>3. E \in DType
  BY <1>1, <1>2 DEF DType
<1>4. ASSUME NEW u \in Session, NEW q
      PROVE  /\ XIndex(C, E, u, q) = XIndex(C, D, u, q)
             /\ XItem(C, E, u, q) =
                  IF u = s THEN ItemAfter(ItemsMessage(m), q, ItemAt(Arrived(C, D, s), q))
                  ELSE XItem(C, D, u, q)
  <2>1. Arrived(C, E, u) = Arrived(C, D, u)
    BY <1>2 DEF Arrived
  <2>2. E.pend[u] = (IF u = s THEN m ELSE D.pend[u]) /\ E.ipend[u] = D.ipend[u]
    BY <1>1, <1>2
  <2>3. /\ XItem(C, D, u, q) =
             ItemAfter(ItemsMessage(D.pend[u]), q, ItemAt(Arrived(C, D, u), q))
        /\ XIndex(C, D, u, q) =
             IndexAfter(IndexMessage(D.ipend[u]), q, ClientIndex(Arrived(C, D, u), q))
    BY SeenIs
  <2>4. /\ XItem(C, E, u, q) =
             ItemAfter(ItemsMessage(E.pend[u]), q, ItemAt(Arrived(C, E, u), q))
        /\ XIndex(C, E, u, q) =
             IndexAfter(IndexMessage(E.ipend[u]), q, ClientIndex(Arrived(C, E, u), q))
    BY <1>3, SeenIs, Zenon
  <2> QED
    BY <2>1, <2>2, <2>3, <2>4
<1> QED
  BY <1>2, <1>3, <1>4 DEF PendEffect

QueueEffect(C, D, E, s, queue) ==
  /\ E \in DType /\ E.pend = D.pend /\ E.ipend = D.ipend
  /\ E.out = [D.out EXCEPT ![s] = queue]
  /\ Arrived(C, E, s) = FoldLeft(Receive, C[s], queue)
  /\ \A u \in Session \ {s} : \A q :
       /\ XIndex(C, E, u, q) = XIndex(C, D, u, q)
       /\ XItem(C, E, u, q) = XItem(C, D, u, q)
  /\ \A q : ItemAt(Arrived(C, E, s), q) = ItemAt(Arrived(C, D, s), q) =>
              XItem(C, E, s, q) = XItem(C, D, s, q)
  /\ \A q : ClientIndex(Arrived(C, E, s), q) = ClientIndex(Arrived(C, D, s), q) =>
              XIndex(C, E, s, q) = XIndex(C, D, s, q)

(* Only the queue of session s changes.                                    *)
LEMMA QueueChanges ==
  ASSUME NEW C \in Clients, NEW D \in DType, NEW s \in Session, NEW queue \in Seq(MsgType),
         NEW E, E = [D EXCEPT !.out[s] = queue]
  PROVE  QueueEffect(C, D, E, s, queue)
<1>1. /\ D.out \in [Session -> Seq(MsgType)] /\ D.pend \in [Session -> PendType]
      /\ D.ipend \in [Session -> OpsType]
      /\ D = [out |-> D.out, pend |-> D.pend, ipend |-> D.ipend]
  BY DEF DType
<1>2. /\ E.pend = D.pend /\ E.ipend = D.ipend /\ E.out = [D.out EXCEPT ![s] = queue]
      /\ E = [out |-> E.out, pend |-> E.pend, ipend |-> E.ipend]
  BY <1>1
<1>3. E \in DType
  BY <1>1, <1>2 DEF DType
<1>4. Arrived(C, E, s) = FoldLeft(Receive, C[s], queue)
      /\ \A u \in Session : u # s => Arrived(C, E, u) = Arrived(C, D, u)
  BY <1>1, <1>2 DEF Arrived
<1>5. ASSUME NEW u \in Session, NEW q
      PROVE  /\ XItem(C, D, u, q) =
                  ItemAfter(ItemsMessage(D.pend[u]), q, ItemAt(Arrived(C, D, u), q))
             /\ XIndex(C, D, u, q) =
                  IndexAfter(IndexMessage(D.ipend[u]), q, ClientIndex(Arrived(C, D, u), q))
             /\ XItem(C, E, u, q) =
                  ItemAfter(ItemsMessage(D.pend[u]), q, ItemAt(Arrived(C, E, u), q))
             /\ XIndex(C, E, u, q) =
                  IndexAfter(IndexMessage(D.ipend[u]), q, ClientIndex(Arrived(C, E, u), q))
  <2>1. /\ XItem(C, D, u, q) =
             ItemAfter(ItemsMessage(D.pend[u]), q, ItemAt(Arrived(C, D, u), q))
        /\ XIndex(C, D, u, q) =
             IndexAfter(IndexMessage(D.ipend[u]), q, ClientIndex(Arrived(C, D, u), q))
    BY SeenIs
  <2>2. /\ XItem(C, E, u, q) =
             ItemAfter(ItemsMessage(E.pend[u]), q, ItemAt(Arrived(C, E, u), q))
        /\ XIndex(C, E, u, q) =
             IndexAfter(IndexMessage(E.ipend[u]), q, ClientIndex(Arrived(C, E, u), q))
    BY <1>3, SeenIs, Zenon
  <2> QED
    BY <1>2, <2>1, <2>2
<1>6. \A u \in Session \ {s} : \A q :
        /\ XIndex(C, E, u, q) = XIndex(C, D, u, q)
        /\ XItem(C, E, u, q) = XItem(C, D, u, q)
  BY <1>4, <1>5
<1>7. /\ \A q : ItemAt(Arrived(C, E, s), q) = ItemAt(Arrived(C, D, s), q) =>
                  XItem(C, E, s, q) = XItem(C, D, s, q)
      /\ \A q : ClientIndex(Arrived(C, E, s), q) = ClientIndex(Arrived(C, D, s), q) =>
                  XIndex(C, E, s, q) = XIndex(C, D, s, q)
  BY <1>5
<1> QED
  BY <1>2, <1>3, <1>4, <1>6, <1>7 DEF QueueEffect

(* E differs from D at most in what session s has of p.                    *)
AgreeOff(C, D, E, s, p) ==
  \A u \in Session, q \in Path :
    /\ XIndex(C, E, u, q) = XIndex(C, D, u, q)
    /\ u # s \/ q # p => XItem(C, E, u, q) = XItem(C, D, u, q)

ItemBecomes(C, D, E, s, p, x) ==
  \A u \in Session, q \in Path :
    /\ XIndex(C, E, u, q) = XIndex(C, D, u, q)
    /\ XItem(C, E, u, q) = IF u = s /\ q = p THEN x ELSE XItem(C, D, u, q)

LEMMA PutRemoved ==
  ASSUME NEW C \in Clients, NEW D \in DType, NEW s \in Session, NEW p \in Path,
         p \notin DOMAIN D.pend[s].items,
         NEW E, E = [D EXCEPT !.pend[s].removed = @ \cup {p}]
  PROVE  E \in DType /\ ItemBecomes(C, D, E, s, p, None)
         /\ E.pend[s] = [D.pend[s] EXCEPT !.removed = @ \cup {p}]
<1>1. PICK m : m = [D.pend[s] EXCEPT !.removed = @ \cup {p}]
  OBVIOUS
<1>2. D.pend[s] \in PendType /\ D.pend \in [Session -> PendType]
  BY DFields
<1>3. m \in PendType /\ m.removed = D.pend[s].removed \cup {p} /\ m.items = D.pend[s].items
  BY <1>1, <1>2 DEF PendType
<1>4. E = [D EXCEPT !.pend[s] = m]
  BY <1>1, <1>2 DEF DType
<1>10. PendEffect(C, D, E, s, m)
  BY <1>3, <1>4, PendChanges
<1>5. /\ E \in DType /\ E.pend = [D.pend EXCEPT ![s] = m]
      /\ \A u \in Session : \A q :
              /\ XIndex(C, E, u, q) = XIndex(C, D, u, q)
              /\ XItem(C, E, u, q) =
                   IF u = s THEN ItemAfter(ItemsMessage(m), q, ItemAt(Arrived(C, D, s), q))
                   ELSE XItem(C, D, u, q)
  BY <1>10 DEF PendEffect
<1>6. \A q : XItem(C, D, s, q) =
               ItemAfter(ItemsMessage(D.pend[s]), q, ItemAt(Arrived(C, D, s), q))
  BY SeenIs
<1>7. ASSUME NEW q \in Path
      PROVE  XItem(C, E, s, q) = IF q = p THEN None ELSE XItem(C, D, s, q)
  BY <1>3, <1>5, <1>6 DEF ItemAfter, ItemsMessage
<1>8. E.pend[s] = m
  BY <1>2, <1>5
<1> QED
  BY <1>1, <1>5, <1>7, <1>8 DEF ItemBecomes

LEMMA PutItem ==
  ASSUME NEW C \in Clients, NEW D \in DType, NEW s \in Session, NEW p \in Path,
         NEW v \in Value, NEW E, E = [D EXCEPT !.pend[s].items = With(@, p, v)]
  PROVE  E \in DType /\ ItemBecomes(C, D, E, s, p, v)
         /\ E.pend[s] = [D.pend[s] EXCEPT !.items = With(@, p, v)]
<1>1. PICK m : m = [D.pend[s] EXCEPT !.items = With(@, p, v)]
  OBVIOUS
<1>2. D.pend[s] \in PendType /\ D.pend \in [Session -> PendType]
      /\ D.pend[s].items \in ItemsType
  BY DFields DEF PendType
<1>0. PICK f : f = With(D.pend[s].items, p, v)
  OBVIOUS
<1>9. f \in ItemsType /\ DOMAIN f = DOMAIN D.pend[s].items \cup {p}
      /\ \A q \in DOMAIN f : f[q] = IF q = p THEN v ELSE D.pend[s].items[q]
  <2>1. PICK g : g = D.pend[s].items
    OBVIOUS
  <2>2. With(g, p, v) \in ItemsType /\ IsWith(With(g, p, v), g, p, v)
    BY <1>2, <2>1, ItemsWith
  <2> QED
    BY <1>0, <2>1, <2>2 DEF IsWith
<1>3. m \in PendType /\ m.removed = D.pend[s].removed /\ m.items = f
  BY <1>0, <1>1, <1>2, <1>9 DEF PendType
<1>4. E = [D EXCEPT !.pend[s] = m]
  BY <1>1, <1>2 DEF DType
<1>10. PendEffect(C, D, E, s, m)
  BY <1>3, <1>4, PendChanges
<1>5. /\ E \in DType /\ E.pend = [D.pend EXCEPT ![s] = m]
      /\ \A u \in Session : \A q :
              /\ XIndex(C, E, u, q) = XIndex(C, D, u, q)
              /\ XItem(C, E, u, q) =
                   IF u = s THEN ItemAfter(ItemsMessage(m), q, ItemAt(Arrived(C, D, s), q))
                   ELSE XItem(C, D, u, q)
  BY <1>10 DEF PendEffect
<1>6. \A q : XItem(C, D, s, q) =
               ItemAfter(ItemsMessage(D.pend[s]), q, ItemAt(Arrived(C, D, s), q))
  BY SeenIs
<1>7. ASSUME NEW q \in Path
      PROVE  XItem(C, E, s, q) = IF q = p THEN v ELSE XItem(C, D, s, q)
  BY <1>3, <1>5, <1>6, <1>9 DEF ItemAfter, ItemsMessage
<1>8. E.pend[s] = m
  BY <1>2, <1>5
<1> QED
  BY <1>1, <1>5, <1>7, <1>8 DEF ItemBecomes

Prunes(m, pr, p) ==
  /\ pr \in MsgType
  /\ \A q : SameEffect(q, q # p, m, pr)
  /\ NumNames(pr) = 0 => \A q : NoEffect(q, q # p, m)

SameOff(p, c1, c2) == \A q : SameAt(q, q # p, c1, c2)

(* A DATAITEMS Message without its item of p                               *)
LEMMA PrunedMessage ==
  ASSUME NEW m \in ItemsMsg, NEW p, NEW pr, pr = [m EXCEPT !.items = Without(@, p)]
  PROVE  Prunes(m, pr, p)
<1>1. m.kind = "items" /\ m.removed \in SUBSET Path /\ m.items \in ItemsType
      /\ m = [kind |-> m.kind, removed |-> m.removed, items |-> m.items]
  BY DEF ItemsMsg
<1>2. PICK f : f = Without(m.items, p)
  OBVIOUS
<1>3. f \in ItemsType /\ IsWithout(f, m.items, p)
  BY <1>1, <1>2, ItemsWithout
<1>4. pr.kind = "items" /\ pr.removed = m.removed /\ pr.items = f /\ pr \in ItemsMsg
  BY <1>1, <1>2, <1>3 DEF ItemsMsg
<1>5. \A q : SameEffect(q, q # p, m, pr)
  BY <1>1, <1>3, <1>4 DEF IsWithout, SameEffect, ItemAfter, IndexAfter
<1>7. ASSUME NumNames(pr) = 0 PROVE \A q : NoEffect(q, q # p, m)
  <2>1. IsFiniteSet(DOMAIN f)
    BY <1>3 DEF ItemsType
  <2>2. Cardinality(DOMAIN f) \in Nat
    BY <2>1, FS_CardinalityType
  <2>3. Cardinality(DOMAIN f) = 0 /\ m.removed = {}
    BY <1>4, <1>7, <2>2 DEF NumNames
  <2>4. DOMAIN m.items \ {p} = {}
    BY <1>3, <2>1, <2>3, FS_EmptySet DEF IsWithout
  <2> QED
    BY <1>1, <2>3, <2>4 DEF NoEffect, ItemAfter, IndexAfter
<1> QED
  BY <1>4, <1>5, <1>7 DEF MsgType, Prunes

(* A queue, and the same queue with an item of p pruned from it            *)
LEMMA PrunedQueue ==
  ASSUME NEW c \in ClientType, NEW queue \in Seq(MsgType), NEW p,
         NEW at \in 1 .. Len(queue), queue[at].kind = "items",
         NEW pr, pr = [queue[at] EXCEPT !.items = Without(@, p)],
         NEW new, new = IF NumNames(pr) = 0 THEN RemoveAt(queue, at)
                        ELSE ReplaceAt(queue, at, pr)
  PROVE  /\ new \in Seq(MsgType)
         /\ SameOff(p, FoldLeft(Receive, c, queue), FoldLeft(Receive, c, new))
<1>1. queue[at] \in ItemsMsg
  BY MsgKinds
<1>2. PICK m : m = queue[at]
  OBVIOUS
<1>3. /\ pr \in MsgType
      /\ \A q : SameEffect(q, q # p, m, pr)
      /\ NumNames(pr) = 0 => \A q : NoEffect(q, q # p, m)
  <2>1. Prunes(m, pr, p)
    BY <1>1, <1>2, PrunedMessage
  <2> QED
    BY <2>1 DEF Prunes
<1>4. \A q : (q # p) \in BOOLEAN
  OBVIOUS
<1>5. ASSUME NEW q
      PROVE  /\ new \in Seq(MsgType)
             /\ SameAt(q, q # p, FoldLeft(Receive, c, queue), FoldLeft(Receive, c, new))
  <2>1. CASE NumNames(pr) = 0
    <3>1. NoEffect(q, q # p, queue[at]) /\ new = RemoveAt(queue, at)
      BY <1>2, <1>3, <2>1
    <3> QED
      BY <1>4, <3>1, ReadRemoved
  <2>2. CASE NumNames(pr) # 0
    <3>1. SameEffect(q, q # p, queue[at], pr) /\ new = ReplaceAt(queue, at, pr)
      BY <1>2, <1>3, <2>2
    <3> QED
      BY <1>3, <1>4, <3>1, ReadReplaced
  <2> QED
    BY <2>1, <2>2
<1> QED
  BY <1>5 DEF SameOff

(* PruneSubscriptionMessage touches nothing but what session s has of p.   *)
LEMMA PruneAgrees ==
  ASSUME NEW C \in Clients, NEW D \in DType, NEW s \in Session, NEW p \in Path
  PROVE  /\ PruneSubscriptionMessage(D, s, p) \in DType
         /\ AgreeOff(C, D, PruneSubscriptionMessage(D, s, p), s, p)
<1> DEFINE queue == D.out[s]
           places == {i \in 1 .. Len(queue) :
                        queue[i].kind = "items" /\ p \in DOMAIN queue[i].items}
           at == IF places # {} THEN Max(places) ELSE 0
           pr == [queue[at] EXCEPT !.items = Without(@, p)]
           new == IF NumNames(pr) = 0 THEN RemoveAt(queue, at) ELSE ReplaceAt(queue, at, pr)
<1>1. PICK E : E = PruneSubscriptionMessage(D, s, p)
  OBVIOUS
<1>2. /\ queue \in Seq(MsgType) /\ C[s] \in ClientType
      /\ D.pend[s] \in PendType /\ D.pend \in [Session -> PendType]
      /\ D.out \in [Session -> Seq(MsgType)]
      /\ D.pend[s].items \in ItemsType
  BY DFields DEF Clients, PendType
<1>3. CASE p \in DOMAIN D.pend[s].items
  <2>1. E = [D EXCEPT !.pend[s].items = Without(@, p)]
    BY <1>1, <1>3 DEF PruneSubscriptionMessage
  <2>2. PICK f : f = Without(D.pend[s].items, p)
    OBVIOUS
  <2>3. f \in ItemsType /\ IsWithout(f, D.pend[s].items, p)
    BY <1>2, <2>2, ItemsWithout
  <2>4. PICK m : m = [D.pend[s] EXCEPT !.items = f]
    OBVIOUS
  <2>5. m \in PendType /\ m.items = f /\ m.removed = D.pend[s].removed
    BY <1>2, <2>3, <2>4 DEF PendType
  <2>6. E = [D EXCEPT !.pend[s] = m]
    BY <1>2, <2>1, <2>2, <2>4 DEF DType
  <2>7. PendEffect(C, D, E, s, m)
    BY <2>5, <2>6, PendChanges
  <2>8. \A q : XItem(C, D, s, q) =
                 ItemAfter(ItemsMessage(D.pend[s]), q, ItemAt(Arrived(C, D, s), q))
    BY SeenIs
  <2>9. ASSUME NEW q \in Path, q # p PROVE XItem(C, E, s, q) = XItem(C, D, s, q)
    BY <2>3, <2>5, <2>7, <2>8, <2>9 DEF PendEffect, ItemAfter, ItemsMessage, IsWithout
  <2> QED
    BY <1>1, <2>7, <2>9 DEF PendEffect, AgreeOff
<1>4. CASE p \notin DOMAIN D.pend[s].items /\ at = 0
  <2>1. E = D
    BY <1>1, <1>4, Zenon DEF PruneSubscriptionMessage, SelectLastInSeq
  <2> QED
    BY <1>1, <2>1 DEF AgreeOff
<1>5. CASE p \notin DOMAIN D.pend[s].items /\ at # 0
  <2>1. E = [D EXCEPT !.out[s] = new]
    BY <1>1, <1>2, <1>5, ZenonT(30) DEF PruneSubscriptionMessage, SelectLastInSeq, DType
  <2>2. at \in 1 .. Len(queue) /\ queue[at].kind = "items"
    <3>1. places # {} /\ places \in SUBSET (1 .. Len(queue)) /\ Len(queue) \in Nat
      BY <1>2, <1>5
    <3>2. Max(places) \in places
      BY <3>1, MaxOfPositions
    <3> QED
      BY <3>1, <3>2
  <2> HIDE DEF at
  <2>3. PICK nw : nw = new
    OBVIOUS
  <2>4. /\ nw \in Seq(MsgType)
        /\ SameOff(p, FoldLeft(Receive, C[s], queue), FoldLeft(Receive, C[s], nw))
    BY <1>2, <2>2, <2>3, PrunedQueue
  <2>5. E = [D EXCEPT !.out[s] = nw]
    BY <2>1, <2>3
  <2>6. QueueEffect(C, D, E, s, nw)
    BY <2>4, <2>5, QueueChanges
  <2>7. \A q : SameAt(q, q # p, Arrived(C, D, s), Arrived(C, E, s))
    BY <2>4, <2>6 DEF QueueEffect, Arrived, SameOff
  <2> QED
    BY <1>1, <2>6, <2>7 DEF QueueEffect, SameAt, AgreeOff
<1> QED
  BY <1>3, <1>4, <1>5

LEMMA NodeChangedAuxEffect ==
  ASSUME NEW C \in Clients, NEW D \in DType, NEW s \in Session, NEW p \in Path,
         NEW v \in Value, NEW removed \in BOOLEAN, NEW supercede \in BOOLEAN,
         NEW E, E = NodeChangedAux(D, s, p, v, removed, supercede)
  PROVE  E \in DType /\ ItemBecomes(C, D, E, s, p, IF removed THEN None ELSE v)
<1>1. PICK D0 : D0 = IF removed /\ p \in DOMAIN D.pend[s].items THEN Push(D) ELSE D
  OBVIOUS
<1>2. PICK D1 : D1 = IF ~removed /\ supercede THEN PruneSubscriptionMessage(D0, s, p) ELSE D0
  OBVIOUS
<1>3. PICK D2 : D2 = IF removed THEN [D1 EXCEPT !.pend[s].removed = @ \cup {p}]
                     ELSE [D1 EXCEPT !.pend[s].items = With(@, p, v)]
  OBVIOUS
<1>4. E = IF NumNames(D2.pend[s]) >= MaxItems THEN Push(D2) ELSE D2
  BY <1>1, <1>2, <1>3 DEF NodeChangedAux
<1>5. D0 \in DType /\ Keeps(C, D, D0)
  BY <1>1, PushKeeps DEF Keeps
<1>6. D1 \in DType /\ AgreeOff(C, D0, D1, s, p)
  BY <1>2, <1>5, PruneAgrees DEF AgreeOff
<1>7. D2 \in DType /\ ItemBecomes(C, D1, D2, s, p, IF removed THEN None ELSE v)
  <2>1. CASE removed
    <3>1. D1 = D0 /\ p \notin DOMAIN D1.pend[s].items
      <4>1. CASE p \in DOMAIN D.pend[s].items
        <5>1. D1 = Push(D) /\ D0 = D1
          BY <1>1, <1>2, <2>1, <4>1
        <5>2. D1.pend[s] = NoItems
          BY <5>1, PushFacts
        <5>3. DOMAIN NoItems.items = {}
          BY DEF NoItems
        <5> QED
          BY <5>1, <5>2, <5>3
      <4>2. CASE p \notin DOMAIN D.pend[s].items
        BY <1>1, <1>2, <2>1, <4>2
      <4> QED
        BY <4>1, <4>2
    <3>2. D2 = [D1 EXCEPT !.pend[s].removed = @ \cup {p}]
      BY <1>3, <2>1
    <3> QED
      BY <1>6, <2>1, <3>1, <3>2, PutRemoved
  <2>2. CASE ~removed
    <3>1. D2 = [D1 EXCEPT !.pend[s].items = With(@, p, v)]
      BY <1>3, <2>2
    <3> QED
      BY <1>6, <2>2, <3>1, PutItem
  <2> QED
    BY <2>1, <2>2
<1>8. E \in DType /\ Keeps(C, D2, E)
  BY <1>4, <1>7, PushKeeps DEF Keeps
<1> QED
  BY <1>5, <1>6, <1>7, <1>8 DEF Keeps, AgreeOff, ItemBecomes

-----------------------------------------------------------------------------
(***************************************************************************)
(* NotifySubscribersThatNodeChanged                                        *)
(***************************************************************************)

NodeEvent == [kind : {"node"}, path : Path, old : Value \cup {None}, new : Value,
              removed : BOOLEAN, supercede : BOOLEAN]

NotifyOne(t, E, e) ==
  IF Ignores(t, e) THEN E
  ELSE NodeChangedAux(E, t, e.path, e.new, BecomesRemoved(t, e), e.supercede)

(* The item of the event's path that session t ends up with                *)
ItemAfterEvent(t, e) == IF BecomesRemoved(t, e) THEN None ELSE e.new

Picks(pick, S) == \A s \in (SUBSET S) \ {{}} : pick[s] \in s

IsNotifyTrace(h, pick, D, S, e) ==
  /\ Picks(pick, S)
  /\ h \in [SUBSET S -> DType]
  /\ h[{}] = D
  /\ \A s \in SUBSET S : s # {} => h[s] = NotifyOne(pick[s], h[s \ {pick[s]}], e)

LEMMA NotifyOneType ==
  ASSUME NEW C \in Clients, NEW D \in DType, NEW t \in Session, NEW e \in NodeEvent
  PROVE  /\ NotifyOne(t, D, e) \in DType
         /\ ~Ignores(t, e) => ItemBecomes(C, D, NotifyOne(t, D, e), t, e.path, ItemAfterEvent(t, e))
         /\ Ignores(t, e) => NotifyOne(t, D, e) = D
<1>1. /\ e.path \in Path /\ e.new \in Value /\ e.supercede \in BOOLEAN
      /\ e.removed \in BOOLEAN
  BY DEF NodeEvent
<1>2. BecomesRemoved(t, e) \in BOOLEAN
  BY <1>1 DEF BecomesRemoved
<1>3. CASE Ignores(t, e)
  BY <1>3 DEF NotifyOne
<1>4. CASE ~Ignores(t, e)
  <2>1. PICK E : E = NodeChangedAux(D, t, e.path, e.new, BecomesRemoved(t, e), e.supercede)
    OBVIOUS
  <2>2. E \in DType
        /\ ItemBecomes(C, D, E, t, e.path, IF BecomesRemoved(t, e) THEN None ELSE e.new)
    BY <1>1, <1>2, <2>1, NodeChangedAuxEffect
  <2> QED
    BY <1>4, <2>1, <2>2 DEF NotifyOne, ItemAfterEvent
<1> QED
  BY <1>3, <1>4

LEMMA SomeClients == \E C : C \in Clients
<1>1. NoClient \in ClientType
  BY EmptyPartial DEF NoClient, ClientType
<1>2. [s \in Session |-> NoClient] \in Clients
  BY <1>1 DEF Clients
<1> QED
  BY <1>2

LEMMA NotifyFold ==
  ASSUME NEW D \in DType, NEW S \in SUBSET Session, IsFiniteSet(S), NEW e \in NodeEvent
  PROVE  \E h, pick : IsNotifyTrace(h, pick, D, S, e) /\ FoldSet(LAMBDA t, E : NotifyOne(t, E, e), D, S) = h[S]
<1> DEFINE A == DType
           any(s) == CHOOSE x \in s : TRUE
           H == CHOOSE g : g = [s \in SUBSET S |->
                  IF s = {} THEN D ELSE NotifyOne(any(s), g[s \ {any(s)}], e)]
<1>1. IsFiniteSet(S)
  OBVIOUS
<1>2. D \in A
  OBVIOUS
<1>3. PICK step : step = [k \in S |-> [x \in A |-> NotifyOne(k, x, e)]]
  OBVIOUS
<1>4. \A k \in S, x \in A : NotifyOne(k, x, e) \in A
  BY SomeClients, NotifyOneType
<1>5. FoldSet(LAMBDA t, E : NotifyOne(t, E, e), D, S) = H[S]
  BY DEF FoldSet, MapThenFoldSet
<1>6. PICK pick : pick = [s \in (SUBSET S) \ {{}} |-> any(s)]
  OBVIOUS
<1>7. /\ \A s \in (SUBSET S) \ {{}} : pick[s] \in s
      /\ \A s \in SUBSET S : s # {} => any(s) = pick[s]
  BY <1>6
<1> HIDE DEF A, H, any
<1>8. \A k \in S, x \in A : step[k][x] = NotifyOne(k, x, e) /\ step[k][x] \in A
  BY <1>3, <1>4
<1>9. PICK it : IsFold(it, S, A, D, pick, step)
  BY <1>1, <1>2, <1>7, <1>8, FoldExists
<1>10. it \in [SUBSET S -> A] /\ it[{}] = D
  BY <1>9 DEF IsFold
<1>11. ASSUME NEW s \in SUBSET S, s # {}
      PROVE  it[s] = NotifyOne(pick[s], it[s \ {pick[s]}], e)
  <2>1. pick[s] \in S /\ s \ {pick[s]} \in SUBSET S
    BY <1>7, <1>11
  <2>2. it[s \ {pick[s]}] \in A /\ it[s] = step[pick[s]][it[s \ {pick[s]}]]
    BY <1>9, <1>10, <1>11, <2>1 DEF IsFold
  <2> QED
    BY <1>8, <2>1, <2>2
<1>12. it = [s \in SUBSET S |->
              IF s = {} THEN D ELSE NotifyOne(any(s), it[s \ {any(s)}], e)]
  BY <1>7, <1>10, <1>11
<1>13. H = [s \in SUBSET S |->
              IF s = {} THEN D ELSE NotifyOne(any(s), H[s \ {any(s)}], e)]
  BY <1>12 DEF H
<1> DEFINE W == {s \in SUBSET S : H[s] = it[s]}
<1>14. {} \in W
  BY <1>10, <1>13
<1>15. ASSUME NEW s \in SUBSET S, s # {}, s \ {pick[s]} \in W PROVE s \in W
  <2>1. any(s) = pick[s]
    BY <1>7, <1>15
  <2>2. H[s] = NotifyOne(pick[s], H[s \ {pick[s]}], e)
    BY <1>13, <1>15, <2>1
  <2> QED
    BY <1>11, <1>15, <2>2
<1>16. S \in W
  <2> HIDE DEF W
  <2>1. \A s \in SUBSET S : s \in W
    BY <1>1, <1>7, <1>14, <1>15, SubsetInduction
  <2> QED
    BY <2>1
<1>17. \A s \in SUBSET S : s # {} => it[s] = NotifyOne(pick[s], it[s \ {pick[s]}], e)
  BY <1>11
<1>18. IsNotifyTrace(it, pick, D, S, e)
  BY <1>7, <1>10, <1>17 DEF IsNotifyTrace, Picks, A
<1> QED
  BY <1>5, <1>16, <1>18, Zenon

ChangedEffect(C, D, E, S, e) ==
  \A u \in Session, q \in Path :
    /\ XIndex(C, E, u, q) = XIndex(C, D, u, q)
    /\ XItem(C, E, u, q) = IF u \in S /\ q = e.path /\ ~Ignores(u, e)
                           THEN ItemAfterEvent(u, e) ELSE XItem(C, D, u, q)

LEMMA NotifySet ==
  ASSUME NEW C \in Clients, NEW D \in DType, NEW S \in SUBSET Session, IsFiniteSet(S),
         NEW e \in NodeEvent, NEW h, NEW pick, IsNotifyTrace(h, pick, D, S, e)
  PROVE  h[S] \in DType /\ ChangedEffect(C, D, h[S], S, e)
<1>2. /\ \A s \in (SUBSET S) \ {{}} : pick[s] \in s
      /\ \A s \in SUBSET S : h[s] \in DType
      /\ h[{}] = D
      /\ \A s \in SUBSET S : s # {} => h[s] = NotifyOne(pick[s], h[s \ {pick[s]}], e)
  BY DEF IsNotifyTrace, Picks
<1>6. \A s \in (SUBSET S) \ {{}} : pick[s] \in s
  BY <1>2
<1> DEFINE W == {s \in SUBSET S : ChangedEffect(C, D, h[s], s, e)}
<1>3. {} \in W
  BY <1>2 DEF ChangedEffect
<1>4. ASSUME NEW s \in SUBSET S, s # {}, s \ {pick[s]} \in W PROVE s \in W
  <2>1. PICK t : t = pick[s]
    OBVIOUS
  <2>2. PICK F : F = h[s \ {t}]
    OBVIOUS
  <2>3. t \in s /\ t \in Session /\ F \in DType /\ ChangedEffect(C, D, F, s \ {t}, e)
    BY <1>2, <1>4, <2>1, <2>2
  <2>4. h[s] = NotifyOne(t, F, e)
    BY <1>2, <1>4, <2>1, <2>2
  <2>5. /\ ~Ignores(t, e) => ItemBecomes(C, F, h[s], t, e.path, ItemAfterEvent(t, e))
        /\ Ignores(t, e) => h[s] = F
    BY <2>3, <2>4, NotifyOneType
  <2>6. ChangedEffect(C, D, h[s], s, e)
    <3>1. CASE Ignores(t, e)
      BY <2>3, <2>5, <3>1 DEF ChangedEffect
    <3>2. CASE ~Ignores(t, e)
      BY <2>3, <2>5, <3>2 DEF ChangedEffect, ItemBecomes
    <3> QED
      BY <3>1, <3>2
  <2> QED
    BY <2>6
<1>5. S \in W
  <2> HIDE DEF W
  <2>1. \A s \in SUBSET S : s \in W
    <3>1. \A s \in SUBSET S : s # {} /\ s \ {pick[s]} \in W => s \in W
      BY <1>4
    <3> QED
      BY <1>6, <1>3, <3>1, SubsetInduction
  <2> QED
    BY <2>1
<1> QED
  BY <1>2, <1>5

LEMMA NotifyChangedEffect ==
  ASSUME NEW C \in Clients, NEW D \in DType, NEW s, NEW e \in NodeEvent,
         NEW S \in SUBSET Session, IsFiniteSet(S),
         S = Subscribers(e.path) \ ({s} \ ReflectToSelf)
  PROVE  /\ NotifyChanged(D, s, e) \in DType
         /\ ChangedEffect(C, D, NotifyChanged(D, s, e), S, e)
<1>1. PICK h, pick : /\ IsNotifyTrace(h, pick, D, S, e)
                     /\ FoldSet(LAMBDA t, F : NotifyOne(t, F, e), D, S) = h[S]
  BY NotifyFold, Zenon
<1>2. NotifyChanged(D, s, e) = h[S]
  BY <1>1, Zenon DEF NotifyChanged, NotifyOne
<1> QED
  BY <1>1, <1>2, NotifySet, Zenon

(* What a session u makes of a payload v of node q                         *)
Visible(u, q, v) == IF v # None /\ MatchesNode(u, q, v) THEN v ELSE None

(* What holds of the database while notifications are made                 *)
BaseInv == TreeTypeOK /\ MarksMatchSubscriptions /\ IsFiniteSet(sessions)

Matched(u, q) == MatchingSubs(subs[u], q) # {}

LEMMA SubscribersAre ==
  ASSUME BaseInv, NEW p
  PROVE  Subscribers(p) = {t \in sessions : Matched(t, p)}
<1>1. \A t \in sessions : t \in Session /\ subs[t] \in SUBSET Pattern
  BY DEF BaseInv, TreeTypeOK
<1>2. ASSUME NEW t \in sessions
      PROVE  (IF p \in nodes THEN marks[p] ELSE NewMarks(p))[t] = GetMatchCount(subs[t], p)
  <2>1. CASE p \in nodes
    BY <1>1, <2>1 DEF BaseInv, MarksMatchSubscriptions
  <2>2. CASE p \notin nodes
    BY <1>1, <2>2, NewMarksCorrect DEF BaseInv
  <2> QED
    BY <2>1, <2>2
<1>3. ASSUME NEW t \in sessions
      PROVE  GetMatchCount(subs[t], p) > 0 <=> Matched(t, p)
  <2>1. GetMatchCount(subs[t], p) \in Nat
    BY <1>1, MatchCountBound
  <2>2. MatchingSubs(subs[t], p) = {} <=> GetMatchCount(subs[t], p) = 0
    BY <1>1, MatchCountZero
  <2> QED
    BY <2>1, <2>2 DEF Matched
<1> QED
  BY <1>2, <1>3 DEF Subscribers

LEMMA FilterTypes ==
  ASSUME TreeTypeOK, NEW u \in Session
  PROVE  /\ subs[u] \in SUBSET Pattern
         /\ \A pat \in Pattern : filters[u][pat] \in Filter /\ filters[u][pat] \in SUBSET Value
  BY FilterAssumption DEF TreeTypeOK

LEMMA VisibleFacts ==
  ASSUME TreeTypeOK, NEW u \in Session, NEW q
  PROVE  /\ \A v : ~Matched(u, q) => Visible(u, q, v) = None
         /\ \A v : Visible(u, q, v) \in {v, None}
         /\ \A v \in Value \cup {None} : Matched(u, q) /\ ~HasFilters(u) =>
              MatchesNode(u, q, v) /\ Visible(u, q, v) = v
<1>1. \A pat \in MatchingSubs(subs[u], q) : pat \in subs[u] /\ pat \in Pattern
  BY FilterTypes DEF MatchingSubs
<1>2. ASSUME NEW v \in Value \cup {None}, Matched(u, q), ~HasFilters(u)
      PROVE  MatchesNode(u, q, v) /\ Visible(u, q, v) = v
  <2>1. PICK pat \in MatchingSubs(subs[u], q) : TRUE
    BY <1>2 DEF Matched
  <2>2. filters[u][pat] = Value
    BY <1>1, <1>2, <2>1, FilterAssumption DEF HasFilters
  <2> QED
    BY <2>1, <2>2 DEF MatchesNode, Visible
<1>3. \A v : ~Matched(u, q) => Visible(u, q, v) = None
  BY DEF Matched, Visible, MatchesNode
<1>4. \A v : Visible(u, q, v) \in {v, None}
  BY DEF Visible
<1> QED
  BY <1>2, <1>3, <1>4

(* NodeChanged() makes the right thing of an event for a subscriber.       *)
LEMMA EventVisible ==
  ASSUME TreeTypeOK, NEW u \in Session, NEW e \in NodeEvent, Matched(u, e.path),
         NEW new, new = IF e.removed THEN None ELSE e.new
  PROVE  /\ ~Ignores(u, e) => ItemAfterEvent(u, e) = Visible(u, e.path, new)
         /\ Ignores(u, e) => Visible(u, e.path, e.old) = Visible(u, e.path, new)
<1>1. e.new \in Value /\ e.old \in Value \cup {None} /\ e.removed \in BOOLEAN /\ None \notin Value
  BY DeliveryAssumption DEF NodeEvent
<1>2. CASE ~HasFilters(u)
  <2>1. ~Ignores(u, e) /\ Visible(u, e.path, new) = new
    BY <1>1, <1>2, VisibleFacts DEF Ignores
  <2>2. ItemAfterEvent(u, e) = new
    BY <1>2 DEF ItemAfterEvent, BecomesRemoved
  <2> QED
    BY <2>1, <2>2
<1>3. CASE HasFilters(u)
  <2>1. CASE e.removed
    BY <1>1, <1>3, <2>1 DEF Ignores, BecomesRemoved, ItemAfterEvent, Visible
  <2>2. CASE ~e.removed /\ e.old # None /\ ~MatchesNode(u, e.path, e.new)
    BY <1>1, <1>3, <2>2 DEF Ignores, BecomesRemoved, ItemAfterEvent, Visible
  <2>3. CASE ~e.removed /\ ~ (e.old # None /\ ~MatchesNode(u, e.path, e.new))
    BY <1>1, <1>3, <2>3 DEF Ignores, BecomesRemoved, ItemAfterEvent, Visible
  <2> QED
    BY <1>1, <2>1, <2>2, <2>3
<1> QED
  BY <1>2, <1>3

-----------------------------------------------------------------------------
(***************************************************************************)
(* NotifySubscribersThatNodeIndexChanged                                   *)
(***************************************************************************)

IndexEvent ==
  [kind : {"index"}, op : {"i", "r"}, path : Path, at : Nat \ {0}, name : PathName]

IndexEffect(C, D, E, e) ==
  \A u \in Session, q \in Path :
    /\ XItem(C, E, u, q) = XItem(C, D, u, q)
    /\ XIndex(C, E, u, q) = IF u \in Subscribers(e.path) /\ q = e.path
                            THEN ApplyOp(XIndex(C, D, u, q), e) ELSE XIndex(C, D, u, q)

LEMMA NotifyIndexEffect ==
  ASSUME NEW C \in Clients, NEW D \in DType, NEW e \in IndexEvent
  PROVE  /\ NotifyIndexChanged(D, e) \in DType
         /\ IndexEffect(C, D, NotifyIndexChanged(D, e), e)
<1>1. PICK E : E = NotifyIndexChanged(D, e)
  OBVIOUS
<1>2. /\ D.out \in [Session -> Seq(MsgType)] /\ D.pend \in [Session -> PendType]
      /\ D.ipend \in [Session -> OpsType]
      /\ D = [out |-> D.out, pend |-> D.pend, ipend |-> D.ipend]
  BY DEF DType
<1>3. e.path \in Path /\ e \in OpType
  BY DEF IndexEvent, OpType
<1> DEFINE ops(t) == D.ipend[t]
           more(t) == IF e.path \in DOMAIN ops(t) THEN Append(ops(t)[e.path], e) ELSE <<e>>
           new(t) == IF t \notin Subscribers(e.path) THEN ops(t)
                     ELSE With(ops(t), e.path, more(t))
<1>4. /\ E.out = D.out /\ E.pend = D.pend /\ E.ipend = [t \in Session |-> new(t)]
      /\ E = [out |-> E.out, pend |-> E.pend, ipend |-> E.ipend]
  BY <1>1, <1>2 DEF NotifyIndexChanged
<1>5. ASSUME NEW t \in Session
      PROVE  /\ ops(t) \in Partial(Path, Seq(OpType)) /\ DOMAIN ops(t) \in SUBSET Path
             /\ \A q \in DOMAIN ops(t) : ops(t)[q] \in Seq(OpType)
             /\ more(t) \in Seq(OpType)
             /\ With(ops(t), e.path, more(t)) \in OpsType
             /\ IsWith(With(ops(t), e.path, more(t)), ops(t), e.path, more(t))
  <2>1. ops(t) \in Partial(Path, Seq(OpType))
    BY <1>2 DEF OpsType
  <2> HIDE DEF ops
  <2>2. DOMAIN ops(t) \in SUBSET Path /\ ops(t) \in [DOMAIN ops(t) -> Seq(OpType)]
    BY <2>1, PartialIs
  <2>3. more(t) \in Seq(OpType)
    BY <1>3, <2>2, AppendFacts
  <2> HIDE DEF more
  <2>4. /\ With(ops(t), e.path, more(t)) \in Partial(Path, Seq(OpType))
        /\ IsWith(With(ops(t), e.path, more(t)), ops(t), e.path, more(t))
    BY <1>3, <2>1, <2>3, WithFacts
  <2> QED
    BY <2>1, <2>2, <2>3, <2>4 DEF OpsType
<1>6. E \in DType
  <2>1. \A t \in Session : new(t) \in OpsType
    BY <1>2, <1>5
  <2> HIDE DEF new
  <2> QED
    BY <1>2, <1>4, <2>1 DEF DType
<1>7. ASSUME NEW u \in Session, NEW q \in Path
      PROVE  /\ XItem(C, E, u, q) = XItem(C, D, u, q)
             /\ XIndex(C, E, u, q) = IF u \in Subscribers(e.path) /\ q = e.path
                                     THEN ApplyOp(XIndex(C, D, u, q), e)
                                     ELSE XIndex(C, D, u, q)
  <2>1. PICK x : x = ClientIndex(Arrived(C, D, u), q)
    OBVIOUS
  <2>2. Arrived(C, E, u) = Arrived(C, D, u) /\ E.pend[u] = D.pend[u] /\ E.ipend[u] = new(u)
    BY <1>4 DEF Arrived
  <2>3. /\ Arrived(C, D, u) \in ClientType
        /\ XItem(C, D, u, q) =
             ItemAfter(ItemsMessage(D.pend[u]), q, ItemAt(Arrived(C, D, u), q))
        /\ XIndex(C, D, u, q) = IndexAfter(IndexMessage(D.ipend[u]), q, x)
    BY <2>1, SeenIs
  <2>4. /\ XItem(C, E, u, q) =
             ItemAfter(ItemsMessage(E.pend[u]), q, ItemAt(Arrived(C, E, u), q))
        /\ XIndex(C, E, u, q) = IndexAfter(IndexMessage(E.ipend[u]), q,
                                           ClientIndex(Arrived(C, E, u), q))
    BY <1>6, SeenIs
  <2>5. XIndex(C, E, u, q) = IndexAfter(IndexMessage(new(u)), q, x)
    BY <2>1, <2>2, <2>4
  <2>6. x \in Seq(PathName)
    BY <2>1, <2>3, ClientFields
  <2>7. \A o : IndexAfter(IndexMessage(o), q, x) =
                 IF q \in DOMAIN o THEN FoldLeft(ApplyOp, x, o[q]) ELSE x
    BY DEF IndexAfter, IndexMessage
  <2>8. CASE u \notin Subscribers(e.path) \/ q # e.path
    <3>1. CASE u \notin Subscribers(e.path)
      BY <2>2, <2>3, <2>4, <2>5, <3>1
    <3>2. CASE u \in Subscribers(e.path) /\ q # e.path
      <4>1. new(u) = With(ops(u), e.path, more(u))
        BY <3>2
      <4>2. IsWith(new(u), ops(u), e.path, more(u))
        BY <1>5, <4>1
      <4> HIDE DEF new, more
      <4>3. q \in DOMAIN new(u) <=> q \in DOMAIN ops(u)
        BY <3>2, <4>2 DEF IsWith
      <4>4. q \in DOMAIN ops(u) => new(u)[q] = ops(u)[q]
        BY <3>2, <4>2 DEF IsWith
      <4> QED
        BY <2>2, <2>3, <2>4, <2>5, <2>7, <3>2, <4>3, <4>4
    <3> QED
      BY <2>8, <3>1, <3>2
  <2>9. CASE u \in Subscribers(e.path) /\ q = e.path
    <3>1. new(u) = With(ops(u), e.path, more(u))
      BY <2>9
    <3>2. IsWith(new(u), ops(u), e.path, more(u))
      BY <1>5, <3>1
    <3>3. q \in DOMAIN new(u) /\ new(u)[q] = more(u)
      BY <2>9, <3>2 DEF IsWith
    <3>4. XIndex(C, E, u, q) = FoldLeft(ApplyOp, x, more(u))
      BY <2>5, <2>7, <3>3
    <3>5. XIndex(C, D, u, q) = IF q \in DOMAIN ops(u) THEN FoldLeft(ApplyOp, x, ops(u)[q]) ELSE x
      BY <2>3, <2>7
    <3>6. CASE q \in DOMAIN ops(u)
      <4>1. more(u) = Append(ops(u)[q], e) /\ ops(u)[q] \in Seq(OpType)
        BY <1>5, <2>9, <3>6
      <4> HIDE DEF new, more, ops
      <4>2. FoldLeft(ApplyOp, x, more(u)) = ApplyOp(FoldLeft(ApplyOp, x, ops(u)[q]), e)
        BY <1>3, <2>6, <4>1, OpFoldAppend
      <4> QED
        BY <2>2, <2>3, <2>4, <2>9, <3>4, <3>5, <3>6, <4>2
    <3>7. CASE q \notin DOMAIN ops(u)
      <4>1. more(u) = <<e>>
        BY <2>9, <3>7
      <4> HIDE DEF new, more, ops
      <4>2. FoldLeft(ApplyOp, x, more(u)) = ApplyOp(x, e)
        BY <1>3, <2>6, <4>1, OpFoldOne
      <4> QED
        BY <2>2, <2>3, <2>4, <2>9, <3>4, <3>5, <3>7, <4>2
    <3> QED
      BY <3>6, <3>7
  <2> QED
    BY <2>8, <2>9
<1> QED
  BY <1>1, <1>6, <1>7 DEF IndexEffect
=============================================================================
