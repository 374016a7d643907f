-------------------------- MODULE PulseNode_proofs --------------------------
(***************************************************************************)
(* Proofs about the timers of PulseNode, for any number of nodes and roots *)
(* and any sequence of calls that callbacks make: the lists are well       *)
(* formed, and, unless GetPulseTime() is reentrant, nobody is forgotten or *)
(* skipped and the trees implement PulseSchedule.                          *)
(***************************************************************************)
EXTENDS PulseNode, FiniteSetTheorems, FunctionTheorems, SequenceTheorems,
        WellFoundedInduction, TLAPS

(***************************************************************************)
(* The inductive invariant: the lists                                      *)
(***************************************************************************)

(* s lists each member of S once.                                          *)
ListsOnce(s, S) ==
  /\ s \in Seq(Node) /\ ToSet(s) = S
  /\ \A i, j \in 1 .. Len(s) : s[i] = s[j] => i = j

(* Those members of s that are in N are sorted by agg.                     *)
InOrder(agg, s, N) ==
  \A i, j \in 1 .. Len(s) :
    i <= j /\ s[i] \in N /\ s[j] \in N => agg[s[i]] <= agg[s[j]]

TreeType ==
  [parent : [Node -> Node \cup {NoNode}],
   list   : [Node -> Lists \cup {"none"}],
   kids   : [Node -> [Lists -> Seq(Node)]],
   sched  : [Node -> Times],
   valid  : [Node -> BOOLEAN],
   agg    : [Node -> Times]]

ChildrenIn(t, p, k) == {c \in Node : t.parent[c] = p /\ t.list[c] = k}

(* Every list holds the children that say so.                              *)
Linked(t) ==
  /\ t \in TreeType
  /\ \A n \in Node : t.list[n] # "none" => t.parent[n] # NoNode
  /\ \A p \in Node : \A k \in Lists : ListsOnce(t.kids[p][k], ChildrenIn(t, p, k))

Listed(t) == \A n \in Node : t.parent[n] # NoNode => t.list[n] # "none"

Ordered(t, N) == \A p \in Node : InOrder(t.agg, t.kids[p]["scheduled"], N)

ListsOK(t) == Linked(t) /\ Listed(t) /\ Ordered(t, Node)

Call == [node : Node, pc : {"callback", "kids"}]

(* The loop: a walk is under way only from a root, and only in a phase     *)
(* that walks; all its calls but the innermost are visiting their children.*)
LoopOK ==
  /\ phase \in {"setup", "recalc", "wait", "handle"}
  /\ pos \in 1 .. Len(RootSeq) + 1
  /\ stack \in Seq(Call)
  /\ now \in 0 .. MaxTime /\ min \in Times /\ calls \in 0 .. MaxCalls
  /\ stack # <<>> => /\ phase \in {"recalc", "handle"} /\ pos <= Len(RootSeq)
                     /\ stack[Len(stack)].node = RootSeq[pos]
  /\ phase = "wait" => pos = Len(RootSeq) + 1
  /\ \A i \in 2 .. Len(stack) : stack[i].pc = "kids"

(***************************************************************************)
(* The inductive invariant: who has to be recalculated                     *)
(***************************************************************************)

(* Outside O, the calls under way, a node that must be asked or has a child*)
(* to recalculate is to be recalculated itself.                            *)
Marked(t, O) ==
  \A n \in Node \ O :
    t.parent[n] # NoNode /\ (~ t.valid[n] \/ ChildrenIn(t, n, "recalc") # {})
      => t.list[n] = "recalc"

(* GetPulseTimeAux has made valid what it is at work on.                   *)
AskedOK == phase = "recalc" => \A n \in OnStack : tree.valid[n]

(***************************************************************************)
(* The inductive invariant: the aggregate pulse times                      *)
(***************************************************************************)

(* No node is above its own parent.                                        *)
Acyclic(t) == \A n \in Node : t.parent[n] # NoNode => ~ InSubtree(t, n, t.parent[n])

(* The time of n is the earliest of its own and its scheduled children's.  *)
IsAggregate(t, n) ==
  /\ t.agg[n] <= t.sched[n]
  /\ \A c \in ChildrenIn(t, n, "scheduled") : t.agg[n] <= t.agg[c]
  /\ \/ t.agg[n] = t.sched[n]
     \/ \E c \in ChildrenIn(t, n, "scheduled") : t.agg[n] = t.agg[c]

Settled == {"scheduled", "unscheduled"}

AggregatesOK(t, O) ==
  \A n \in Node :
    /\ t.list[n] = "scheduled" => t.agg[n] < Never
    /\ t.list[n] = "unscheduled" => t.agg[n] = Never
    /\ n \notin O /\ t.list[n] \in Settled => IsAggregate(t, n)

(* A call was made for a child of the node of the next call, which may     *)
(* have lost it since: then it has no parent, or a new one that knows.     *)
ChainOK ==
  \A i \in 1 .. Len(stack) :
    LET n == stack[i].node IN
    \/ tree.parent[n] = NoNode
    \/ phase = "handle" /\ tree.list[n] = "recalc"
    \/ i < Len(stack) /\ tree.parent[n] = stack[i + 1].node

RootsFree == \A r \in Roots : tree.parent[r] = NoNode

(***************************************************************************)
(* The inductive invariant: the roots that were served                     *)
(***************************************************************************)

(* Neither r nor what it knows of its children is due before its own time. *)
NotBefore(r) ==
  /\ tree.agg[r] <= tree.sched[r]
  /\ \A c \in ChildrenIn(tree, r, "scheduled") : tree.agg[r] <= tree.agg[c]

(* All of the tree of r was asked, and the loop will wake up in time.      *)
Asked(r) ==
  /\ tree.valid[r] /\ ChildrenIn(tree, r, "recalc") = {} /\ min <= tree.agg[r]

(* Nothing that r knows of is due.                                         *)
Pulsed(r) ==
  /\ tree.valid[r] => now < tree.sched[r]
  /\ \A c \in ChildrenIn(tree, r, "scheduled") : now < tree.agg[c]

RootsOK ==
  /\ phase = "setup" => pos = 1
  /\ phase \in {"recalc", "wait"} => \A i \in 1 .. pos - 1 :
       RootSeq[i] \notin OnStack => NotBefore(RootSeq[i]) /\ Asked(RootSeq[i])
  /\ phase = "handle" => /\ \A r \in Roots : NotBefore(r)
                         /\ \A i \in 1 .. pos - 1 : Pulsed(RootSeq[i])

(* PulseAux calls Pulse() on what is due, and only on that.                *)
DueOK ==
  phase = "handle" => \A i \in 1 .. Len(stack) :
    LET n == stack[i].node IN
    tree.valid[n] => (stack[i].pc = "callback" <=> tree.sched[n] <= now)

-----------------------------------------------------------------------------
(***************************************************************************)
(* Sequences                                                               *)
(***************************************************************************)

(* What a list that holds each node of S once says about the members of S  *)
LEMMA ListsOnceFacts ==
  ASSUME NEW s, NEW S, ListsOnce(s, S)
  PROVE  /\ s \in Seq(Node) /\ Len(s) \in Nat /\ DOMAIN s = 1 .. Len(s)
         /\ S \subseteq Node
         /\ \A i \in 1 .. Len(s) : s[i] \in S
         /\ \A n \in S : \E i \in 1 .. Len(s) : s[i] = n
         /\ \A i, j \in 1 .. Len(s) : s[i] = s[j] => i = j
BY DEF ListsOnce, ToSet

LEMMA ListsOnceIntro ==
  ASSUME NEW s \in Seq(Node), NEW S,
         \A i \in 1 .. Len(s) : s[i] \in S,
         \A n \in S : \E i \in 1 .. Len(s) : s[i] = n,
         \A i, j \in 1 .. Len(s) : s[i] = s[j] => i = j
  PROVE  ListsOnce(s, S)
<1>1. DOMAIN s = 1 .. Len(s)
  OBVIOUS
<1>2. ToSet(s) = S
  BY <1>1 DEF ToSet
<1> QED
  BY <1>2 DEF ListsOnce

LEMMA EmptyListsOnce == ListsOnce(<<>>, {})
<1>1. <<>> \in Seq(Node) /\ 1 .. Len(<<>>) = {}
  OBVIOUS
<1> QED
  BY <1>1, ListsOnceIntro

(* A list is empty when it has nobody to hold.                             *)
LEMMA EmptyList ==
  ASSUME NEW s, NEW S, ListsOnce(s, S)
  PROVE  s = <<>> <=> S = {}
<1>1. /\ s \in Seq(Node) /\ Len(s) \in Nat
      /\ \A i \in 1 .. Len(s) : s[i] \in S
      /\ \A n \in S : \E i \in 1 .. Len(s) : s[i] = n
  BY ListsOnceFacts
<1>2. s = <<>> <=> Len(s) = 0
  BY <1>1
<1>3. Len(s) = 0 <=> 1 .. Len(s) = {}
  BY <1>1
<1> QED
  BY <1>1, <1>2, <1>3

(* The first of a list that is not empty                                   *)
LEMMA HeadOfList ==
  ASSUME NEW s, NEW S, ListsOnce(s, S), s # <<>>
  PROVE  Head(s) \in S /\ Head(s) = s[1] /\ 1 \in 1 .. Len(s) /\ Head(s) \in Node
<1>1. /\ s \in Seq(Node) /\ Len(s) \in Nat /\ \A i \in 1 .. Len(s) : s[i] \in S
      /\ S \subseteq Node
  BY ListsOnceFacts
<1>2. Len(s) # 0 /\ Head(s) = s[1]
  BY <1>1
<1> QED
  BY <1>1, <1>2

(* The length of a list is the number of those it holds.                   *)
LEMMA LengthOfList ==
  ASSUME NEW s, NEW S, ListsOnce(s, S)
  PROVE  Cardinality(S) = Len(s)
<1>1. /\ s \in Seq(Node) /\ Len(s) \in Nat /\ DOMAIN s = 1 .. Len(s)
      /\ \A i \in 1 .. Len(s) : s[i] \in S
      /\ \A n \in S : \E i \in 1 .. Len(s) : s[i] = n
      /\ \A i, j \in 1 .. Len(s) : s[i] = s[j] => i = j
  BY ListsOnceFacts
<1>2. s = [i \in 1 .. Len(s) |-> s[i]]
  BY <1>1
<1>3. s \in [1 .. Len(s) -> S]
  BY <1>1, <1>2
<1>4. s \in Surjection(1 .. Len(s), S)
  BY <1>1, <1>3 DEF Surjection
<1>5. s \in Injection(1 .. Len(s), S)
  BY <1>1, <1>3, Fun_IsInj
<1>6. IsFiniteSet(1 .. Len(s)) /\ Cardinality(1 .. Len(s)) = Len(s)
  BY <1>1, FS_Interval
<1> QED
  BY <1>4, <1>5, <1>6, FS_Surjection

(* One list before another                                                 *)
LEMMA ConcatLists ==
  ASSUME NEW s, NEW S, NEW r, NEW R, ListsOnce(s, S), ListsOnce(r, R), S \cap R = {}
  PROVE  ListsOnce(s \o r, S \cup R)
<1>1. /\ s \in Seq(Node) /\ Len(s) \in Nat
      /\ \A i \in 1 .. Len(s) : s[i] \in S
      /\ \A n \in S : \E i \in 1 .. Len(s) : s[i] = n
      /\ \A i, j \in 1 .. Len(s) : s[i] = s[j] => i = j
  BY ListsOnceFacts
<1>2. /\ r \in Seq(Node) /\ Len(r) \in Nat
      /\ \A i \in 1 .. Len(r) : r[i] \in R
      /\ \A n \in R : \E i \in 1 .. Len(r) : r[i] = n
      /\ \A i, j \in 1 .. Len(r) : r[i] = r[j] => i = j
  BY ListsOnceFacts
<1> PICK new : new = s \o r
  OBVIOUS
<1>3. new \in Seq(Node) /\ Len(new) = Len(s) + Len(r)
  BY <1>1, <1>2, ConcatProperties
<1>4. \A i \in 1 .. Len(new) :
        new[i] = IF i <= Len(s) THEN s[i] ELSE r[i - Len(s)]
  BY <1>1, <1>2, <1>3, ConcatProperties
<1>5. ASSUME NEW i \in 1 .. Len(new)
      PROVE  \/ i \in 1 .. Len(s) /\ new[i] = s[i]
             \/ /\ i - Len(s) \in 1 .. Len(r) /\ i \notin 1 .. Len(s)
                /\ new[i] = r[i - Len(s)]
  <2>1. i \in Nat
    OBVIOUS
  <2>2. CASE i <= Len(s)
    BY <2>1, <2>2, <1>1, <1>4
  <2>3. CASE ~ (i <= Len(s))
    BY <2>1, <2>3, <1>1, <1>2, <1>3, <1>4
  <2> QED
    BY <2>2, <2>3
<1>6. \A i \in 1 .. Len(new) : new[i] \in S \cup R
  BY <1>1, <1>2, <1>5
<1>7. ASSUME NEW i \in 1 .. Len(new), NEW j \in 1 .. Len(new), new[i] = new[j]
      PROVE  i = j
  <2>1. CASE i \in 1 .. Len(s) /\ j \in 1 .. Len(s)
    <3>1. new[i] = s[i] /\ new[j] = s[j]
      BY <2>1, <1>5
    <3> QED
      BY <3>1, <2>1, <1>1, <1>7
  <2>2. CASE i \notin 1 .. Len(s) /\ j \notin 1 .. Len(s)
    <3>1. /\ i - Len(s) \in 1 .. Len(r) /\ new[i] = r[i - Len(s)]
          /\ j - Len(s) \in 1 .. Len(r) /\ new[j] = r[j - Len(s)]
      BY <2>2, <1>5
    <3>2. i - Len(s) = j - Len(s)
      BY <3>1, <1>2, <1>7
    <3> QED
      BY <3>2, <1>1
  <2>3. CASE i \in 1 .. Len(s) /\ j \notin 1 .. Len(s)
    <3>1. new[i] \in S /\ new[j] \in R
      BY <2>3, <1>1, <1>2, <1>5
    <3> QED
      BY <3>1, <1>7
  <2>4. CASE i \notin 1 .. Len(s) /\ j \in 1 .. Len(s)
    <3>1. new[i] \in R /\ new[j] \in S
      BY <2>4, <1>1, <1>2, <1>5
    <3> QED
      BY <3>1, <1>7
  <2> QED
    BY <2>1, <2>2, <2>3, <2>4
<1>8. ASSUME NEW n \in S \cup R
      PROVE  \E i \in 1 .. Len(new) : new[i] = n
  <2>1. CASE n \in S
    <3>1. PICK i \in 1 .. Len(s) : s[i] = n
      BY <2>1, <1>1
    <3>2. i \in 1 .. Len(new) /\ i <= Len(s)
      BY <1>1, <1>2, <1>3
    <3> QED
      BY <3>1, <3>2, <1>4
  <2>2. CASE n \in R
    <3>1. PICK i \in 1 .. Len(r) : r[i] = n
      BY <2>2, <1>2
    <3>2. /\ i + Len(s) \in 1 .. Len(new) /\ ~ (i + Len(s) <= Len(s))
          /\ (i + Len(s)) - Len(s) = i
      BY <1>1, <1>2, <1>3
    <3>3. new[i + Len(s)] = r[i]
      BY <3>2, <1>4
    <3> QED
      BY <3>1, <3>2, <3>3
  <2> QED
    BY <2>1, <2>2
<1> QED
  BY <1>3, <1>6, <1>7, <1>8, ListsOnceIntro

(* SetToSeq lists the members of a finite set once.                        *)
LEMMA SetToSeqLists ==
  ASSUME NEW S \in SUBSET Node, IsFiniteSet(S)
  PROVE  ListsOnce(SetToSeq(S), S)
<1> DEFINE n == Cardinality(S)
<1>1. n \in Nat /\ ExistsBijection(1 .. n, S)
  BY FS_CardinalityType
<1>2. PICK f : f \in Bijection(1 .. n, S)
  BY <1>1 DEF ExistsBijection
<1>3. f \in [1 .. n -> S] /\ IsInjective(f)
  BY <1>2 DEF Bijection, Injection
<1> PICK s : s = SetToSeq(S)
  OBVIOUS
<1>4. s \in [1 .. n -> S] /\ IsInjective(s)
  BY <1>3 DEF SetToSeq
<1>5. s \in Injection(1 .. n, S)
  BY <1>4 DEF Injection
<1>6. s \in Surjection(1 .. n, S)
  <2>1. Cardinality(1 .. n) = n
    BY <1>1, FS_Interval
  <2> QED
    BY <1>5, <2>1, FS_Injection
<1>7. s \in Seq(Node) /\ Len(s) = n
  BY <1>1, <1>4
<1>8. /\ \A i \in 1 .. n : s[i] \in S
      /\ \A m \in S : \E i \in 1 .. n : s[i] = m
      /\ \A i, j \in 1 .. n : s[i] = s[j] => i = j
  BY <1>4, <1>6 DEF Surjection, IsInjective
<1> QED
  BY <1>7, <1>8, ListsOnceIntro
(* Taking out any nodes at once: what is left is in the old order.         *)
LEMMA WithoutLists ==
  ASSUME NEW s, NEW S, NEW gone, NEW agg, NEW N,
         ListsOnce(s, S), InOrder(agg, s, N)
  PROVE  /\ ListsOnce(Without(s, gone), S \ gone)
         /\ InOrder(agg, Without(s, gone), N \cup gone)
<1> DEFINE left == {i \in DOMAIN s : s[i] \notin gone}
           upTo(i) == {j \in left : j <= i}
           n == Cardinality(left)
           nth(k) == CHOOSE i \in left : Cardinality(upTo(i)) = k
<1>1. /\ s \in Seq(Node) /\ Len(s) \in Nat /\ DOMAIN s = 1 .. Len(s)
      /\ S \subseteq Node
      /\ \A i \in 1 .. Len(s) : s[i] \in S
      /\ \A m \in S : \E i \in 1 .. Len(s) : s[i] = m
      /\ \A i, j \in 1 .. Len(s) : s[i] = s[j] => i = j
  BY ListsOnceFacts
<1>2. left \subseteq 1 .. Len(s) /\ IsFiniteSet(left) /\ n \in Nat
  <2>1. left \subseteq 1 .. Len(s) /\ IsFiniteSet(1 .. Len(s))
    BY <1>1, FS_Interval
  <2>2. IsFiniteSet(left)
    BY <2>1, FS_Subset
  <2> QED
    BY <2>1, <2>2, FS_CardinalityType
<1>3. Without(s, gone) = [k \in 1 .. n |-> s[nth(k)]]
  BY DEF Without
<1> HIDE DEF left
<1>4. ASSUME NEW i \in left
      PROVE  IsFiniteSet(upTo(i)) /\ Cardinality(upTo(i)) \in 1 .. n
  <2>1. IsFiniteSet(upTo(i)) /\ Cardinality(upTo(i)) <= n
    BY <1>2, FS_Subset
  <2>2. i \in upTo(i)
    BY <1>2
  <2>3. Cardinality(upTo(i)) \in Nat /\ Cardinality(upTo(i)) # 0
    BY <2>1, <2>2, FS_CardinalityType, FS_EmptySet
  <2> QED
    BY <2>1, <2>3, <1>2
<1>5. ASSUME NEW i \in left, NEW k \in left, i < k
      PROVE  Cardinality(upTo(i)) < Cardinality(upTo(k))
  <2>1. i \in Nat /\ k \in Nat
    BY <1>2
  <2>2. upTo(i) \in SUBSET upTo(k) /\ k \in upTo(k) /\ k \notin upTo(i)
    <3>1. \A j \in left : j \in Nat /\ (j <= i => j <= k)
      BY <1>2, <1>5, <2>1
    <3>2. k <= k /\ ~ (k <= i)
      BY <1>5, <2>1
    <3> QED
      BY <3>1, <3>2
  <2>3. /\ Cardinality(upTo(i)) <= Cardinality(upTo(k))
        /\ Cardinality(upTo(i)) = Cardinality(upTo(k)) => upTo(i) = upTo(k)
    BY <1>4, <2>2, FS_Subset
  <2>4. Cardinality(upTo(i)) \in Nat /\ Cardinality(upTo(k)) \in Nat
    BY <1>4
  <2> QED
    BY <2>2, <2>3, <2>4
<1>6. ASSUME NEW i \in left, NEW k \in left,
             Cardinality(upTo(i)) <= Cardinality(upTo(k))
      PROVE  i <= k
  <2>1. i \in Nat /\ k \in Nat
    BY <1>2
  <2>2. Cardinality(upTo(i)) \in Nat /\ Cardinality(upTo(k)) \in Nat
    BY <1>4
  <2>3. CASE k < i
    BY <1>5, <1>6, <2>2, <2>3
  <2> QED
    BY <2>1, <2>3
<1> DEFINE rank == [i \in left |-> Cardinality(upTo(i))]
<1>7. rank \in Injection(left, 1 .. n)
  <2>1. ASSUME NEW i \in left, NEW k \in left, rank[i] = rank[k] PROVE i = k
    <3>1. Cardinality(upTo(i)) = Cardinality(upTo(k)) /\ Cardinality(upTo(i)) \in Nat
      BY <1>4, <2>1
    <3> HIDE DEF upTo
    <3>2. i <= k /\ k <= i
      BY <1>6, <3>1
    <3> QED
      BY <3>2, <1>2
  <2>2. rank \in [left -> 1 .. n]
    BY <1>4
  <2> QED
    BY <2>1, <2>2, Fun_IsInj
<1>8. rank \in Surjection(left, 1 .. n)
  <2>1. IsFiniteSet(1 .. n) /\ Cardinality(1 .. n) = n
    BY <1>2, FS_Interval
  <2> QED
    BY <1>7, <2>1, FS_Injection
<1>9. ASSUME NEW k \in 1 .. n
      PROVE  nth(k) \in left /\ Cardinality(upTo(nth(k))) = k
  <2>1. \E i \in left : Cardinality(upTo(i)) = k
    BY <1>8 DEF Surjection
  <2> QED
    BY <2>1
<1>10. ASSUME NEW i \in left
       PROVE  \E k \in 1 .. n : nth(k) = i
  <2>1. Cardinality(upTo(i)) \in 1 .. n
    BY <1>4
  <2> PICK k \in 1 .. n : k = Cardinality(upTo(i))
    BY <2>1
  <2> PICK m : m = nth(k)
    OBVIOUS
  <2>2. m \in left /\ Cardinality(upTo(m)) = k
    BY <1>9
  <2>3. k \in Nat /\ k <= k
    OBVIOUS
  <2> HIDE DEF upTo, n
  <2>4. m <= i /\ i <= m
    BY <2>2, <2>3, <1>6
  <2>5. m = i
    BY <2>2, <2>4, <1>2
  <2> QED
    BY <2>5
<1>11. ASSUME NEW k \in 1 .. n, NEW m \in 1 .. n, k <= m
       PROVE  nth(k) <= nth(m)
  <2> HIDE DEF nth
  <2> QED
    BY <1>6, <1>9, <1>11
<1>12. ASSUME NEW k \in 1 .. n, NEW m \in 1 .. n, nth(k) = nth(m)
       PROVE  k = m
  BY <1>9, <1>12
<1> PICK new : new = Without(s, gone)
  OBVIOUS
<1> HIDE DEF n
<1>13. /\ \A k \in 1 .. n : nth(k) \in 1 .. Len(s) /\ s[nth(k)] \notin gone
       /\ \A i \in 1 .. Len(s) : s[i] \notin gone => \E k \in 1 .. n : nth(k) = i
  BY <1>1, <1>2, <1>9, <1>10 DEF left
<1>14. new = [k \in 1 .. n |-> s[nth(k)]]
  BY <1>3
<1> HIDE DEF nth, upTo
<1>15. \A k \in 1 .. n : s[nth(k)] \in Node
  BY <1>1, <1>13
<1>16. new \in Seq(Node) /\ Len(new) = n /\ \A k \in 1 .. n : new[k] = s[nth(k)]
  BY <1>2, <1>14, <1>15
<1>17. ListsOnce(new, S \ gone)
  <2>1. \A i \in 1 .. n : new[i] \in S \ gone
    BY <1>1, <1>13, <1>16
  <2>2. ASSUME NEW m \in S \ gone
        PROVE  \E i \in 1 .. n : new[i] = m
    <3>1. PICK i \in 1 .. Len(s) : s[i] = m
      BY <1>1
    <3> QED
      BY <3>1, <1>13, <1>16
  <2>3. \A i, j \in 1 .. n : new[i] = new[j] => i = j
    BY <1>1, <1>12, <1>13, <1>16
  <2> QED
    BY <1>16, <2>1, <2>2, <2>3, ListsOnceIntro
<1>18. InOrder(agg, new, N \cup gone)
  <2>1. SUFFICES ASSUME NEW i \in 1 .. n, NEW j \in 1 .. n, i <= j,
                        new[i] \in N \cup gone, new[j] \in N \cup gone
                 PROVE  agg[new[i]] <= agg[new[j]]
    BY <1>16 DEF InOrder
  <2>2. nth(i) <= nth(j) /\ nth(i) \in 1 .. Len(s) /\ nth(j) \in 1 .. Len(s)
    BY <2>1, <1>11, <1>13
  <2>3. s[nth(i)] \in N /\ s[nth(j)] \in N
    BY <2>1, <1>13, <1>16
  <2> QED
    BY <2>2, <2>3, <1>16 DEF InOrder
<1> QED
  BY <1>17, <1>18

(* A set of positions that is not empty has a first one.                   *)
LEMMA LeastOf ==
  ASSUME NEW T \in SUBSET Nat, T # {}
  PROVE  \E i \in T : \A j \in T : i <= j
<1>1. \E i \in T : \A j \in T : ~ (<<j, i>> \in OpToRel(<, Nat))
  BY NatLessThanWellFounded, WFMin
<1>2. PICK i \in T : \A j \in T : ~ (<<j, i>> \in OpToRel(<, Nat))
  BY <1>1
<1>3. ASSUME NEW j \in T PROVE i <= j
  <2>1. i \in Nat /\ j \in Nat
    OBVIOUS
  <2>2. j < i => <<j, i>> \in OpToRel(<, Nat)
    BY <2>1 DEF OpToRel
  <2>3. ~ (j < i)
    BY <2>2, <1>2
  <2> QED
    BY <2>1, <2>3
<1> QED
  BY <1>3

(* new is the list s with e at place i.                                    *)
Spliced(new, s, i, e) ==
  /\ new \in Seq(Node) /\ Len(new) = Len(s) + 1
  /\ \A j \in 1 .. Len(s) + 1 :
       new[j] = IF j < i THEN s[j] ELSE IF j = i THEN e ELSE s[j - 1]

(* InsertAt puts a node before one of the list.                            *)
LEMMA InsertAtSplices ==
  ASSUME NEW s \in Seq(Node), NEW i \in 1 .. Len(s) + 1, NEW e \in Node
  PROVE  Spliced(InsertAt(s, i, e), s, i, e)
<1>1. i \in 1 .. Len(s) + 1 /\ Len(s) \in Nat
  OBVIOUS
<1> DEFINE front == SubSeq(s, 1, i - 1)
           back == SubSeq(s, i, Len(s))
<1>2. front \in Seq(Node) /\ Len(front) = i - 1 /\ \A j \in 1 .. i - 1 : front[j] = s[j]
  BY <1>1
<1>3. /\ back \in Seq(Node) /\ Len(back) = Len(s) - i + 1
      /\ \A j \in 1 .. Len(s) - i + 1 : back[j] = s[i + j - 1]
  BY <1>1
<1> HIDE DEF front, back
<1> PICK start : start = front \o <<e>>
  OBVIOUS
<1>4. /\ start \in Seq(Node) /\ Len(start) = i
      /\ \A j \in 1 .. i : start[j] = IF j < i THEN s[j] ELSE e
  <2>1. <<e>> \in Seq(Node) /\ Len(<<e>>) = 1 /\ <<e>>[1] = e
    OBVIOUS
  <2>2. start \in Seq(Node) /\ Len(start) = i
    BY <2>1, <1>1, <1>2, ConcatProperties
  <2>3. ASSUME NEW j \in 1 .. i
        PROVE  start[j] = IF j < i THEN s[j] ELSE e
    <3>1. j \in 1 .. Len(front) + Len(<<e>>)
      BY <2>1, <1>1, <1>2
    <3>2. (front \o <<e>>)[j] = IF j <= Len(front) THEN front[j]
                                ELSE <<e>>[j - Len(front)]
      BY <3>1, <2>1, <1>2, ConcatProperties
    <3>3. CASE j < i
      BY <3>2, <3>3, <1>1, <1>2
    <3>4. CASE ~ j < i
      <4>1. j - Len(front) = 1 /\ ~ j <= Len(front)
        BY <3>4, <1>1, <1>2
      <4> QED
        BY <3>2, <3>4, <4>1, <2>1
    <3> QED
      BY <3>3, <3>4
  <2> QED
    BY <2>2, <2>3
<1>5. InsertAt(s, i, e) = start \o back
  BY DEF InsertAt, front, back
<1>6. InsertAt(s, i, e) \in Seq(Node) /\ Len(InsertAt(s, i, e)) = Len(s) + 1
  <2>1. start \o back \in Seq(Node) /\ Len(start \o back) = Len(start) + Len(back)
    BY <1>3, <1>4, ConcatProperties
  <2>2. i + (Len(s) - i + 1) = Len(s) + 1
    BY <1>1
  <2>3. Len(start \o back) = Len(s) + 1
    BY <2>1, <2>2, <1>3, <1>4
  <2> QED
    BY <2>1, <2>3, <1>5
<1>7. ASSUME NEW j \in 1 .. Len(s) + 1
      PROVE  InsertAt(s, i, e)[j] = IF j < i THEN s[j]
                                    ELSE IF j = i THEN e ELSE s[j - 1]
  <2>1. (start \o back)[j] = IF j <= Len(start) THEN start[j]
                             ELSE back[j - Len(start)]
    BY <1>1, <1>3, <1>4, ConcatProperties
  <2>2. CASE j <= i
    BY <2>1, <2>2, <1>1, <1>4, <1>5
  <2>3. CASE ~ j <= i
    <3>1. j - i \in 1 .. Len(s) - i + 1 /\ i + (j - i) - 1 = j - 1
      BY <2>3, <1>1
    <3>2. (start \o back)[j] = back[j - i]
      BY <2>1, <2>3, <1>1, <1>4
    <3>3. back[j - i] = s[j - 1]
      BY <3>1, <1>1, <1>3
    <3>4. InsertAt(s, i, e)[j] = s[j - 1]
      BY <3>2, <3>3, <1>5
    <3>5. ~ j < i /\ j # i
      BY <2>3, <1>1
    <3> QED
      BY <3>4, <3>5
  <2> QED
    BY <2>2, <2>3
<1> QED
  BY <1>6, <1>7 DEF Spliced
LEMMA AppendSplices ==
  ASSUME NEW s \in Seq(Node), NEW e \in Node
  PROVE  Spliced(Append(s, e), s, Len(s) + 1, e)
<1>1. Len(s) \in Nat
  OBVIOUS
<1>2. Append(s, e) \in Seq(Node) /\ Len(Append(s, e)) = Len(s) + 1
  OBVIOUS
<1>3. ASSUME NEW j \in 1 .. Len(s) + 1
      PROVE  Append(s, e)[j] = IF j < Len(s) + 1 THEN s[j] ELSE e
  OBVIOUS
<1>4. \A j \in 1 .. Len(s) + 1 : j < Len(s) + 1 \/ j = Len(s) + 1
  BY <1>1
<1> QED
  BY <1>2, <1>3, <1>4 DEF Spliced

(* A list with one more node, at a place where the order is kept           *)
LEMMA SplicedLists ==
  ASSUME NEW s, NEW S, NEW new, NEW i \in 1 .. Len(s) + 1, NEW e \in Node,
         NEW agg \in [Node -> Times],
         ListsOnce(s, S), e \notin S, Spliced(new, s, i, e),
         InOrder(agg, s, Node),
         \A j \in 1 .. Len(s) : j < i => agg[s[j]] <= agg[e],
         \A j \in 1 .. Len(s) : i <= j => agg[e] <= agg[s[j]]
  PROVE  ListsOnce(new, S \cup {e}) /\ InOrder(agg, new, Node)
<1>1. /\ s \in Seq(Node) /\ Len(s) \in Nat /\ S \subseteq Node
      /\ \A j \in 1 .. Len(s) : s[j] \in S
      /\ \A n \in S : \E j \in 1 .. Len(s) : s[j] = n
      /\ \A j, k \in 1 .. Len(s) : s[j] = s[k] => j = k
  BY ListsOnceFacts
<1> DEFINE old(j) == IF j < i THEN j ELSE j - 1
<1>2. /\ new \in Seq(Node) /\ Len(new) = Len(s) + 1
      /\ \A j \in 1 .. Len(s) + 1 :
           new[j] = IF j < i THEN s[j] ELSE IF j = i THEN e ELSE s[j - 1]
  BY DEF Spliced
<1>3. ASSUME NEW j \in 1 .. Len(new)
      PROVE  /\ j = i => new[j] = e
             /\ j # i => /\ old(j) \in 1 .. Len(s) /\ new[j] = s[old(j)]
                         /\ j < i => old(j) < i
                         /\ i < j => i <= old(j)
  BY <1>1, <1>2
<1>4. ASSUME NEW j \in 1 .. Len(new), NEW k \in 1 .. Len(new), j # i, k # i
      PROVE  (old(j) = old(k) => j = k) /\ (j <= k => old(j) <= old(k))
  BY <1>1, <1>2, <1>4
<1>5. ASSUME NEW k \in 1 .. Len(s)
      PROVE  \E j \in 1 .. Len(new) : j # i /\ old(j) = k
  <2>1. CASE k < i
    <3>1. k \in 1 .. Len(new) /\ k # i /\ old(k) = k
      BY <1>1, <1>2, <2>1
    <3> QED
      BY <3>1
  <2>2. CASE ~ (k < i)
    <3>1. k + 1 \in 1 .. Len(new) /\ k + 1 # i /\ old(k + 1) = k
      BY <1>1, <1>2, <2>2
    <3> QED
      BY <3>1
  <2> QED
    BY <2>1, <2>2
<1>6. i \in 1 .. Len(new)
  BY <1>2
<1> HIDE DEF old
<1>7. \A j \in 1 .. Len(new) : new[j] \in S \cup {e}
  BY <1>1, <1>3
<1>8. ASSUME NEW n \in S \cup {e}
      PROVE  \E j \in 1 .. Len(new) : new[j] = n
  <2>1. CASE n = e
    BY <2>1, <1>3, <1>6
  <2>2. CASE n \in S
    <3>1. PICK k \in 1 .. Len(s) : s[k] = n
      BY <2>2, <1>1
    <3> QED
      BY <3>1, <1>3, <1>5
  <2> QED
    BY <2>1, <2>2
<1>9. ASSUME NEW j \in 1 .. Len(new), NEW k \in 1 .. Len(new), new[j] = new[k]
      PROVE  j = k
  <2>1. CASE j = i \/ k = i
    <3>1. new[j] = e /\ new[k] = e
      BY <2>1, <1>3, <1>9
    <3>2. \A m \in 1 .. Len(new) : m # i => new[m] # e
      BY <1>1, <1>3
    <3> QED
      BY <3>1, <3>2
  <2>2. CASE j # i /\ k # i
    BY <2>2, <1>1, <1>3, <1>4, <1>9
  <2> QED
    BY <2>1, <2>2
<1>10. ListsOnce(new, S \cup {e})
  BY <1>2, <1>7, <1>8, <1>9, ListsOnceIntro
<1>11. ASSUME NEW j \in 1 .. Len(new), NEW k \in 1 .. Len(new), j <= k
       PROVE  agg[new[j]] <= agg[new[k]]
  <2>0. i \in Nat /\ j \in Nat /\ k \in Nat /\ agg[e] <= agg[e]
    BY DEF Times, Never
  <2>1. CASE j = i /\ k = i
    BY <2>0, <2>1, <1>3
  <2>2. CASE j = i /\ k # i
    <3>1. i < k
      BY <2>0, <2>2, <1>11
    <3> QED
      BY <3>1, <2>2, <1>3
  <2>3. CASE j # i /\ k = i
    <3>1. j < i
      BY <2>0, <2>3, <1>11
    <3> QED
      BY <3>1, <2>3, <1>3
  <2>4. CASE j # i /\ k # i
    <3>1. old(j) <= old(k) /\ old(j) \in 1 .. Len(s) /\ old(k) \in 1 .. Len(s)
      BY <2>4, <1>3, <1>4, <1>11
    <3>2. s[old(j)] \in Node /\ s[old(k)] \in Node
      BY <3>1, <1>1
    <3> QED
      BY <3>1, <3>2, <2>4, <1>3 DEF InOrder
  <2> QED
    BY <2>1, <2>2, <2>3, <2>4
<1> QED
  BY <1>10, <1>11 DEF InOrder

(* A node goes to its place among the scheduled children.                  *)
LEMMA SortedLists ==
  ASSUME NEW t, NEW s, NEW S, NEW c \in Node, t.agg \in [Node -> Times],
         ListsOnce(s, S), c \notin S, InOrder(t.agg, s, Node)
  PROVE  ListsOnce(Sorted(t, s, c), S \cup {c}) /\ InOrder(t.agg, Sorted(t, s, c), Node)
<1>1. /\ s \in Seq(Node) /\ Len(s) \in Nat /\ DOMAIN s = 1 .. Len(s)
      /\ \A j \in 1 .. Len(s) : s[j] \in Node
  BY ListsOnceFacts
<1> PICK agg \in [Node -> Times] : agg = t.agg
  OBVIOUS
<1>2. \A n \in Node : agg[n] \in Nat
  BY PulseAssumption DEF Times, Never
<1>3. \A j, k \in 1 .. Len(s) : j <= k => agg[s[j]] <= agg[s[k]]
  BY <1>1 DEF InOrder
<1> DEFINE later == {i \in DOMAIN s : agg[s[i]] >= agg[c]}
<1>4. CASE s = <<>> \/ agg[c] >= agg[Last(s)]
  <2>1. Sorted(t, s, c) = Append(s, c)
    BY <1>4 DEF Sorted
  <2>2. ASSUME NEW j \in 1 .. Len(s)
        PROVE  agg[s[j]] <= agg[c]
    <3>1. s # <<>> /\ Len(s) \in 1 .. Len(s) /\ Last(s) = s[Len(s)] /\ j <= Len(s)
      BY <1>1 DEF Last
    <3>2. agg[s[j]] <= agg[s[Len(s)]]
      BY <3>1, <1>3
    <3>3. agg[c] >= agg[s[Len(s)]]
      BY <3>1, <1>4
    <3>4. s[j] \in Node /\ s[Len(s)] \in Node
      BY <3>1, <1>1
    <3> QED
      BY <3>2, <3>3, <3>4, <1>2
  <2>3. Len(s) + 1 \in 1 .. Len(s) + 1 /\ \A j \in 1 .. Len(s) : ~ (Len(s) + 1 <= j)
    BY <1>1
  <2>4. Spliced(Append(s, c), s, Len(s) + 1, c)
    BY <1>1, AppendSplices
  <2> QED
    BY <2>1, <2>2, <2>3, <2>4, SplicedLists
<1>5. CASE ~ (s = <<>> \/ agg[c] >= agg[Last(s)])
  <2> DEFINE i == CHOOSE k \in later : \A j \in later : k <= j
  <2>1. Sorted(t, s, c) = InsertAt(s, i, c)
    BY <1>5 DEF Sorted
  <2>2. Len(s) \in later
    <3>1. Len(s) \in 1 .. Len(s) /\ Last(s) = s[Len(s)] /\ s[Len(s)] \in Node
      BY <1>1, <1>5 DEF Last
    <3>2. ~ (agg[c] >= agg[s[Len(s)]])
      BY <3>1, <1>5
    <3>3. agg[s[Len(s)]] >= agg[c]
      BY <3>1, <3>2, <1>2
    <3> QED
      BY <3>1, <3>3, <1>1
  <2>3. later \in SUBSET Nat /\ later # {}
    BY <2>2, <1>1
  <2>4. \E k \in later : \A j \in later : k <= j
    BY <2>3, LeastOf
  <2>5. i \in later /\ \A j \in later : i <= j
    BY <2>4
  <2> HIDE DEF i
  <2>6. i \in 1 .. Len(s) /\ i \in 1 .. Len(s) + 1 /\ agg[s[i]] >= agg[c]
    BY <2>5, <1>1
  <2>7. ASSUME NEW j \in 1 .. Len(s), j < i
        PROVE  agg[s[j]] <= agg[c]
    <3>1. j \notin later
      BY <2>5, <2>6, <2>7
    <3>2. ~ (agg[s[j]] >= agg[c]) /\ s[j] \in Node
      BY <3>1, <1>1
    <3> QED
      BY <3>2, <1>2
  <2>8. ASSUME NEW j \in 1 .. Len(s), i <= j
        PROVE  agg[c] <= agg[s[j]]
    <3>1. agg[s[i]] <= agg[s[j]] /\ s[i] \in Node /\ s[j] \in Node
      BY <2>6, <2>8, <1>1, <1>3
    <3> QED
      BY <3>1, <2>6, <1>2
  <2>9. Spliced(InsertAt(s, i, c), s, i, c)
    BY <2>6, <1>1, InsertAtSplices
  <2> QED
    BY <2>1, <2>6, <2>7, <2>8, <2>9, SplicedLists
<1> QED
  BY <1>4, <1>5
-----------------------------------------------------------------------------
(***************************************************************************)
(* Walks from a node to its parents                                        *)
(***************************************************************************)

LEMMA UpWithinFacts ==
  ASSUME NEW t, NEW n \in Node, NEW N \in SUBSET Node
  PROVE  /\ UpWithin(t, n, N) \subseteq Node
         /\ n \in UpWithin(t, n, N)
         /\ \A m \in UpWithin(t, n, N) :
              t.parent[m] \in N => t.parent[m] \in UpWithin(t, n, N)
BY DEF UpWithin

(* It reaches nothing outside a set that the walk does not leave.          *)
LEMMA UpWithinLeast ==
  ASSUME NEW t, NEW n \in Node, NEW N \in SUBSET Node, NEW S \in SUBSET Node,
         n \in S, \A m \in S : t.parent[m] \in N => t.parent[m] \in S
  PROVE  UpWithin(t, n, N) \subseteq S
BY DEF UpWithin

(* The nodes that ReschedulePulseChild() climbs to: they have a parent and *)
(* are not in its list yet, and every such parent is among them.           *)
LEMMA ToRecalcFacts ==
  ASSUME NEW t, NEW c \in Node
  PROVE  /\ ToRecalc(t, c) \subseteq Node
         /\ \A m \in ToRecalc(t, c) : t.parent[m] # NoNode /\ t.list[m] # "recalc"
         /\ t.parent[c] # NoNode /\ t.list[c] # "recalc" => c \in ToRecalc(t, c)
         /\ \A m \in ToRecalc(t, c) : \A p \in Node :
              t.parent[m] = p /\ t.parent[p] # NoNode /\ t.list[p] # "recalc"
                => p \in ToRecalc(t, c)
         /\ ToRecalc(t, c) \subseteq UpWithin(t, c, Node)
<1> DEFINE climb == {n \in Node : t.parent[n] # NoNode /\ t.list[n] # "recalc"}
<1>1. CASE c \in climb
  <2>1. ToRecalc(t, c) = UpWithin(t, c, climb)
    BY <1>1 DEF ToRecalc
  <2>2. UpWithin(t, c, climb) \subseteq climb
    BY <1>1, UpWithinLeast
  <2>3. UpWithin(t, c, climb) \subseteq UpWithin(t, c, Node)
    <3>1. /\ c \in UpWithin(t, c, Node)
          /\ UpWithin(t, c, Node) \in SUBSET Node
          /\ \A m \in UpWithin(t, c, Node) :
               t.parent[m] \in climb => t.parent[m] \in UpWithin(t, c, Node)
      BY UpWithinFacts
    <3> QED
      BY <3>1, UpWithinLeast
  <2>4. /\ c \in UpWithin(t, c, climb)
        /\ \A m \in UpWithin(t, c, climb) :
             t.parent[m] \in climb => t.parent[m] \in UpWithin(t, c, climb)
    BY UpWithinFacts
  <2> QED
    BY <2>1, <2>2, <2>3, <2>4
<1>2. CASE c \notin climb
  BY <1>2 DEF ToRecalc
<1> QED
  BY <1>1, <1>2

-----------------------------------------------------------------------------
(***************************************************************************)
(* The fields of a tree                                                    *)
(***************************************************************************)

LEMMA TreeFields ==
  ASSUME NEW t \in TreeType
  PROVE  /\ t.parent \in [Node -> Node \cup {NoNode}]
         /\ t.list \in [Node -> Lists \cup {"none"}]
         /\ t.kids \in [Node -> [Lists -> Seq(Node)]]
         /\ t.sched \in [Node -> Times]
         /\ t.valid \in [Node -> BOOLEAN]
         /\ t.agg \in [Node -> Times]
BY DEF TreeType

(* Only the list of each node and the lists of children differ.            *)
Relisted(t, u) ==
  /\ u \in TreeType
  /\ u.parent = t.parent /\ u.sched = t.sched
  /\ u.valid = t.valid /\ u.agg = t.agg

LEMMA ListNames ==
  /\ "scheduled" \in Lists /\ "unscheduled" \in Lists /\ "recalc" \in Lists
  /\ "none" \notin Lists
  /\ \A k \in Lists : k \in {"scheduled", "unscheduled", "recalc"}
BY DEF Lists

(* What a Linked tree says about the lists of a node                       *)
LEMMA LinkedFacts ==
  ASSUME NEW t, Linked(t), NEW p \in Node, NEW k \in Lists
  PROVE  /\ ListsOnce(t.kids[p][k], ChildrenIn(t, p, k))
         /\ t.kids[p][k] = <<>> <=> ChildrenIn(t, p, k) = {}
         /\ t.kids[p][k] # <<>> =>
              /\ Head(t.kids[p][k]) \in ChildrenIn(t, p, k)
              /\ Head(t.kids[p][k]) = t.kids[p][k][1]
              /\ 1 \in 1 .. Len(t.kids[p][k])
<1>1. ListsOnce(t.kids[p][k], ChildrenIn(t, p, k))
  BY DEF Linked
<1> QED
  BY <1>1, EmptyList, HeadOfList

(* Nodes move to their parents' recalc lists.                              *)
LEMMA MoveToRecalcLinked ==
  ASSUME NEW t, NEW c \in Node, NEW N, Linked(t), Ordered(t, N)
  PROVE  LET u == MoveToRecalc(t, c) IN
         /\ Relisted(t, u)
         /\ u.list = [n \in Node |-> IF n \in ToRecalc(t, c) THEN "recalc"
                                     ELSE t.list[n]]
         /\ Linked(u) /\ Ordered(u, N)
<1> PICK u : u = MoveToRecalc(t, c)
  OBVIOUS
<1> PICK moved : moved = ToRecalc(t, c)
  OBVIOUS
<1> DEFINE New(p) == {m \in moved : t.parent[m] = p}
<1>1. t \in TreeType
  BY DEF Linked
<1>2. /\ t.parent \in [Node -> Node \cup {NoNode}]
      /\ t.list \in [Node -> Lists \cup {"none"}]
      /\ t.kids \in [Node -> [Lists -> Seq(Node)]]
      /\ t.sched \in [Node -> Times]
      /\ t.valid \in [Node -> BOOLEAN]
      /\ t.agg \in [Node -> Times]
  BY <1>1, TreeFields
<1>3. /\ moved \subseteq Node
      /\ \A m \in moved : t.parent[m] # NoNode /\ t.list[m] # "recalc"
  BY ToRecalcFacts
<1> DEFINE kids == [p \in Node |-> [k \in Lists |->
                      IF k = "recalc" THEN SetToSeq(New(p)) \o t.kids[p][k]
                      ELSE Without(t.kids[p][k], moved)]]
           list == [n \in Node |-> IF n \in moved THEN "recalc" ELSE t.list[n]]
<1>4. u = [t EXCEPT !.list = list, !.kids = kids]
  BY <1>1 DEF MoveToRecalc, TreeType
<1>5. list \in [Node -> Lists \cup {"none"}]
  BY <1>2, ListNames
<1>6. ASSUME NEW p \in Node, NEW k \in Lists
      PROVE  ListsOnce(t.kids[p][k], ChildrenIn(t, p, k))
  BY DEF Linked
<1>7. ASSUME NEW p \in Node, NEW k \in Lists, k # "recalc"
      PROVE  ListsOnce(Without(t.kids[p][k], moved), ChildrenIn(t, p, k) \ moved)
  <2>1. InOrder(t.agg, t.kids[p][k], {})
    BY DEF InOrder
  <2> QED
    BY <1>6, <2>1, WithoutLists
<1>8. ASSUME NEW p \in Node
      PROVE  ListsOnce(SetToSeq(New(p)) \o t.kids[p]["recalc"],
                       New(p) \cup ChildrenIn(t, p, "recalc"))
  <2>1. New(p) \in SUBSET Node /\ IsFiniteSet(New(p))
    BY <1>3, PulseAssumption, FS_Subset
  <2>2. New(p) \cap ChildrenIn(t, p, "recalc") = {}
    BY <1>3 DEF ChildrenIn
  <2>3. ListsOnce(t.kids[p]["recalc"], ChildrenIn(t, p, "recalc"))
    BY <1>6, ListNames
  <2> QED
    BY <2>1, <2>2, <2>3, SetToSeqLists, ConcatLists
<1>9. kids \in [Node -> [Lists -> Seq(Node)]]
  <2>1. ASSUME NEW p \in Node, NEW k \in Lists
        PROVE  (IF k = "recalc" THEN SetToSeq(New(p)) \o t.kids[p][k]
                ELSE Without(t.kids[p][k], moved)) \in Seq(Node)
    <3>1. CASE k = "recalc"
      <4>1. SetToSeq(New(p)) \o t.kids[p]["recalc"] \in Seq(Node)
        BY <1>8, ListsOnceFacts
      <4> QED
        BY <4>1, <3>1
    <3>2. CASE k # "recalc"
      <4>1. Without(t.kids[p][k], moved) \in Seq(Node)
        BY <3>2, <1>7 DEF ListsOnce
      <4> QED
        BY <4>1, <3>2
    <3> QED
      BY <3>1, <3>2
  <2> HIDE DEF New
  <2> QED
    BY <2>1
<1> HIDE DEF kids, list
<1>10. u \in TreeType /\ u.list = list /\ u.kids = kids /\ Relisted(t, u)
  BY <1>1, <1>4, <1>5, <1>9 DEF TreeType, Relisted
<1>11. \A n \in Node : u.list[n] = IF n \in moved THEN "recalc" ELSE t.list[n]
  BY <1>10 DEF list
<1>12. ASSUME NEW n \in Node, u.list[n] # "none"
       PROVE  u.parent[n] # NoNode
  BY <1>3, <1>10, <1>11, <1>12 DEF Linked, Relisted
<1>13. ASSUME NEW p \in Node, NEW k \in Lists
       PROVE  ListsOnce(u.kids[p][k], ChildrenIn(u, p, k))
  <2>1. CASE k = "recalc"
    <3>1. u.kids[p][k] = SetToSeq(New(p)) \o t.kids[p]["recalc"]
      BY <1>10, <2>1 DEF kids
    <3>2. ChildrenIn(u, p, k) = New(p) \cup ChildrenIn(t, p, "recalc")
      BY <1>3, <1>10, <1>11, <2>1 DEF ChildrenIn, Relisted
    <3> QED
      BY <3>1, <3>2, <1>8
  <2>2. CASE k # "recalc"
    <3>1. u.kids[p][k] = Without(t.kids[p][k], moved)
      BY <1>10, <2>2 DEF kids
    <3>2. ChildrenIn(u, p, k) = ChildrenIn(t, p, k) \ moved
      BY <1>3, <1>10, <1>11, <2>2 DEF ChildrenIn, Relisted
    <3> QED
      BY <3>1, <3>2, <1>7, <2>2
  <2> QED
    BY <2>1, <2>2
<1>14. ASSUME NEW p \in Node
       PROVE  InOrder(u.agg, u.kids[p]["scheduled"], N)
  <2>1. u.kids[p]["scheduled"] = Without(t.kids[p]["scheduled"], moved)
    BY <1>10, ListNames DEF kids
  <2>2. InOrder(t.agg, t.kids[p]["scheduled"], N)
    BY DEF Ordered
  <2>3. ListsOnce(t.kids[p]["scheduled"], ChildrenIn(t, p, "scheduled"))
    BY <1>6, ListNames
  <2>4. InOrder(t.agg, Without(t.kids[p]["scheduled"], moved), N \cup moved)
    BY <2>2, <2>3, WithoutLists
  <2> QED
    BY <2>1, <2>4, <1>10 DEF InOrder, Relisted
<1>15. Linked(u)
  BY <1>10, <1>12, <1>13 DEF Linked
<1>16. Ordered(u, N)
  BY <1>14 DEF Ordered
<1> QED
  BY <1>10, <1>15, <1>16 DEF list
(* ReschedulePulseChild() to a list that does not climb: only c moves, and *)
(* a change of its time is taken in.                                       *)
LEMMA RescheduleLinked ==
  ASSUME NEW t, NEW c \in Node, NEW which \in {"scheduled", "unscheduled", "none"},
         Linked(t), Ordered(t, Node \ {c}), t.parent[c] # NoNode
  PROVE  LET u == ReschedulePulseChild(t, c, which) IN
         /\ Relisted(t, u)
         /\ \A x \in Node : u.list[x] = IF x = c THEN which ELSE t.list[x]
         /\ Linked(u) /\ Ordered(u, Node)
<1>1. t \in TreeType
  BY DEF Linked
<1>2. /\ t.parent \in [Node -> Node \cup {NoNode}]
      /\ t.list \in [Node -> Lists \cup {"none"}]
      /\ t.kids \in [Node -> [Lists -> Seq(Node)]]
      /\ t.agg \in [Node -> Times]
  BY <1>1, TreeFields
<1> PICK p : p = t.parent[c]
  OBVIOUS
<1>3. p \in Node
  BY <1>2
<1>4. ASSUME NEW q \in Node, NEW k \in Lists
      PROVE  ListsOnce(t.kids[q][k], ChildrenIn(t, q, k))
  BY DEF Linked
<1>5. ASSUME NEW q \in Node, c \notin ChildrenIn(t, q, "scheduled")
      PROVE  InOrder(t.agg, t.kids[q]["scheduled"], Node)
  <2>1. \A i \in 1 .. Len(t.kids[q]["scheduled"]) : t.kids[q]["scheduled"][i] # c
    <3>1. ListsOnce(t.kids[q]["scheduled"], ChildrenIn(t, q, "scheduled"))
      BY <1>4, ListNames
    <3> QED
      BY <3>1, <1>5, ListsOnceFacts
  <2>2. InOrder(t.agg, t.kids[q]["scheduled"], Node \ {c})
    BY DEF Ordered
  <2> QED
    BY <2>1, <2>2 DEF InOrder
<1>6. CASE which = t.list[c] /\ which # "scheduled"
  <2>1. ReschedulePulseChild(t, c, which) = t
    BY <1>6 DEF ReschedulePulseChild
  <2>2. \A x \in Node : t.list[x] = IF x = c THEN which ELSE t.list[x]
    BY <1>2, <1>6
  <2>3. Ordered(t, Node)
    <3>1. \A q \in Node : c \notin ChildrenIn(t, q, "scheduled")
      BY <1>6 DEF ChildrenIn
    <3> QED
      BY <3>1, <1>5 DEF Ordered
  <2> QED
    BY <1>1, <2>1, <2>2, <2>3 DEF Relisted
<1>7. CASE ~ (which = t.list[c] /\ which # "scheduled")
  <2> PICK u : u = ReschedulePulseChild(t, c, which)
    OBVIOUS
  <2> DEFINE rest(k) == Without(t.kids[p][k], {c})
             new(k) == IF k # which THEN rest(k)
                       ELSE IF k = "scheduled" THEN Sorted(t, rest(k), c)
                       ELSE <<c>> \o rest(k)
             now_p == [k \in Lists |-> new(k)]
             list == [t.list EXCEPT ![c] = which]
             kids == [t.kids EXCEPT ![p] = now_p]
  <2>1. u = [t EXCEPT !.list = list, !.kids = kids]
    BY <1>1, <1>7, ListNames DEF ReschedulePulseChild, TreeType
  <2>2. ASSUME NEW k \in Lists
        PROVE  ListsOnce(rest(k), ChildrenIn(t, p, k) \ {c})
    <3>1. InOrder(t.agg, t.kids[p][k], {})
      BY DEF InOrder
    <3> QED
      BY <1>3, <1>4, <3>1, WithoutLists
  <2>3. InOrder(t.agg, rest("scheduled"), Node)
    <3>1. InOrder(t.agg, t.kids[p]["scheduled"], Node \ {c})
      BY <1>3 DEF Ordered
    <3>2. ListsOnce(t.kids[p]["scheduled"], ChildrenIn(t, p, "scheduled"))
      BY <1>3, <1>4, ListNames
    <3>3. InOrder(t.agg, rest("scheduled"), (Node \ {c}) \cup {c})
      BY <3>1, <3>2, WithoutLists
    <3>4. (Node \ {c}) \cup {c} = Node
      OBVIOUS
    <3> QED
      BY <3>3, <3>4
  <2> HIDE DEF rest
  <2>4. /\ ListsOnce(Sorted(t, rest("scheduled"), c),
                     (ChildrenIn(t, p, "scheduled") \ {c}) \cup {c})
        /\ InOrder(t.agg, Sorted(t, rest("scheduled"), c), Node)
    <3>1. ListsOnce(rest("scheduled"), ChildrenIn(t, p, "scheduled") \ {c})
      BY <2>2, ListNames
    <3>2. c \notin ChildrenIn(t, p, "scheduled") \ {c}
      OBVIOUS
    <3> QED
      BY <3>1, <3>2, <2>3, <1>2, SortedLists
  <2>5. ASSUME NEW k \in Lists
        PROVE  ListsOnce(<<c>> \o rest(k), {c} \cup (ChildrenIn(t, p, k) \ {c}))
    <3>1. ListsOnce(<<c>>, {c})
      <4>1. <<c>> \in Seq(Node) /\ Len(<<c>>) = 1 /\ <<c>>[1] = c /\ 1 .. 1 = {1}
        OBVIOUS
      <4> QED
        BY <4>1, ListsOnceIntro
    <3>2. {c} \cap (ChildrenIn(t, p, k) \ {c}) = {}
      OBVIOUS
    <3> QED
      BY <3>1, <3>2, <2>2, ConcatLists
  <2>6. ASSUME NEW k \in Lists
        PROVE  ListsOnce(new(k), IF k = which THEN ChildrenIn(t, p, k) \cup {c}
                                 ELSE ChildrenIn(t, p, k) \ {c})
    <3>1. CASE k # which
      BY <3>1, <2>2
    <3>2. CASE k = which /\ k = "scheduled"
      <4>1. (ChildrenIn(t, p, k) \ {c}) \cup {c} = ChildrenIn(t, p, k) \cup {c}
        OBVIOUS
      <4> QED
        BY <3>2, <4>1, <2>4
    <3>3. CASE k = which /\ k # "scheduled"
      <4>1. {c} \cup (ChildrenIn(t, p, k) \ {c}) = ChildrenIn(t, p, k) \cup {c}
        OBVIOUS
      <4>2. ListsOnce(<<c>> \o rest(k), ChildrenIn(t, p, k) \cup {c})
        BY <4>1, <2>5
      <4> QED
        BY <3>3, <4>2
    <3> QED
      BY <3>1, <3>2, <3>3
  <2>7. InOrder(t.agg, new("scheduled"), Node)
    BY <2>3, <2>4
  <2> HIDE DEF new
  <2>8. now_p \in [Lists -> Seq(Node)]
    BY <2>6 DEF ListsOnce
  <2>9. list \in [Node -> Lists \cup {"none"}] /\ kids \in [Node -> [Lists -> Seq(Node)]]
    BY <2>8, <1>2, ListNames
  <2>10. /\ \A q \in Node : \A k \in Lists :
              kids[q][k] = IF q = p THEN new(k) ELSE t.kids[q][k]
         /\ \A n \in Node : list[n] = IF n = c THEN which ELSE t.list[n]
    BY <1>2
  <2> HIDE DEF list, kids, now_p
  <2>11. u.list = list /\ u.kids = kids /\ Relisted(t, u) /\ u \in TreeType
    BY <1>1, <2>1, <2>9 DEF TreeType, Relisted
  <2>12. ASSUME NEW n \in Node, u.list[n] # "none" PROVE u.parent[n] # NoNode
    BY <2>10, <2>11, <2>12 DEF Linked, Relisted
  <2>13. ASSUME NEW q \in Node, NEW k \in Lists
         PROVE  ListsOnce(u.kids[q][k], ChildrenIn(u, q, k))
    <3>1. CASE q # p
      <4>1. ChildrenIn(u, q, k) = ChildrenIn(t, q, k)
        BY <2>10, <2>11, <3>1 DEF ChildrenIn, Relisted
      <4> QED
        BY <4>1, <3>1, <2>10, <2>11, <1>4
    <3>2. CASE q = p
      <4>1. ChildrenIn(u, q, k) = IF k = which THEN ChildrenIn(t, p, k) \cup {c}
                                  ELSE ChildrenIn(t, p, k) \ {c}
        BY <2>10, <2>11, <3>2 DEF ChildrenIn, Relisted
      <4>2. u.kids[q][k] = new(k)
        BY <2>10, <2>11, <3>2
      <4> QED
        BY <4>1, <4>2, <2>6
    <3> QED
      BY <3>1, <3>2
  <2>14. ASSUME NEW q \in Node
         PROVE  InOrder(u.agg, u.kids[q]["scheduled"], Node)
    <3>1. CASE q # p
      <4>1. c \notin ChildrenIn(t, q, "scheduled")
        BY <3>1 DEF ChildrenIn
      <4>2. u.kids[q]["scheduled"] = t.kids[q]["scheduled"] /\ u.agg = t.agg
        BY <3>1, <2>10, <2>11, ListNames DEF Relisted
      <4> QED
        BY <4>1, <4>2, <1>5
    <3>2. CASE q = p
      <4>1. u.kids[q]["scheduled"] = new("scheduled") /\ u.agg = t.agg
        BY <3>2, <2>10, <2>11, ListNames DEF Relisted
      <4> QED
        BY <4>1, <2>7
    <3> QED
      BY <3>1, <3>2
  <2>15. Linked(u)
    BY <2>11, <2>12, <2>13 DEF Linked
  <2>16. Ordered(u, Node)
    BY <2>14 DEF Ordered
  <2> QED
    BY <2>10, <2>11, <2>15, <2>16
<1> QED
  BY <1>6, <1>7

(* A tree in which n and those above it are to be recalculated             *)
RecalculatedFrom(t, u, n) ==
  /\ Relisted(t, u)
  /\ u.list = [m \in Node |-> IF m \in ToRecalc(t, n) THEN "recalc" ELSE t.list[m]]

LEMMA RecalculateLinked ==
  ASSUME NEW t, NEW n \in Node, NEW N, Linked(t), Ordered(t, N)
  PROVE  LET u == Recalculate(t, n) IN
         /\ RecalculatedFrom(t, u, n) /\ Linked(u) /\ Ordered(u, N)
         /\ t.parent[n] # NoNode => u = ReschedulePulseChild(t, n, "recalc")
<1>1. t \in TreeType /\ t.list \in [Node -> Lists \cup {"none"}]
  BY TreeFields DEF Linked
<1>2. CASE t.parent[n] = NoNode \/ t.list[n] = "recalc"
  <2>1. Recalculate(t, n) = t
    BY <1>2 DEF Recalculate, ReschedulePulseChild
  <2>2. ToRecalc(t, n) = {}
    BY <1>2 DEF ToRecalc
  <2>3. t.list = [m \in Node |-> IF m \in ToRecalc(t, n) THEN "recalc" ELSE t.list[m]]
    BY <1>1, <2>2
  <2> QED
    BY <1>1, <2>1, <2>3 DEF RecalculatedFrom, Relisted, Recalculate
<1>3. CASE ~ (t.parent[n] = NoNode \/ t.list[n] = "recalc")
  <2>1. Recalculate(t, n) = MoveToRecalc(t, n)
    BY <1>3 DEF Recalculate, ReschedulePulseChild
  <2> QED
    BY <1>3, <2>1, MoveToRecalcLinked DEF RecalculatedFrom, Recalculate
<1> QED
  BY <1>2, <1>3
(* The list of a node says nothing of its parent's time or validity.       *)
LEMMA ListsKept ==
  ASSUME NEW t, NEW u \in TreeType, NEW N, Linked(t), Ordered(t, N),
         u.parent = t.parent, u.list = t.list, u.kids = t.kids, u.agg = t.agg
  PROVE  Linked(u) /\ Ordered(u, N) /\ (Listed(t) => Listed(u))
<1>1. \A p, k : ChildrenIn(u, p, k) = ChildrenIn(t, p, k)
  BY DEF ChildrenIn
<1> QED
  BY <1>1 DEF Linked, Ordered, Listed

(* The children C, all of p, have left.                                    *)
Gone(t, g, C) ==
  /\ g \in TreeType
  /\ g.parent = [n \in Node |-> IF n \in C THEN NoNode ELSE t.parent[n]]
  /\ g.list = [n \in Node |-> IF n \in C THEN "none" ELSE t.list[n]]
  /\ g.valid = [n \in Node |-> t.valid[n] /\ n \notin C]
  /\ g.sched = t.sched /\ g.agg = t.agg

(* Their parent is recalculated unless another child comes first.          *)
Removed(t, u, C, p) ==
  \E g : /\ Gone(t, g, C)
         /\ \/ C # {} /\ RecalculatedFrom(g, u, p)
            \/ /\ u = g
               /\ \/ \A c \in C : t.list[c] # "scheduled"
                  \/ \E h \in ChildrenIn(t, p, "scheduled") \ C :
                       \A c \in ChildrenIn(t, p, "scheduled") : t.agg[h] <= t.agg[c]

(* The head of the scheduled list is the earliest.                         *)
LEMMA HeadIsEarliest ==
  ASSUME NEW t, ListsOK(t), NEW p \in Node, t.kids[p]["scheduled"] # <<>>
  PROVE  LET h == Head(t.kids[p]["scheduled"]) IN
         /\ h \in ChildrenIn(t, p, "scheduled")
         /\ \A c \in ChildrenIn(t, p, "scheduled") : t.agg[h] <= t.agg[c]
<1> PICK s : s = t.kids[p]["scheduled"]
  OBVIOUS
<1> PICK S : S = ChildrenIn(t, p, "scheduled")
  OBVIOUS
<1>1. ListsOnce(s, S) /\ Head(s) \in S /\ Head(s) = s[1] /\ 1 \in 1 .. Len(s)
  BY ListNames, LinkedFacts DEF ListsOK
<1>2. InOrder(t.agg, s, Node)
  BY DEF ListsOK, Ordered
<1>3. ASSUME NEW c \in S PROVE t.agg[Head(s)] <= t.agg[c]
  <2>1. PICK i \in 1 .. Len(s) : s[i] = c
    BY <1>1, ListsOnceFacts
  <2>2. s[1] \in Node /\ s[i] \in Node /\ 1 <= i
    BY <1>1, ListsOnceFacts
  <2> QED
    BY <1>1, <1>2, <2>1, <2>2 DEF InOrder
<1> QED
  BY <1>1, <1>3

(* Whether a node is recalculated or not, the lists stay right.            *)
LEMMA RecalculateOK ==
  ASSUME NEW t, NEW n \in Node, ListsOK(t)
  PROVE  LET u == Recalculate(t, n) IN RecalculatedFrom(t, u, n) /\ ListsOK(u)
<1> PICK u : u = Recalculate(t, n)
  OBVIOUS
<1>1. RecalculatedFrom(t, u, n) /\ Linked(u) /\ Ordered(u, Node)
  BY RecalculateLinked DEF ListsOK
<1>2. Listed(u)
  BY <1>1 DEF ListsOK, Listed, RecalculatedFrom, Relisted
<1> QED
  BY <1>1, <1>2 DEF ListsOK

LEMMA RemoveOK ==
  ASSUME NEW t, NEW c \in Node, ListsOK(t), t.parent[c] # NoNode
  PROVE  LET u == RemovePulseChild(t, c) IN
         Removed(t, u, {c}, t.parent[c]) /\ ListsOK(u)
<1>1. t \in TreeType
  BY DEF ListsOK, Linked
<1>2. /\ t.parent \in [Node -> Node \cup {NoNode}]
      /\ t.list \in [Node -> Lists \cup {"none"}]
      /\ t.valid \in [Node -> BOOLEAN]
  BY <1>1, TreeFields
<1> PICK p : p = t.parent[c]
  OBVIOUS
<1>3. p \in Node
  BY <1>2
<1> PICK r : r = ReschedulePulseChild(t, c, "none")
  OBVIOUS
<1>4. /\ Relisted(t, r)
      /\ \A x \in Node : r.list[x] = IF x = c THEN "none" ELSE t.list[x]
      /\ Linked(r) /\ Ordered(r, Node)
  <2>1. Linked(t) /\ Ordered(t, Node \ {c})
    BY DEF ListsOK, Ordered, InOrder
  <2> QED
    BY <2>1, RescheduleLinked
<1> PICK g : g = [r EXCEPT !.parent[c] = NoNode, !.valid[c] = FALSE]
  OBVIOUS
<1>5. /\ g \in TreeType /\ g.list = r.list /\ g.kids = r.kids /\ g.sched = r.sched
      /\ g.agg = r.agg
      /\ g.parent = [r.parent EXCEPT ![c] = NoNode]
      /\ g.valid = [r.valid EXCEPT ![c] = FALSE]
  BY <1>4 DEF Relisted, TreeType
<1>6. Gone(t, g, {c})
  <2>1. g.parent = [n \in Node |-> IF n \in {c} THEN NoNode ELSE t.parent[n]]
    BY <1>2, <1>4, <1>5 DEF Relisted
  <2>2. g.list = [n \in Node |-> IF n \in {c} THEN "none" ELSE t.list[n]]
    <3>1. g.list \in [Node -> Lists \cup {"none"}]
      BY <1>5, TreeFields
    <3> QED
      BY <3>1, <1>4, <1>5
  <2>3. g.valid = [n \in Node |-> t.valid[n] /\ n \notin {c}]
    <3>1. \A n \in Node : t.valid[n] \in BOOLEAN
      BY <1>2
    <3>2. ASSUME NEW n \in Node
          PROVE  g.valid[n] = (t.valid[n] /\ n \notin {c})
      <4> PICK old : old = t.valid
        OBVIOUS
      <4>1. g.valid = [old EXCEPT ![c] = FALSE] /\ DOMAIN old = Node
        BY <1>2, <1>4, <1>5 DEF Relisted
      <4>2. old[n] = TRUE \/ old[n] = FALSE
        BY <3>1
      <4>3. CASE n = c
        <5>1. g.valid[n] = FALSE
          BY <4>1, <4>3, Zenon
        <5> QED
          BY <5>1, <4>3
      <4>4. CASE n # c
        <5>1. g.valid[n] = old[n]
          BY <4>1, <4>4, Zenon
        <5> QED
          BY <5>1, <4>2, <4>4
      <4> QED
        BY <4>3, <4>4
    <3>3. g.valid \in [Node -> BOOLEAN]
      BY <1>5, TreeFields
    <3> QED
      BY <3>2, <3>3
  <2> QED
    BY <1>4, <1>5, <2>1, <2>2, <2>3 DEF Gone, Relisted
<1>7. ListsOK(g)
  <2>1. ASSUME NEW q \in Node, NEW k \in Lists
        PROVE  ChildrenIn(g, q, k) = ChildrenIn(r, q, k)
    BY <1>2, <1>4, <1>5, ListNames DEF ChildrenIn, Relisted
  <2>2. \A q \in Node : \A k \in Lists : ListsOnce(g.kids[q][k], ChildrenIn(g, q, k))
    BY <1>4, <1>5, <2>1 DEF Linked
  <2>3. \A n \in Node : g.list[n] # "none" <=> g.parent[n] # NoNode
    BY <1>6 DEF Gone, ListsOK, Linked, Listed
  <2>4. Ordered(g, Node)
    BY <1>4, <1>5 DEF Ordered
  <2> QED
    BY <1>5, <2>2, <2>3, <2>4 DEF ListsOK, Linked, Listed
<1> PICK u : u = RemovePulseChild(t, c)
  OBVIOUS
<1> DEFINE s == t.kids[p]["scheduled"]
<1>8. u = IF s # <<>> /\ Head(s) = c THEN Recalculate(g, p) ELSE g
  BY DEF RemovePulseChild
<1>9. CASE s # <<>> /\ Head(s) = c
  <2>1. u = Recalculate(g, p)
    BY <1>8, <1>9
  <2>2. RecalculatedFrom(g, u, p) /\ ListsOK(u)
    BY <2>1, <1>3, <1>7, RecalculateOK
  <2> QED
    BY <2>2, <1>6 DEF Removed
<1>10. CASE ~ (s # <<>> /\ Head(s) = c)
  <2>1. u = g
    BY <1>8, <1>10
  <2>2. CASE t.list[c] # "scheduled"
    BY <2>1, <2>2, <1>6, <1>7 DEF Removed
  <2>3. CASE t.list[c] = "scheduled"
    <3>1. c \in ChildrenIn(t, p, "scheduled")
      BY <2>3 DEF ChildrenIn
    <3>2. s # <<>>
      BY <3>1, <1>3, ListNames, LinkedFacts DEF ListsOK
    <3>3. /\ Head(s) \in ChildrenIn(t, p, "scheduled")
          /\ \A d \in ChildrenIn(t, p, "scheduled") : t.agg[Head(s)] <= t.agg[d]
      BY <3>2, <1>3, HeadIsEarliest
    <3>4. Head(s) \in ChildrenIn(t, p, "scheduled") \ {c}
      BY <3>2, <3>3, <1>10
    <3> QED
      BY <2>1, <3>3, <3>4, <1>6, <1>7 DEF Removed
  <2> QED
    BY <2>2, <2>3
<1> QED
  BY <1>9, <1>10

LEMMA ClearOK ==
  ASSUME NEW t, NEW p \in Node, ListsOK(t)
  PROVE  LET u == ClearPulseChildren(t, p) IN
         Removed(t, u, {c \in Node : t.parent[c] = p}, p) /\ ListsOK(u)
<1>1. t \in TreeType
  BY DEF ListsOK, Linked
<1>2. /\ t.parent \in [Node -> Node \cup {NoNode}]
      /\ t.list \in [Node -> Lists \cup {"none"}]
      /\ t.kids \in [Node -> [Lists -> Seq(Node)]]
      /\ t.valid \in [Node -> BOOLEAN]
  BY <1>1, TreeFields
<1> PICK C : C = {c \in Node : t.parent[c] = p}
  OBVIOUS
<1> DEFINE parent == [n \in Node |-> IF n \in C THEN NoNode ELSE t.parent[n]]
           valid == [n \in Node |-> t.valid[n] /\ n \notin C]
           list == [n \in Node |-> IF n \in C THEN "none" ELSE t.list[n]]
           kids == [t.kids EXCEPT ![p] = [k \in Lists |-> <<>>]]
<1> PICK g : g = [t EXCEPT !.parent = parent, !.valid = valid, !.list = list,
                           !.kids = kids]
  OBVIOUS
<1>3. /\ parent \in [Node -> Node \cup {NoNode}]
      /\ list \in [Node -> Lists \cup {"none"}]
      /\ valid \in [Node -> BOOLEAN]
  BY <1>2
<1>4. kids \in [Node -> [Lists -> Seq(Node)]]
  BY <1>2
<1>5. /\ \A q \in Node : \A k \in Lists :
           kids[q][k] = IF q = p THEN <<>> ELSE t.kids[q][k]
      /\ \A n \in Node : parent[n] = IF n \in C THEN NoNode ELSE t.parent[n]
      /\ \A n \in Node : list[n] = IF n \in C THEN "none" ELSE t.list[n]
  BY <1>2
<1> PICK u : u = ClearPulseChildren(t, p)
  OBVIOUS
<1>6. u = IF t.kids[p]["scheduled"] = <<>> THEN g ELSE Recalculate(g, p)
  BY <1>1 DEF ClearPulseChildren, TreeType
<1>7. Gone(t, g, C)
  <2> HIDE DEF parent, valid, list, kids
  <2>1. /\ g \in TreeType /\ g.parent = parent /\ g.list = list /\ g.valid = valid
        /\ g.sched = t.sched /\ g.agg = t.agg
    BY <1>1, <1>3, <1>4 DEF TreeType
  <2> QED
    BY <2>1 DEF Gone, parent, list, valid
<1>8. g.kids = kids
  BY <1>1 DEF TreeType
<1> HIDE DEF parent, valid, list, kids
<1>9. ListsOK(g)
  <2>1. ASSUME NEW q \in Node, NEW k \in Lists
        PROVE  ListsOnce(g.kids[q][k], ChildrenIn(g, q, k))
    <3>1. CASE q = p
      <4>1. g.kids[q][k] = <<>>
        BY <3>1, <1>5, <1>8
      <4>2. ChildrenIn(g, q, k) = {}
        BY <3>1, <1>7, PulseAssumption DEF Gone, ChildrenIn
      <4> QED
        BY <4>1, <4>2, EmptyListsOnce
    <3>2. CASE q # p
      <4>1. g.kids[q][k] = t.kids[q][k]
        BY <3>2, <1>5, <1>8
      <4>2. ChildrenIn(g, q, k) = ChildrenIn(t, q, k)
        BY <3>2, <1>7, PulseAssumption, ListNames DEF Gone, ChildrenIn
      <4> QED
        BY <4>1, <4>2 DEF ListsOK, Linked
    <3> QED
      BY <3>1, <3>2
  <2>2. \A n \in Node : g.list[n] # "none" <=> g.parent[n] # NoNode
    BY <1>7 DEF Gone, ListsOK, Linked, Listed
  <2>3. ASSUME NEW q \in Node
        PROVE  InOrder(g.agg, g.kids[q]["scheduled"], Node)
    <3>1. CASE q = p
      <4>1. g.kids[q]["scheduled"] = <<>> /\ 1 .. Len(<<>>) = {}
        BY <3>1, <1>5, <1>8, ListNames
      <4> QED
        BY <4>1 DEF InOrder
    <3>2. CASE q # p
      <4>1. g.kids[q]["scheduled"] = t.kids[q]["scheduled"] /\ g.agg = t.agg
        BY <3>2, <1>5, <1>7, <1>8, ListNames DEF Gone
      <4> QED
        BY <4>1 DEF ListsOK, Ordered
    <3> QED
      BY <3>1, <3>2
  <2> QED
    BY <1>7, <2>1, <2>2, <2>3 DEF ListsOK, Linked, Listed, Ordered, Gone
<1>10. CASE t.kids[p]["scheduled"] = <<>>
  <2>1. \A c \in C : t.list[c] # "scheduled"
    <3>1. ChildrenIn(t, p, "scheduled") = {}
      BY <1>10, ListNames, LinkedFacts DEF ListsOK
    <3> QED
      BY <3>1 DEF ChildrenIn
  <2> QED
    BY <2>1, <1>6, <1>7, <1>9, <1>10 DEF Removed
<1>11. CASE t.kids[p]["scheduled"] # <<>>
  <2>1. RecalculatedFrom(g, u, p) /\ ListsOK(u)
    BY <1>6, <1>9, <1>11, RecalculateOK
  <2>2. C # {}
    <3>1. Linked(t)
      BY DEF ListsOK
    <3>2. ChildrenIn(t, p, "scheduled") # {}
      BY <1>11, <3>1, ListNames, LinkedFacts
    <3> QED
      BY <3>2 DEF ChildrenIn
  <2> QED
    BY <2>1, <2>2, <1>7 DEF Removed
<1> QED
  BY <1>10, <1>11
(* The fields of a tree that lost the children C                           *)
LEMMA RemovedFields ==
  ASSUME NEW t \in TreeType, NEW u, NEW C \in SUBSET Node, NEW p \in Node,
         Removed(t, u, C, p)
  PROVE  /\ u \in TreeType
         /\ \A n \in Node : u.parent[n] = IF n \in C THEN NoNode ELSE t.parent[n]
         /\ \A n \in Node : u.valid[n] <=> t.valid[n] /\ n \notin C
         /\ u.sched = t.sched /\ u.agg = t.agg
         /\ \A n \in C : u.list[n] = "none"
         /\ \A n \in Node \ C : u.list[n] = "recalc" \/ u.list[n] = t.list[n]
<1>1. PICK g : Gone(t, g, C) /\ (RecalculatedFrom(g, u, p) \/ u = g)
  BY DEF Removed
<1>2. CASE u = g
  BY <1>1, <1>2 DEF Gone
<1>3. CASE RecalculatedFrom(g, u, p)
  <2>1. \A n \in C : n \notin ToRecalc(g, p)
    BY <1>1, ToRecalcFacts DEF Gone
  <2>2. \A n \in C : u.list[n] = "none"
    BY <2>1, <1>1, <1>3 DEF Gone, RecalculatedFrom
  <2>3. \A n \in Node \ C : u.list[n] = "recalc" \/ u.list[n] = t.list[n]
    BY <1>1, <1>3 DEF Gone, RecalculatedFrom
  <2>4. /\ u \in TreeType /\ u.parent = g.parent /\ u.valid = g.valid
        /\ u.sched = t.sched /\ u.agg = t.agg
    BY <1>1, <1>3 DEF Gone, RecalculatedFrom, Relisted
  <2>5. \A n \in Node : u.parent[n] = IF n \in C THEN NoNode ELSE t.parent[n]
    BY <2>4, <1>1 DEF Gone
  <2>6. \A n \in Node : u.valid[n] <=> t.valid[n] /\ n \notin C
    BY <2>4, <1>1 DEF Gone
  <2> QED
    BY <2>2, <2>3, <2>4, <2>5, <2>6
<1> QED
  BY <1>1, <1>2, <1>3

(* The node c, which had none, gets the parent p.                          *)
Attached(f, m, p, c) ==
  /\ m \in TreeType
  /\ f.parent[c] = NoNode /\ f.list[c] = "none"
  /\ m.parent = [f.parent EXCEPT ![c] = p]
  /\ m.list = f.list /\ m.sched = f.sched /\ m.valid = f.valid /\ m.agg = f.agg

(* PutPulseChild(): taken from its parent, given the new one, recalculated *)
Put(t, u, p, c) ==
  \E f, m : /\ \/ t.parent[c] = NoNode /\ f = t
               \/ t.parent[c] # NoNode /\ Removed(t, f, {c}, t.parent[c])
            /\ Attached(f, m, p, c) /\ RecalculatedFrom(m, u, c)

LEMMA PutOK ==
  ASSUME NEW t, NEW p \in Node, NEW c \in Node, ListsOK(t)
  PROVE  LET u == PutPulseChild(t, p, c) IN Put(t, u, p, c) /\ ListsOK(u)
<1>1. t \in TreeType /\ t.parent \in [Node -> Node \cup {NoNode}]
  BY TreeFields DEF ListsOK, Linked
<1> PICK f : f = IF t.parent[c] = NoNode THEN t ELSE RemovePulseChild(t, c)
  OBVIOUS
<1>2. /\ ListsOK(f) /\ f.parent[c] = NoNode
      /\ \/ t.parent[c] = NoNode /\ f = t
         \/ t.parent[c] # NoNode /\ Removed(t, f, {c}, t.parent[c])
  <2>1. CASE t.parent[c] = NoNode
    BY <2>1
  <2>2. CASE t.parent[c] # NoNode
    <3>1. Removed(t, f, {c}, t.parent[c]) /\ ListsOK(f)
      BY <2>2, RemoveOK
    <3> PICK q : q = t.parent[c]
      OBVIOUS
    <3>2. q \in Node /\ {c} \in SUBSET Node /\ Removed(t, f, {c}, q)
      BY <2>2, <3>1, <1>1
    <3>3. \A n \in Node : f.parent[n] = IF n \in {c} THEN NoNode ELSE t.parent[n]
      BY <3>2, <1>1, RemovedFields
    <3> QED
      BY <3>1, <3>3, <2>2
  <2> QED
    BY <2>1, <2>2
<1>3. /\ f \in TreeType /\ f.parent \in [Node -> Node \cup {NoNode}]
      /\ f.list \in [Node -> Lists \cup {"none"}]
  BY <1>2, TreeFields DEF ListsOK, Linked
<1>4. f.list[c] = "none"
  BY <1>2 DEF ListsOK, Linked
<1> PICK m : m = [f EXCEPT !.parent[c] = p]
  OBVIOUS
<1>5. /\ m \in TreeType /\ m.parent = [f.parent EXCEPT ![c] = p]
      /\ m.list = f.list /\ m.sched = f.sched /\ m.valid = f.valid /\ m.agg = f.agg
      /\ m.kids = f.kids
  BY <1>3 DEF TreeType
<1>6. Attached(f, m, p, c)
  BY <1>2, <1>4, <1>5 DEF Attached
<1>7. Linked(m) /\ Ordered(m, Node)
  <2>1. \A q \in Node : \A k \in Lists : ChildrenIn(m, q, k) = ChildrenIn(f, q, k)
    BY <1>3, <1>4, <1>5, ListNames DEF ChildrenIn
  <2>2. \A n \in Node : m.list[n] # "none" => m.parent[n] # NoNode
    BY <1>2, <1>3, <1>4, <1>5 DEF ListsOK, Linked
  <2>3. Linked(m)
    BY <1>2, <1>5, <2>1, <2>2 DEF Linked, ListsOK
  <2> QED
    BY <2>3, <1>2, <1>5 DEF ListsOK, Ordered
<1>8. m.parent[c] # NoNode
  BY <1>3, <1>5, PulseAssumption
<1> PICK u : u = PutPulseChild(t, p, c)
  OBVIOUS
<1>9. u = ReschedulePulseChild(m, c, "recalc")
  BY DEF PutPulseChild
<1>10. RecalculatedFrom(m, u, c) /\ Linked(u) /\ Ordered(u, Node)
  <2>1. u = Recalculate(m, c)
    BY <1>8, <1>9 DEF Recalculate
  <2> QED
    BY <2>1, <1>7, RecalculateLinked
<1>11. Listed(u)
  <2>1. c \in ToRecalc(m, c)
    BY <1>4, <1>5, <1>8, ToRecalcFacts
  <2>2. ASSUME NEW n \in Node, u.parent[n] # NoNode
        PROVE  u.list[n] # "none"
    <3>1. CASE n = c
      BY <3>1, <2>1, <1>10 DEF RecalculatedFrom
    <3>2. CASE n # c
      <4>1. f.parent[n] # NoNode
        BY <3>2, <2>2, <1>3, <1>5, <1>10 DEF RecalculatedFrom, Relisted
      <4> QED
        BY <4>1, <1>2, <1>5, <1>10 DEF RecalculatedFrom, ListsOK, Listed
    <3> QED
      BY <3>1, <3>2
  <2> QED
    BY <2>2 DEF Listed
<1> QED
  BY <1>2, <1>6, <1>10, <1>11 DEF Put, ListsOK

(* InvalidatePulseTime(): a node that was valid is recalculated.           *)
Invalidated(t, u, n) ==
  \E m : /\ m \in TreeType
         /\ m.parent = t.parent /\ m.list = t.list /\ m.agg = t.agg
         /\ m.valid = [x \in Node |-> t.valid[x] /\ x # n]
         /\ \A x \in Node : m.sched[x] = t.sched[x] \/ (x = n /\ m.sched[x] = Never)
         /\ \/ t.valid[n] /\ RecalculatedFrom(m, u, n)
            \/ ~ t.valid[n] /\ u = m

LEMMA InvalidateOK ==
  ASSUME NEW t, NEW n \in Node, NEW clear \in BOOLEAN, ListsOK(t)
  PROVE  LET u == InvalidatePulseTime(t, n, clear) IN Invalidated(t, u, n) /\ ListsOK(u)
<1>1. t \in TreeType /\ t.sched \in [Node -> Times] /\ t.valid \in [Node -> BOOLEAN]
  BY TreeFields DEF ListsOK, Linked
<1> PICK t1 : t1 = [t EXCEPT !.sched[n] = IF clear THEN Never ELSE @]
  OBVIOUS
<1>2. Never \in Times
  BY PulseAssumption DEF Times, Never
<1>3. /\ t1 \in TreeType /\ t1.parent = t.parent /\ t1.list = t.list
      /\ t1.agg = t.agg /\ t1.valid = t.valid /\ t1.kids = t.kids
      /\ t1.sched = [t.sched EXCEPT ![n] = IF clear THEN Never ELSE t.sched[n]]
  BY <1>1, <1>2 DEF TreeType
<1>4. \A x \in Node : t1.sched[x] = t.sched[x] \/ (x = n /\ t1.sched[x] = Never)
  <2> PICK new, old : new = t1.sched /\ old = t.sched
    OBVIOUS
  <2>1. DOMAIN old = Node
    BY <1>1
  <2>2. new = [old EXCEPT ![n] = IF clear THEN Never ELSE old[n]]
    BY <1>3
  <2>3. ASSUME NEW x \in Node PROVE new[x] = old[x] \/ (x = n /\ new[x] = Never)
    <3>1. CASE x # n
      BY <2>1, <2>2, <3>1, Zenon
    <3>2. CASE x = n /\ clear
      BY <2>1, <2>2, <3>2, Zenon
    <3>3. CASE x = n /\ ~ clear
      BY <2>1, <2>2, <3>3, Zenon
    <3> QED
      BY <3>1, <3>2, <3>3
  <2> QED
    BY <2>3
<1>5. ListsOK(t1)
  BY <1>3, ListsKept DEF ListsOK
<1> PICK u : u = InvalidatePulseTime(t, n, clear)
  OBVIOUS
<1>6. CASE ~ t.valid[n]
  <2>1. u = t1
    BY <1>6 DEF InvalidatePulseTime
  <2>2. t1.valid = [x \in Node |-> t.valid[x] /\ x # n]
    <3>1. ASSUME NEW x \in Node
          PROVE  t.valid[x] = (t.valid[x] /\ x # n)
      <4>1. t.valid[x] = TRUE \/ t.valid[x] = FALSE
        BY <1>1
      <4> QED
        BY <4>1, <1>6
    <3> QED
      BY <3>1, <1>1, <1>3
  <2> QED
    BY <2>1, <2>2, <1>3, <1>4, <1>5, <1>6 DEF Invalidated
<1>7. CASE t.valid[n]
  <2> PICK m : m = [t1 EXCEPT !.valid[n] = FALSE]
    OBVIOUS
  <2>1. u = Recalculate(m, n)
    BY <1>7 DEF InvalidatePulseTime
  <2>2. /\ m \in TreeType /\ m.parent = t.parent /\ m.list = t.list
        /\ m.agg = t.agg /\ m.kids = t.kids /\ m.sched = t1.sched
    BY <1>3 DEF TreeType
  <2>3. m.valid = [x \in Node |-> t.valid[x] /\ x # n]
    <3> PICK old : old = t.valid
      OBVIOUS
    <3>1. m.valid = [old EXCEPT ![n] = FALSE] /\ DOMAIN old = Node
      BY <1>1, <1>3 DEF TreeType
    <3>2. ASSUME NEW x \in Node
          PROVE  m.valid[x] = (old[x] /\ x # n)
      <4>1. old[x] = TRUE \/ old[x] = FALSE
        BY <1>1
      <4>2. CASE x = n
        <5>1. m.valid[x] = FALSE
          BY <3>1, <4>2, Zenon
        <5> QED
          BY <5>1, <4>2
      <4>3. CASE x # n
        <5>1. m.valid[x] = old[x]
          BY <3>1, <4>3, Zenon
        <5> QED
          BY <5>1, <4>1, <4>3
      <4> QED
        BY <4>2, <4>3
    <3>3. m.valid \in [Node -> BOOLEAN]
      BY <2>2, TreeFields
    <3> QED
      BY <3>2, <3>3
  <2>4. ListsOK(m)
    BY <2>2, ListsKept DEF ListsOK
  <2>5. RecalculatedFrom(m, u, n) /\ ListsOK(u)
    BY <2>1, <2>4, RecalculateOK
  <2>6. \A x \in Node : m.sched[x] = t.sched[x] \/ (x = n /\ m.sched[x] = Never)
    BY <2>2, <1>4
  <2> HIDE DEF Never
  <2>7. Invalidated(t, u, n)
    BY <2>2, <2>3, <2>5, <2>6, <1>7 DEF Invalidated
  <2> QED
    BY <2>5, <2>7
<1> QED
  BY <1>6, <1>7
(* GetPulseTimeAux() returns: n has its new time, and its new place.       *)
Returned(t, u, n) ==
  LET a == Aggregate(t, n) IN
  /\ u \in TreeType
  /\ u.parent = t.parent /\ u.sched = t.sched /\ u.valid = t.valid
  /\ \A x \in Node : u.agg[x] = IF x = n THEN a ELSE t.agg[x]
  /\ \/ /\ t.parent[n] = NoNode \/ (t.list[n] # "recalc" /\ a = t.agg[n])
        /\ u.list = t.list
     \/ /\ t.parent[n] # NoNode
        /\ \A x \in Node :
             u.list[x] = IF x = n THEN IF a = Never THEN "unscheduled" ELSE "scheduled"
                         ELSE t.list[x]

LEMMA AggregateType ==
  ASSUME NEW t, ListsOK(t), NEW n \in Node
  PROVE  Aggregate(t, n) \in Times
<1>1. t.agg \in [Node -> Times] /\ t.sched \in [Node -> Times]
  BY TreeFields DEF ListsOK, Linked
<1>2. Never \in Times
  BY PulseAssumption DEF Never, Times
<1> DEFINE s == t.kids[n]["scheduled"]
<1>3. s # <<>> => Head(s) \in Node
  <2>1. Linked(t)
    BY DEF ListsOK
  <2>2. s # <<>> => Head(s) \in ChildrenIn(t, n, "scheduled")
    BY <2>1, ListNames, LinkedFacts
  <2> QED
    BY <2>2 DEF ChildrenIn
<1>4. (IF s = <<>> THEN Never ELSE t.agg[Head(s)]) \in Times
  BY <1>1, <1>2, <1>3
<1>5. t.sched[n] \in Times
  BY <1>1
<1> HIDE DEF s
<1>6. Aggregate(t, n) = Earlier(t.sched[n], IF s = <<>> THEN Never ELSE t.agg[Head(s)])
  BY DEF Aggregate, s
<1> QED
  BY <1>4, <1>5, <1>6 DEF Earlier

LEMMA ReturnedOK ==
  ASSUME NEW t, NEW n \in Node, ListsOK(t)
  PROVE  LET a == Aggregate(t, n)
             m == [t EXCEPT !.agg[n] = a]
             u == IF m.parent[n] # NoNode
                     /\ (m.list[n] = "recalc" \/ a # t.agg[n])
                  THEN ReschedulePulseChild(m, n, IF a = Never THEN "unscheduled"
                                                               ELSE "scheduled")
                  ELSE m IN
         Returned(t, u, n) /\ ListsOK(u)
<1>1. /\ t \in TreeType /\ t.agg \in [Node -> Times]
      /\ t.list \in [Node -> Lists \cup {"none"}]
  BY TreeFields DEF ListsOK, Linked
<1> PICK a : a = Aggregate(t, n)
  OBVIOUS
<1>2. a \in Times
  BY AggregateType
<1>m. PICK m : m = [t EXCEPT !.agg[n] = a]
  OBVIOUS
<1>3. /\ m \in TreeType /\ m.parent = t.parent /\ m.list = t.list
      /\ m.sched = t.sched /\ m.valid = t.valid /\ m.kids = t.kids
      /\ m.agg = [t.agg EXCEPT ![n] = a]
  BY <1>1, <1>2, <1>m DEF TreeType
<1>4. Linked(m) /\ Listed(m)
  <2>1. \A p, k : ChildrenIn(m, p, k) = ChildrenIn(t, p, k)
    BY <1>3 DEF ChildrenIn
  <2> QED
    BY <1>3, <2>1 DEF ListsOK, Linked, Listed
<1>5. ASSUME NEW p \in Node
      PROVE  InOrder(m.agg, m.kids[p]["scheduled"], Node \ {n})
  <2>1. \A x \in Node \ {n} : m.agg[x] = t.agg[x]
    BY <1>1, <1>3
  <2>2. InOrder(t.agg, t.kids[p]["scheduled"], Node)
    BY DEF ListsOK, Ordered
  <2> QED
    BY <2>1, <2>2, <1>3 DEF InOrder
<1>6. Ordered(m, Node \ {n})
  BY <1>5 DEF Ordered
<1> DEFINE which == IF a = Never THEN "unscheduled" ELSE "scheduled"
           u == IF m.parent[n] # NoNode /\ (m.list[n] = "recalc" \/ a # t.agg[n])
                THEN ReschedulePulseChild(m, n, which) ELSE m
<1>7. CASE m.parent[n] # NoNode /\ (m.list[n] = "recalc" \/ a # t.agg[n])
  <2>1. u = ReschedulePulseChild(m, n, which)
    BY <1>7
  <2>2. which \in {"scheduled", "unscheduled", "none"}
    OBVIOUS
  <2> HIDE DEF which, u
  <2>3. /\ Relisted(m, u) /\ Linked(u) /\ Ordered(u, Node)
        /\ \A x \in Node : u.list[x] = IF x = n THEN which ELSE m.list[x]
    BY <2>1, <2>2, <1>4, <1>6, <1>7, RescheduleLinked
  <2>4. Listed(u)
    <3>1. which # "none"
      BY DEF which
    <3> QED
      BY <2>3, <3>1, <1>1, <1>3, <1>4 DEF Listed, Relisted
  <2>5. Returned(t, u, n)
    <3>1. /\ u \in TreeType /\ u.parent = t.parent /\ u.sched = t.sched
          /\ u.valid = t.valid /\ t.parent[n] # NoNode
          /\ \A x \in Node : u.agg[x] = IF x = n THEN a ELSE t.agg[x]
          /\ \A x \in Node : u.list[x] = IF x = n THEN which ELSE t.list[x]
      BY <2>3, <1>1, <1>3, <1>7 DEF Relisted
    <3> QED
      BY <3>1 DEF Returned, which
  <2> QED
    BY <2>3, <2>4, <2>5, <1>m DEF ListsOK, u, which
<1>8. CASE ~ (m.parent[n] # NoNode /\ (m.list[n] = "recalc" \/ a # t.agg[n]))
  <2>1. u = m
    BY <1>8
  <2>2. t.parent[n] = NoNode \/ (t.list[n] # "recalc" /\ a = t.agg[n])
    BY <1>3, <1>8
  <2>3. Returned(t, m, n)
    <3>1. \A x \in Node : m.agg[x] = IF x = n THEN a ELSE t.agg[x]
      BY <1>1, <1>3
    <3> QED
      BY <3>1, <1>3, <2>2 DEF Returned
  <2>4. Ordered(m, Node)
    <3>1. CASE a = t.agg[n]
      <4>1. m.agg = t.agg
        BY <1>1, <1>3, <3>1
      <4> QED
        BY <4>1, <1>3 DEF ListsOK, Ordered
    <3>2. CASE t.parent[n] = NoNode
      <4>1. ASSUME NEW p \in Node PROVE InOrder(m.agg, m.kids[p]["scheduled"], Node)
        <5>1. ListsOnce(m.kids[p]["scheduled"], ChildrenIn(m, p, "scheduled"))
          BY <1>4, ListNames DEF Linked
        <5>2. n \notin ChildrenIn(m, p, "scheduled")
          BY <3>2, <1>3, PulseAssumption DEF ChildrenIn
        <5>3. \A i \in 1 .. Len(m.kids[p]["scheduled"]) :
                m.kids[p]["scheduled"][i] # n
          BY <5>1, <5>2, ListsOnceFacts
        <5> QED
          BY <5>3, <1>5 DEF InOrder
      <4> QED
        BY <4>1 DEF Ordered
    <3> QED
      BY <2>2, <3>1, <3>2
  <2> QED
    BY <2>1, <2>3, <2>4, <1>4, <1>m DEF ListsOK
<1> QED
  BY <1>7, <1>8

-----------------------------------------------------------------------------
(***************************************************************************)
(* The stack                                                               *)
(***************************************************************************)

LEMMA TopFacts ==
  ASSUME NEW s \in Seq(Call), s # <<>>
  PROVE  /\ Head(s) = s[1] /\ Head(s) \in Call /\ Len(s) \in Nat
         /\ Len(s) >= 1 /\ 1 \in 1 .. Len(s)
         /\ Head(s).node \in Node /\ Head(s).pc \in {"callback", "kids"}
<1>1. Len(s) \in Nat /\ Len(s) # 0 /\ Head(s) = s[1]
  OBVIOUS
<1>2. 1 \in 1 .. Len(s) /\ s[1] \in Call
  BY <1>1
<1> QED
  BY <1>1, <1>2 DEF Call

(* A call is made.                                                         *)
LEMMA PushFacts ==
  ASSUME NEW s \in Seq(Call), NEW x \in Call
  PROVE  /\ <<x>> \o s \in Seq(Call) /\ Len(<<x>> \o s) = Len(s) + 1
         /\ <<x>> \o s # <<>>
         /\ (<<x>> \o s)[1] = x
         /\ \A i \in 1 .. Len(s) : (<<x>> \o s)[i + 1] = s[i]
<1>1. <<x>> \in Seq(Call) /\ Len(<<x>>) = 1 /\ <<x>>[1] = x /\ Len(s) \in Nat
  OBVIOUS
<1> PICK new : new = <<x>> \o s
  OBVIOUS
<1>2. new \in Seq(Call) /\ Len(new) = 1 + Len(s)
  BY <1>1, ConcatProperties
<1>3. \A i \in 1 .. Len(new) : new[i] = IF i <= 1 THEN <<x>>[i] ELSE s[i - 1]
  BY <1>1, <1>2, ConcatProperties
<1>4. 1 \in 1 .. Len(new) /\ new[1] = x
  BY <1>1, <1>2, <1>3
<1>5. ASSUME NEW i \in 1 .. Len(s) PROVE new[i + 1] = s[i]
  <2>1. i + 1 \in 1 .. Len(new) /\ ~ (i + 1 <= 1) /\ (i + 1) - 1 = i
    BY <1>1, <1>2
  <2> QED
    BY <2>1, <1>3
<1>6. new # <<>>
  BY <1>1, <1>2
<1> QED
  BY <1>1, <1>2, <1>4, <1>5, <1>6

(* The innermost call returns.                                             *)
LEMMA PopFacts ==
  ASSUME NEW s \in Seq(Call), s # <<>>
  PROVE  /\ Tail(s) \in Seq(Call) /\ Len(Tail(s)) = Len(s) - 1
         /\ Tail(s) = <<>> <=> Len(s) = 1
         /\ \A i \in 1 .. Len(s) - 1 : Tail(s)[i] = s[i + 1]
<1>1. Len(s) \in Nat /\ Len(s) # 0
  OBVIOUS
<1>2. Tail(s) \in Seq(Call) /\ Len(Tail(s)) = Len(s) - 1
  BY <1>1
<1>3. \A i \in 1 .. Len(s) - 1 : Tail(s)[i] = s[i + 1]
  BY <1>1
<1>4. Tail(s) = <<>> <=> Len(Tail(s)) = 0
  BY <1>2
<1> QED
  BY <1>1, <1>2, <1>3, <1>4

(* The innermost call comes back from its callback.                        *)
LEMMA KidsFacts ==
  ASSUME NEW s \in Seq(Call), s # <<>>
  PROVE  LET new == [s EXCEPT ![1].pc = "kids"] IN
         /\ new \in Seq(Call) /\ Len(new) = Len(s) /\ new # <<>>
         /\ new[1] = [node |-> s[1].node, pc |-> "kids"]
         /\ \A i \in 2 .. Len(s) : new[i] = s[i]
         /\ \A i \in 1 .. Len(s) : new[i].node = s[i].node
<1>1. Len(s) \in Nat /\ Len(s) # 0 /\ 1 \in 1 .. Len(s) /\ DOMAIN s = 1 .. Len(s)
  OBVIOUS
<1>2. s[1] \in Call
  BY <1>1
<1> DEFINE x == [node |-> s[1].node, pc |-> "kids"]
<1>3. [s[1] EXCEPT !.pc = "kids"] = x /\ x \in Call
  BY <1>2 DEF Call
<1> PICK new : new = [s EXCEPT ![1].pc = "kids"]
  OBVIOUS
<1>4. new = [s EXCEPT ![1] = x]
  BY <1>3
<1> HIDE DEF x
<1>5. new \in Seq(Call) /\ Len(new) = Len(s) /\ new[1] = x
  BY <1>1, <1>3, <1>4
<1>6. \A i \in 2 .. Len(s) : new[i] = s[i]
  BY <1>1, <1>4
<1>7. ASSUME NEW i \in 1 .. Len(s) PROVE new[i].node = s[i].node
  <2>1. CASE i = 1
    BY <2>1, <1>5 DEF x
  <2>2. CASE i # 1
    <3>1. i \in 2 .. Len(s)
      BY <2>2, <1>1
    <3> QED
      BY <3>1, <1>6
  <2> QED
    BY <2>1, <2>2
<1>8. new # <<>>
  BY <1>1, <1>5
<1> QED
  BY <1>5, <1>6, <1>7, <1>8 DEF x
-----------------------------------------------------------------------------
(***************************************************************************)
(* The lists and the loop                                                  *)
(***************************************************************************)

ListsInv == ListsOK(tree) /\ LoopOK

(* The time and validity of a node are not in the lists.                   *)
LEMMA SetValidOK ==
  ASSUME NEW t, NEW n \in Node, NEW b \in BOOLEAN, ListsOK(t)
  PROVE  LET u == [t EXCEPT !.valid[n] = b] IN
         /\ ListsOK(u) /\ u \in TreeType
         /\ u.parent = t.parent /\ u.list = t.list /\ u.sched = t.sched
         /\ u.agg = t.agg
         /\ u.valid[n] <=> b
         /\ \A x \in Node \ {n} : u.valid[x] <=> t.valid[x]
<1>1. t \in TreeType /\ t.valid \in [Node -> BOOLEAN]
  BY TreeFields DEF ListsOK, Linked
<1>u. PICK u : u = [t EXCEPT !.valid[n] = b]
  OBVIOUS
<1>2. /\ u \in TreeType /\ u.parent = t.parent /\ u.list = t.list
      /\ u.sched = t.sched /\ u.agg = t.agg /\ u.kids = t.kids
      /\ u.valid = [t.valid EXCEPT ![n] = b]
  BY <1>1, <1>u DEF TreeType
<1>3. ListsOK(u)
  BY <1>2, ListsKept DEF ListsOK
<1>4. ASSUME NEW x \in Node PROVE u.valid[x] <=> IF x = n THEN b ELSE t.valid[x]
  <2> PICK old, new : old = t.valid /\ new = u.valid
    OBVIOUS
  <2>1. new = [old EXCEPT ![n] = b] /\ DOMAIN old = Node
    BY <1>1, <1>2
  <2>2. CASE x = n
    <3>1. new[x] = b
      BY <2>1, <2>2, Zenon
    <3> QED
      BY <3>1, <2>2
  <2>3. CASE x # n
    <3>1. new[x] = old[x]
      BY <2>1, <2>3, Zenon
    <3> QED
      BY <3>1, <2>3
  <2> QED
    BY <2>2, <2>3
<1> QED
  BY <1>2, <1>3, <1>4, <1>u

LEMMA SetSchedOK ==
  ASSUME NEW t, NEW n \in Node, NEW time \in Times, ListsOK(t)
  PROVE  LET u == [t EXCEPT !.sched[n] = time] IN
         /\ ListsOK(u) /\ u \in TreeType
         /\ u.parent = t.parent /\ u.list = t.list /\ u.valid = t.valid
         /\ u.agg = t.agg
         /\ \A x \in Node : u.sched[x] = IF x = n THEN time ELSE t.sched[x]
<1>1. t \in TreeType /\ t.sched \in [Node -> Times]
  BY TreeFields DEF ListsOK, Linked
<1>u. PICK u : u = [t EXCEPT !.sched[n] = time]
  OBVIOUS
<1>2. /\ u \in TreeType /\ u.parent = t.parent /\ u.list = t.list
      /\ u.valid = t.valid /\ u.agg = t.agg /\ u.kids = t.kids
      /\ u.sched = [t.sched EXCEPT ![n] = time]
  BY <1>1, <1>u DEF TreeType
<1>3. ListsOK(u)
  BY <1>2, ListsKept DEF ListsOK
<1>4. \A x \in Node : u.sched[x] = IF x = n THEN time ELSE t.sched[x]
  BY <1>1, <1>2
<1> QED
  BY <1>2, <1>3, <1>4, <1>u

(* The nodes that the loop calls                                           *)
LEMMA RootFacts ==
  /\ Len(RootSeq) \in Nat
  /\ \A i \in 1 .. Len(RootSeq) : RootSeq[i] \in Node /\ RootSeq[i] \in Roots
  /\ Roots \subseteq Node
  /\ \A r \in Roots : \E i \in 1 .. Len(RootSeq) : RootSeq[i] = r
BY PulseAssumption DEF Roots, ToSet

LEMMA EarlierType ==
  ASSUME NEW s \in Times, NEW t \in Times
  PROVE  /\ Earlier(s, t) \in Times /\ Earlier(s, t) <= s /\ Earlier(s, t) <= t
         /\ Earlier(s, t) \in {s, t}
<1>1. s \in Nat /\ t \in Nat
  BY PulseAssumption DEF Times, Never
<1> QED
  BY <1>1 DEF Earlier

LEMMA ListsInit == Init => ListsInv
<1>1. SUFFICES ASSUME Init PROVE ListsInv
  OBVIOUS
<1>2. Never \in Times /\ 0 \in 0 .. MaxTime /\ 0 \in 0 .. MaxCalls
  BY PulseAssumption DEF Never, Times
<1>3. <<>> \in Seq(Node) /\ <<>> \in Seq(Call) /\ Len(<<>>) = 0
  OBVIOUS
<1>4. tree \in TreeType
  <2>1. [n \in Node |-> [k \in Lists |-> <<>>]] \in [Node -> [Lists -> Seq(Node)]]
    BY <1>3
  <2> QED
    BY <1>1, <1>2, <2>1 DEF Init, TreeType
<1>5. \A n \in Node : tree.parent[n] = NoNode /\ tree.list[n] = "none"
  BY <1>1 DEF Init
<1>6. \A p \in Node : \A k \in Lists : tree.kids[p][k] = <<>>
  BY <1>1 DEF Init
<1>7. \A p \in Node : \A k \in Lists : ChildrenIn(tree, p, k) = {}
  BY <1>5, PulseAssumption DEF ChildrenIn
<1>8. Linked(tree) /\ Listed(tree)
  BY <1>4, <1>5, <1>6, <1>7, EmptyListsOnce DEF Linked, Listed
<1>9. Ordered(tree, Node)
  <2>1. \A p \in Node : tree.kids[p]["scheduled"] = <<>>
    BY <1>6, ListNames
  <2>2. 1 .. Len(<<>>) = {}
    BY <1>3
  <2> QED
    BY <2>1, <2>2 DEF Ordered, InOrder
<1>10. LoopOK
  <2>1. pos \in 1 .. Len(RootSeq) + 1 /\ 2 .. Len(stack) = {}
    BY <1>1, <1>3, RootFacts DEF Init
  <2> QED
    BY <1>1, <1>2, <1>3, <2>1 DEF LoopOK, Init
<1> QED
  BY <1>8, <1>9, <1>10 DEF ListsInv, ListsOK

(* The loop's own variables, in a step that only changes the tree          *)
LEMMA LoopKept ==
  ASSUME LoopOK, UNCHANGED <<phase, pos, stack, now, min>>, calls' \in 0 .. MaxCalls
  PROVE  LoopOK'
BY DEF LoopOK

LEMMA CallsType ==
  ASSUME LoopOK, calls < MaxCalls, calls' = calls + 1
  PROVE  calls' \in 0 .. MaxCalls
BY PulseAssumption DEF LoopOK

(* A call is made by the loop, or by the call that visits its children.    *)
LEMMA LoopPush ==
  ASSUME LoopOK, NEW x \in Call, stack' = <<x>> \o stack,
         phase \in {"recalc", "handle"}, pos <= Len(RootSeq),
         \/ stack = <<>> /\ x.node = RootSeq[pos]
         \/ stack # <<>> /\ Top.pc = "kids",
         UNCHANGED <<phase, pos, now, min, calls>>
  PROVE  LoopOK'
<1>1. stack \in Seq(Call) /\ Len(stack) \in Nat
  BY DEF LoopOK
<1>2. /\ stack' \in Seq(Call) /\ Len(stack') = Len(stack) + 1 /\ stack' # <<>>
      /\ stack'[1] = x
      /\ \A i \in 1 .. Len(stack) : stack'[i + 1] = stack[i]
  BY <1>1, PushFacts
<1>3. ASSUME NEW i \in 2 .. Len(stack')
      PROVE  stack'[i].pc = "kids"
  <2>1. i - 1 \in 1 .. Len(stack) /\ (i - 1) + 1 = i
    BY <1>1, <1>2
  <2>2. stack'[i] = stack[i - 1]
    BY <2>1, <1>2
  <2>3. stack # <<>>
    BY <2>1, <1>1
  <2>4. stack[1].pc = "kids"
    BY <2>3, <1>1, TopFacts DEF Top
  <2>5. i - 1 = 1 \/ i - 1 \in 2 .. Len(stack)
    BY <2>1
  <2> QED
    BY <2>2, <2>4, <2>5 DEF LoopOK
<1>4. stack'[Len(stack')].node = RootSeq[pos]
  <2>1. CASE stack = <<>>
    <3>1. Len(stack) = 0
      BY <2>1
    <3> QED
      BY <2>1, <3>1, <1>2
  <2>2. CASE stack # <<>>
    <3>1. Len(stack) \in 1 .. Len(stack)
      BY <2>2, <1>1
    <3>2. stack'[Len(stack) + 1] = stack[Len(stack)]
      BY <3>1, <1>2
    <3> QED
      BY <2>2, <3>2, <1>2 DEF LoopOK
  <2> QED
    BY <2>1, <2>2
<1>5. phase # "wait"
  OBVIOUS
<1> QED
  BY <1>2, <1>3, <1>4, <1>5 DEF LoopOK

(* The innermost call returns.                                             *)
LEMMA LoopPop ==
  ASSUME LoopOK, stack # <<>>, stack' = Tail(stack), pos' = NextRoot(Tail(stack)),
         min' \in Times, UNCHANGED <<phase, now, calls>>
  PROVE  LoopOK'
<1>1. /\ stack \in Seq(Call) /\ Len(stack) \in Nat
      /\ pos \in 1 .. Len(RootSeq) + 1 /\ pos <= Len(RootSeq)
      /\ stack[Len(stack)].node = RootSeq[pos] /\ phase \in {"recalc", "handle"}
  BY DEF LoopOK
<1>2. /\ stack' \in Seq(Call) /\ Len(stack') = Len(stack) - 1
      /\ stack' = <<>> <=> Len(stack) = 1
      /\ \A i \in 1 .. Len(stack) - 1 : stack'[i] = stack[i + 1]
  BY <1>1, PopFacts
<1>3. Len(stack) >= 1
  BY <1>1
<1>4. ASSUME NEW i \in 2 .. Len(stack') PROVE stack'[i].pc = "kids"
  <2>1. i \in 1 .. Len(stack) - 1 /\ i + 1 \in 2 .. Len(stack)
    BY <1>1, <1>2
  <2> QED
    BY <2>1, <1>2 DEF LoopOK
<1>5. pos' \in 1 .. Len(RootSeq) + 1 /\ (stack' # <<>> => pos' = pos)
  BY <1>1, RootFacts DEF NextRoot
<1>6. ASSUME stack' # <<>> PROVE stack'[Len(stack')].node = RootSeq[pos']
  <2>1. Len(stack) - 1 \in 1 .. Len(stack) - 1 /\ (Len(stack) - 1) + 1 = Len(stack)
    BY <1>1, <1>2, <1>3, <1>6
  <2>2. stack'[Len(stack) - 1] = stack[Len(stack)]
    BY <2>1, <1>2
  <2> QED
    BY <2>2, <1>1, <1>2, <1>5, <1>6
<1> QED
  BY <1>1, <1>2, <1>4, <1>5, <1>6 DEF LoopOK

(* The innermost call comes back from its callback.                        *)
LEMMA LoopKids ==
  ASSUME LoopOK, stack # <<>>, stack' = [stack EXCEPT ![1].pc = "kids"],
         UNCHANGED <<phase, pos, now, min, calls>>
  PROVE  LoopOK'
<1>1. stack \in Seq(Call) /\ Len(stack) \in Nat
  BY DEF LoopOK
<1>2. /\ stack' \in Seq(Call) /\ Len(stack') = Len(stack) /\ stack' # <<>>
      /\ \A i \in 2 .. Len(stack) : stack'[i] = stack[i]
      /\ \A i \in 1 .. Len(stack) : stack'[i].node = stack[i].node
  BY <1>1, KidsFacts
<1>3. Len(stack) \in 1 .. Len(stack)
  BY <1>1
<1> QED
  BY <1>2, <1>3 DEF LoopOK
(* What the steps on the tree do, in terms of the operations               *)
LEMMA SetupStep ==
  ASSUME ListsInv, NEW p \in Node, NEW c \in Node, Setup(p, c)
  PROVE  ListsInv' /\ Put(tree, tree', p, c)
<1>1. Put(tree, tree', p, c) /\ ListsOK(tree')
  BY PutOK DEF Setup, ListsInv
<1>2. LoopOK'
  BY LoopKept DEF Setup, ListsInv, LoopOK
<1> QED
  BY <1>1, <1>2 DEF ListsInv

LEMMA AttachStep ==
  ASSUME ListsInv, NEW p \in Node, NEW c \in Node, Attach(p, c)
  PROVE  ListsInv' /\ Put(tree, tree', p, c)
<1>1. Put(tree, tree', p, c) /\ ListsOK(tree')
  BY PutOK DEF Attach, ListsInv
<1>2. LoopOK'
  BY LoopKept, CallsType DEF Attach, UserRuns, ListsInv
<1> QED
  BY <1>1, <1>2 DEF ListsInv

LEMMA InvalidateStep ==
  ASSUME ListsInv, NEW n \in Node, NEW clear \in BOOLEAN, Invalidate(n, clear)
  PROVE  ListsInv' /\ Invalidated(tree, tree', n)
<1>1. Invalidated(tree, tree', n) /\ ListsOK(tree')
  BY InvalidateOK DEF Invalidate, ListsInv
<1>2. LoopOK'
  BY LoopKept, CallsType DEF Invalidate, UserRuns, ListsInv
<1> QED
  BY <1>1, <1>2 DEF ListsInv

LEMMA DetachStep ==
  ASSUME ListsInv, NEW c \in Node, Detach(c)
  PROVE  ListsInv' /\ Removed(tree, tree', {c}, tree.parent[c])
<1>1. Removed(tree, tree', {c}, tree.parent[c]) /\ ListsOK(tree')
  BY RemoveOK DEF Detach, ListsInv
<1>2. LoopOK'
  BY LoopKept, CallsType DEF Detach, UserRuns, ListsInv
<1> QED
  BY <1>1, <1>2 DEF ListsInv

LEMMA DetachAllStep ==
  ASSUME ListsInv, NEW p \in Node, DetachAll(p)
  PROVE  ListsInv' /\ Removed(tree, tree', {c \in Node : tree.parent[c] = p}, p)
<1>1. Removed(tree, tree', {c \in Node : tree.parent[c] = p}, p) /\ ListsOK(tree')
  BY ClearOK DEF DetachAll, ListsInv
<1>2. LoopOK'
  BY LoopKept, CallsType DEF DetachAll, UserRuns, ListsInv
<1> QED
  BY <1>1, <1>2 DEF ListsInv

(* GetPulseTimeAux() is called on n, and makes it valid.                   *)
LEMMA EnterGetPulseTimeAuxStep ==
  ASSUME ListsInv, NEW n \in Node, EnterGetPulseTimeAux(n),
         phase = "recalc", pos <= Len(RootSeq),
         \/ stack = <<>> /\ n = RootSeq[pos]
         \/ stack # <<>> /\ Top.pc = "kids"
  PROVE  /\ ListsInv'
         /\ tree'.parent = tree.parent /\ tree'.list = tree.list
         /\ tree'.sched = tree.sched /\ tree'.agg = tree.agg
         /\ \A x \in Node : tree'.valid[x] <=> x = n \/ tree.valid[x]
         /\ \E x \in Call : /\ x.node = n /\ stack' = <<x>> \o stack
                            /\ x.pc = IF tree.valid[n] THEN "kids" ELSE "callback"
<1>1. /\ ListsOK(tree')
      /\ tree'.parent = tree.parent /\ tree'.list = tree.list
      /\ tree'.sched = tree.sched /\ tree'.agg = tree.agg
      /\ tree'.valid[n] /\ \A x \in Node \ {n} : tree'.valid[x] <=> tree.valid[x]
  BY SetValidOK DEF EnterGetPulseTimeAux, ListsInv
<1> DEFINE x == [node |-> n, pc |-> IF tree.valid[n] THEN "kids" ELSE "callback"]
<1>2. /\ x \in Call /\ stack' = <<x>> \o stack /\ x.node = n
      /\ x.pc = IF tree.valid[n] THEN "kids" ELSE "callback"
  BY DEF Call, EnterGetPulseTimeAux
<1> HIDE DEF x
<1>3. LoopOK'
  BY <1>2, LoopPush DEF EnterGetPulseTimeAux, ListsInv
<1> QED
  BY <1>1, <1>2, <1>3 DEF ListsInv

(* The node that the loop or the call that is under way calls next         *)
LEMMA CallGetPulseTimeAuxStep ==
  ASSUME ListsInv, CallGetPulseTimeAux
  PROVE  /\ ListsInv' /\ stack = <<>> /\ pos \in 1 .. Len(RootSeq)
         /\ RootSeq[pos] \in Roots /\ RootSeq[pos] \in Node
         /\ tree'.parent = tree.parent /\ tree'.list = tree.list
         /\ tree'.sched = tree.sched /\ tree'.agg = tree.agg
         /\ \A x \in Node : tree'.valid[x] <=> x = RootSeq[pos] \/ tree.valid[x]
         /\ \E x \in Call : /\ x.node = RootSeq[pos] /\ stack' = <<x>> \o stack
                            /\ x.pc = IF tree.valid[RootSeq[pos]] THEN "kids"
                                      ELSE "callback"
<1>1. pos \in 1 .. Len(RootSeq)
  BY RootFacts DEF CallGetPulseTimeAux, ListsInv, LoopOK
<1>2. RootSeq[pos] \in Node /\ RootSeq[pos] \in Roots
  BY <1>1, RootFacts
<1> QED
  BY <1>1, <1>2, EnterGetPulseTimeAuxStep DEF CallGetPulseTimeAux

LEMMA RecalculateKidStep ==
  ASSUME ListsInv, RecalculateKid
  PROVE  \E n \in ChildrenIn(tree, Top.node, "recalc") :
         /\ ListsInv' /\ n \in Node
         /\ tree'.parent = tree.parent /\ tree'.list = tree.list
         /\ tree'.sched = tree.sched /\ tree'.agg = tree.agg
         /\ \A x \in Node : tree'.valid[x] <=> x = n \/ tree.valid[x]
         /\ \E x \in Call : /\ x.node = n /\ stack' = <<x>> \o stack
                            /\ x.pc = IF tree.valid[n] THEN "kids" ELSE "callback"
<1>1. stack # <<>> /\ Top.pc = "kids" /\ tree.kids[Top.node]["recalc"] # <<>>
  BY DEF RecalculateKid
<1>2. Top.node \in Node
  BY <1>1, TopFacts DEF ListsInv, LoopOK, Top
<1> DEFINE n == Head(tree.kids[Top.node]["recalc"])
<1>3. Linked(tree)
  BY DEF ListsInv, ListsOK
<1>4. n \in ChildrenIn(tree, Top.node, "recalc")
  BY <1>1, <1>2, <1>3, ListNames, LinkedFacts
<1>5. n \in Node
  BY <1>4 DEF ChildrenIn
<1>6. pos <= Len(RootSeq)
  BY <1>1 DEF ListsInv, LoopOK
<1>7. EnterGetPulseTimeAux(n) /\ phase = "recalc"
  BY DEF RecalculateKid
<1> HIDE DEF n
<1> QED
  BY <1>1, <1>4, <1>5, <1>6, <1>7, EnterGetPulseTimeAuxStep

LEMMA GetPulseTimeStep ==
  ASSUME ListsInv, NEW t \in Times, GetPulseTime(t)
  PROVE  /\ ListsInv' /\ stack # <<>> /\ Top.node \in Node
         /\ tree'.parent = tree.parent /\ tree'.list = tree.list
         /\ tree'.valid = tree.valid /\ tree'.agg = tree.agg
         /\ \A x \in Node : tree'.sched[x] = IF x = Top.node THEN t ELSE tree.sched[x]
<1>1. stack # <<>> /\ Top.node \in Node
  BY TopFacts DEF GetPulseTime, ListsInv, LoopOK, Top
<1>2. /\ ListsOK(tree')
      /\ tree'.parent = tree.parent /\ tree'.list = tree.list
      /\ tree'.valid = tree.valid /\ tree'.agg = tree.agg
      /\ \A x \in Node : tree'.sched[x] = IF x = Top.node THEN t ELSE tree.sched[x]
  BY <1>1, SetSchedOK DEF GetPulseTime, ListsInv
<1>3. LoopOK'
  BY <1>1, LoopKids DEF GetPulseTime, ListsInv
<1> QED
  BY <1>1, <1>2, <1>3 DEF ListsInv

LEMMA ReturnGetPulseTimeAuxStep ==
  ASSUME ListsInv, ReturnGetPulseTimeAux
  PROVE  /\ ListsInv' /\ stack # <<>> /\ Top.node \in Node
         /\ Returned(tree, tree', Top.node)
         /\ ChildrenIn(tree, Top.node, "recalc") = {}
         /\ min' = Earlier(min, Aggregate(tree, Top.node))
         /\ Aggregate(tree, Top.node) \in Times
<1>1. stack # <<>> /\ Top.node \in Node
  BY TopFacts DEF ReturnGetPulseTimeAux, ListsInv, LoopOK, Top
<1>2. Returned(tree, tree', Top.node) /\ ListsOK(tree')
  BY <1>1, ReturnedOK DEF ReturnGetPulseTimeAux, ListsInv
<1>3. min' = Earlier(min, Aggregate(tree, Top.node))
  BY DEF ReturnGetPulseTimeAux
<1>4. Aggregate(tree, Top.node) \in Times
  BY <1>1, AggregateType DEF ListsInv
<1>5. min' \in Times
  BY <1>3, <1>4, EarlierType DEF ListsInv, LoopOK
<1>6. LoopOK'
  BY <1>1, <1>5, LoopPop DEF ReturnGetPulseTimeAux, ListsInv
<1>7. ChildrenIn(tree, Top.node, "recalc") = {}
  BY <1>1, ListNames, LinkedFacts DEF ReturnGetPulseTimeAux, ListsInv, ListsOK
<1> QED
  BY <1>1, <1>2, <1>3, <1>4, <1>6, <1>7 DEF ListsInv

LEMMA EnterPulseAuxStep ==
  ASSUME ListsInv, NEW n \in Node, EnterPulseAux(n),
         phase = "handle", pos <= Len(RootSeq),
         \/ stack = <<>> /\ n = RootSeq[pos]
         \/ stack # <<>> /\ Top.pc = "kids"
  PROVE  /\ ListsInv'
         /\ \E x \in Call : /\ x.node = n /\ stack' = <<x>> \o stack
                            /\ x.pc = IF tree.valid[n] /\ now >= tree.sched[n]
                                      THEN "callback" ELSE "kids"
<1> DEFINE x == [node |-> n, pc |-> IF tree.valid[n] /\ now >= tree.sched[n]
                                    THEN "callback" ELSE "kids"]
<1>1. /\ x \in Call /\ stack' = <<x>> \o stack /\ x.node = n
      /\ x.pc = IF tree.valid[n] /\ now >= tree.sched[n] THEN "callback" ELSE "kids"
  BY DEF Call, EnterPulseAux
<1> HIDE DEF x
<1>2. LoopOK'
  BY <1>1, LoopPush DEF EnterPulseAux, ListsInv
<1>3. ListsOK(tree')
  BY DEF EnterPulseAux, ListsInv
<1> QED
  BY <1>1, <1>2, <1>3 DEF ListsInv

LEMMA CallPulseAuxStep ==
  ASSUME ListsInv, CallPulseAux
  PROVE  /\ ListsInv' /\ stack = <<>> /\ pos \in 1 .. Len(RootSeq)
         /\ RootSeq[pos] \in Roots /\ RootSeq[pos] \in Node
         /\ \E x \in Call : /\ x.node = RootSeq[pos] /\ stack' = <<x>> \o stack
                            /\ x.pc = IF /\ tree.valid[RootSeq[pos]]
                                         /\ now >= tree.sched[RootSeq[pos]]
                                      THEN "callback" ELSE "kids"
<1>1. pos \in 1 .. Len(RootSeq)
  BY RootFacts DEF CallPulseAux, ListsInv, LoopOK
<1>2. RootSeq[pos] \in Node /\ RootSeq[pos] \in Roots
  BY <1>1, RootFacts
<1> QED
  BY <1>1, <1>2, EnterPulseAuxStep DEF CallPulseAux

LEMMA PulseKidStep ==
  ASSUME ListsInv, PulseKid
  PROVE  \E n \in ChildrenIn(tree, Top.node, "scheduled") :
         /\ ListsInv' /\ n \in Node
         /\ \E x \in Call : /\ x.node = n /\ stack' = <<x>> \o stack
                            /\ x.pc = IF tree.valid[n] /\ now >= tree.sched[n]
                                      THEN "callback" ELSE "kids"
<1>1. stack # <<>> /\ Top.pc = "kids" /\ tree.kids[Top.node]["scheduled"] # <<>>
  BY DEF PulseKid, DueKid
<1>2. Top.node \in Node
  BY <1>1, TopFacts DEF ListsInv, LoopOK, Top
<1> DEFINE n == Head(tree.kids[Top.node]["scheduled"])
<1>3. Linked(tree)
  BY DEF ListsInv, ListsOK
<1>4. n \in ChildrenIn(tree, Top.node, "scheduled")
  BY <1>1, <1>2, <1>3, ListNames, LinkedFacts
<1>5. n \in Node
  BY <1>4 DEF ChildrenIn
<1>6. pos <= Len(RootSeq)
  BY <1>1 DEF ListsInv, LoopOK
<1>7. EnterPulseAux(n) /\ phase = "handle"
  BY DEF PulseKid
<1> HIDE DEF n
<1> QED
  BY <1>1, <1>4, <1>5, <1>6, <1>7, EnterPulseAuxStep

LEMMA PulseStep ==
  ASSUME ListsInv, Pulse
  PROVE  /\ ListsInv' /\ stack # <<>> /\ Top.node \in Node
         /\ tree'.parent = tree.parent /\ tree'.list = tree.list
         /\ tree'.sched = tree.sched /\ tree'.agg = tree.agg
         /\ \A x \in Node : tree'.valid[x] <=> x # Top.node /\ tree.valid[x]
<1>1. stack # <<>> /\ Top.node \in Node
  BY TopFacts DEF Pulse, ListsInv, LoopOK, Top
<1>2. /\ ListsOK(tree')
      /\ tree'.parent = tree.parent /\ tree'.list = tree.list
      /\ tree'.sched = tree.sched /\ tree'.agg = tree.agg
      /\ \A x \in Node : tree'.valid[x] <=> x # Top.node /\ tree.valid[x]
  <2> PICK n \in Node : n = Top.node
    BY <1>1
  <2>b. PICK b \in BOOLEAN : b = FALSE
    OBVIOUS
  <2> DEFINE u == [tree EXCEPT !.valid[n] = b]
  <2>1. ListsOK(tree)
    BY DEF ListsInv
  <2>2. /\ ListsOK(u) /\ u.parent = tree.parent /\ u.list = tree.list
        /\ u.sched = tree.sched /\ u.agg = tree.agg
        /\ (u.valid[n] <=> b)
        /\ \A x \in Node \ {n} : u.valid[x] <=> tree.valid[x]
    BY <2>1, SetValidOK
  <2>3. tree' = u
    BY <2>b DEF Pulse
  <2> HIDE DEF u
  <2>4. ~ u.valid[n]
    BY <2>2, <2>b
  <2> QED
    BY <2>2, <2>3, <2>4
<1>3. LoopOK'
  BY <1>1, LoopKids DEF Pulse, ListsInv
<1> QED
  BY <1>1, <1>2, <1>3 DEF ListsInv

LEMMA ReturnPulseAuxStep ==
  ASSUME ListsInv, ReturnPulseAux
  PROVE  /\ ListsInv' /\ stack # <<>> /\ Top.node \in Node
         /\ RecalculatedFrom(tree, tree', Top.node)
<1>1. stack # <<>> /\ Top.node \in Node
  BY TopFacts DEF ReturnPulseAux, ListsInv, LoopOK, Top
<1>2. RecalculatedFrom(tree, tree', Top.node) /\ ListsOK(tree')
  BY <1>1, RecalculateOK DEF ReturnPulseAux, ListsInv
<1>3. LoopOK'
  BY <1>1, LoopPop DEF ReturnPulseAux, ListsInv, LoopOK
<1> QED
  BY <1>1, <1>2, <1>3 DEF ListsInv
(* The steps of the loop that leave the trees alone                        *)
LEMMA LoopStep ==
  ASSUME ListsInv,
         StartLoop \/ StartWaiting \/ Tick \/ TimeOut \/ SocketEvent
           \/ SkipPulseAux \/ EndCycle \/ UNCHANGED vars
  PROVE  ListsInv' /\ tree' = tree /\ stack' = stack
<1>1. /\ LoopOK /\ Len(RootSeq) \in Nat /\ MaxTime \in Nat /\ Never \in Times
  BY RootFacts, PulseAssumption DEF ListsInv, Never, Times
<1>2. pos > Len(RootSeq) => stack = <<>> /\ pos = Len(RootSeq) + 1
  BY <1>1 DEF LoopOK
<1>3. LoopOK' /\ tree' = tree /\ stack' = stack
  <2>1. CASE StartLoop
    BY <1>1, <2>1 DEF LoopOK, StartLoop
  <2>2. CASE StartWaiting
    BY <1>1, <1>2, <2>2 DEF LoopOK, StartWaiting
  <2>3. CASE Tick
    <3>1. now' \in 0 .. MaxTime
      BY <1>1, <2>3 DEF LoopOK, Tick
    <3> QED
      BY <1>1, <2>3, <3>1 DEF LoopOK, Tick
  <2>4. CASE TimeOut \/ SocketEvent
    <3>1. 1 \in 1 .. Len(RootSeq) + 1 /\ stack = <<>>
      BY <1>1, <2>4 DEF LoopOK, TimeOut, SocketEvent, StopWaiting
    <3> QED
      BY <1>1, <2>4, <3>1 DEF LoopOK, TimeOut, SocketEvent, StopWaiting
  <2>5. CASE SkipPulseAux
    <3>1. pos + 1 \in 1 .. Len(RootSeq) + 1
      BY <1>1, <2>5 DEF LoopOK, SkipPulseAux
    <3> QED
      BY <1>1, <2>5, <3>1 DEF LoopOK, SkipPulseAux
  <2>6. CASE EndCycle
    <3>1. 1 \in 1 .. Len(RootSeq) + 1 /\ stack = <<>>
      BY <1>1, <1>2, <2>6 DEF EndCycle
    <3> QED
      BY <1>1, <2>6, <3>1 DEF LoopOK, EndCycle
  <2>7. CASE UNCHANGED vars
    BY <1>1, <2>7 DEF LoopOK, vars
  <2> QED
    BY <2>1, <2>2, <2>3, <2>4, <2>5, <2>6, <2>7
<1> QED
  BY <1>3 DEF ListsInv

(* The steps, one by one                                                   *)
LEMMA NextCases ==
  ASSUME [Next]_vars
  PROVE  \/ \E p, c \in Node : Setup(p, c)
         \/ \E p, c \in Node : Attach(p, c)
         \/ \E n \in Node, clear \in BOOLEAN : Invalidate(n, clear)
         \/ \E n \in Node : Detach(n)
         \/ \E n \in Node : DetachAll(n)
         \/ CallGetPulseTimeAux
         \/ RecalculateKid
         \/ ReturnGetPulseTimeAux
         \/ \E t \in Times : GetPulseTime(t)
         \/ CallPulseAux
         \/ Pulse
         \/ PulseKid
         \/ ReturnPulseAux
         \/ StartLoop \/ StartWaiting \/ Tick \/ TimeOut \/ SocketEvent
              \/ SkipPulseAux \/ EndCycle \/ UNCHANGED vars
BY DEF Next, UserSteps, LoopSteps

LEMMA ListsStep == ListsInv /\ [Next]_vars => ListsInv'
<1>1. SUFFICES ASSUME ListsInv, [Next]_vars PROVE ListsInv'
  OBVIOUS
<1>2. ASSUME NEW p \in Node, NEW c \in Node, Setup(p, c) PROVE ListsInv'
  BY <1>1, <1>2, SetupStep
<1>3. ASSUME NEW p \in Node, NEW c \in Node, Attach(p, c) PROVE ListsInv'
  BY <1>1, <1>3, AttachStep
<1>4. ASSUME NEW n \in Node, NEW clear \in BOOLEAN, Invalidate(n, clear) PROVE ListsInv'
  BY <1>1, <1>4, InvalidateStep
<1>5. ASSUME NEW n \in Node, Detach(n) PROVE ListsInv'
  BY <1>1, <1>5, DetachStep
<1>6. ASSUME NEW n \in Node, DetachAll(n) PROVE ListsInv'
  BY <1>1, <1>6, DetachAllStep
<1>7. CASE CallGetPulseTimeAux
  BY <1>1, <1>7, CallGetPulseTimeAuxStep
<1>8. CASE RecalculateKid
  BY <1>1, <1>8, RecalculateKidStep
<1>9. CASE ReturnGetPulseTimeAux
  BY <1>1, <1>9, ReturnGetPulseTimeAuxStep
<1>10. ASSUME NEW t \in Times, GetPulseTime(t) PROVE ListsInv'
  BY <1>1, <1>10, GetPulseTimeStep
<1>11. CASE CallPulseAux
  BY <1>1, <1>11, CallPulseAuxStep
<1>12. CASE Pulse
  BY <1>1, <1>12, PulseStep
<1>13. CASE PulseKid
  BY <1>1, <1>13, PulseKidStep
<1>14. CASE ReturnPulseAux
  BY <1>1, <1>14, ReturnPulseAuxStep
<1>15. CASE StartLoop \/ StartWaiting \/ Tick \/ TimeOut \/ SocketEvent
              \/ SkipPulseAux \/ EndCycle \/ UNCHANGED vars
  BY <1>1, <1>15, LoopStep
<1> QED
  BY <1>1, <1>2, <1>3, <1>4, <1>5, <1>6, <1>7, <1>8, <1>9, <1>10, <1>11, <1>12,
     <1>13, <1>14, <1>15, NextCases

LEMMA ListsInvImplies == ListsInv => ListsWellFormed
<1>1. SUFFICES ASSUME ListsInv PROVE ListsWellFormed
  OBVIOUS
<1>2. tree \in TreeType /\ LoopOK /\ ListsOK(tree)
  BY <1>1 DEF ListsInv, ListsOK, Linked
<1>3. PulseTypeOK
  <2>1. \A p \in Node, k \in Lists : tree.kids[p][k] \in Seq(Node)
    BY <1>2, TreeFields
  <2> QED
    BY <1>2, <2>1, TreeFields DEF PulseTypeOK, LoopOK
<1>4. ASSUME NEW p \in Node, NEW k \in Lists, NEW s, s = tree.kids[p][k]
      PROVE  /\ ToSet(s) = {c \in Node : tree.parent[c] = p /\ tree.list[c] = k}
             /\ Cardinality(ToSet(s)) = Len(s)
             /\ k = "scheduled" => \A i, j \in DOMAIN s :
                                     i <= j => tree.agg[s[i]] <= tree.agg[s[j]]
  <2>1. ListsOnce(s, ChildrenIn(tree, p, k))
    BY <1>2, <1>4 DEF ListsOK, Linked
  <2>2. ToSet(s) = ChildrenIn(tree, p, k)
    BY <2>1 DEF ListsOnce
  <2>3. Cardinality(ToSet(s)) = Len(s)
    BY <2>1, <2>2, LengthOfList
  <2>4. ASSUME k = "scheduled", NEW i \in DOMAIN s, NEW j \in DOMAIN s, i <= j
        PROVE  tree.agg[s[i]] <= tree.agg[s[j]]
    <3>1. InOrder(tree.agg, s, Node)
      BY <1>2, <1>4, <2>4 DEF ListsOK, Ordered
    <3>2. i \in 1 .. Len(s) /\ j \in 1 .. Len(s) /\ s[i] \in Node /\ s[j] \in Node
      BY <2>1, ListsOnceFacts
    <3> QED
      BY <2>4, <3>1, <3>2 DEF InOrder
  <2> QED
    BY <2>2, <2>3, <2>4 DEF ChildrenIn
<1> QED
  BY <1>3, <1>4 DEF ListsWellFormed

(***************************************************************************)
(* Whatever callbacks do to the trees, and GetPulseTime() reentrant or     *)
(* not, the three lists of each PulseNode hold exactly its children, each  *)
(* once, and the scheduled one is sorted: ReschedulePulseChild() never     *)
(* loses a node, links it twice or puts it in the wrong place.             *)
(***************************************************************************)
THEOREM ListsCorrect == Spec => []ListsWellFormed
<1>1. Init => ListsInv
  BY ListsInit
<1>2. ListsInv /\ [Next]_vars => ListsInv'
  BY ListsStep
<1>3. ListsInv => ListsWellFormed
  BY ListsInvImplies
<1> QED
  BY <1>1, <1>2, <1>3, PTL DEF Spec
-----------------------------------------------------------------------------
(***************************************************************************)
(* Who has to be recalculated                                              *)
(***************************************************************************)

(* Climbing repairs what is wrong at the node where it begins.             *)
LEMMA RecalculateMarks ==
  ASSUME NEW t, NEW u, NEW n \in Node, NEW O, t \in TreeType,
         RecalculatedFrom(t, u, n), Marked(t, O \cup {n})
  PROVE  Marked(u, O)
<1>1. /\ u.parent = t.parent /\ u.valid = t.valid
      /\ \A m \in Node : u.list[m] = IF m \in ToRecalc(t, n) THEN "recalc"
                                     ELSE t.list[m]
  BY DEF RecalculatedFrom, Relisted
<1>2. SUFFICES ASSUME NEW x \in Node \ O, u.parent[x] # NoNode,
                      ~ u.valid[x] \/ ChildrenIn(u, x, "recalc") # {},
                      x \notin ToRecalc(t, n), t.list[x] # "recalc"
               PROVE  FALSE
  BY <1>1 DEF Marked
<1>3. x # n
  BY <1>1, <1>2, ToRecalcFacts
<1>4. t.valid[x] /\ ChildrenIn(t, x, "recalc") = {}
  BY <1>1, <1>2, <1>3 DEF Marked
<1>5. PICK c \in ChildrenIn(u, x, "recalc") : TRUE
  BY <1>1, <1>2, <1>4
<1>6. c \in Node /\ t.parent[c] = x /\ c \in ToRecalc(t, n)
  BY <1>1, <1>4, <1>5 DEF ChildrenIn
<1>7. x \in ToRecalc(t, n)
  BY <1>1, <1>2, <1>6, ToRecalcFacts
<1> QED
  BY <1>2, <1>7

LEMMA MarkedMore ==
  ASSUME NEW t, NEW O, NEW P, Marked(t, O), O \subseteq P
  PROVE  Marked(t, P)
BY DEF Marked

LEMMA RemovedMarks ==
  ASSUME NEW t, NEW u, NEW C \in SUBSET Node, NEW p \in Node, NEW O, t \in TreeType,
         Removed(t, u, C, p), Marked(t, O)
  PROVE  Marked(u, O)
<1>1. PICK g : Gone(t, g, C) /\ (RecalculatedFrom(g, u, p) \/ u = g)
  BY DEF Removed
<1>2. Marked(g, O)
  <2>1. SUFFICES ASSUME NEW x \in Node \ O, g.parent[x] # NoNode,
                        ~ g.valid[x] \/ ChildrenIn(g, x, "recalc") # {}
                 PROVE  g.list[x] = "recalc"
    BY DEF Marked
  <2>2. x \notin C /\ t.parent[x] # NoNode /\ g.list[x] = t.list[x]
    BY <1>1, <2>1 DEF Gone
  <2>3. g.valid[x] <=> t.valid[x]
    BY <1>1, <2>2 DEF Gone
  <2>4. ChildrenIn(g, x, "recalc") \subseteq ChildrenIn(t, x, "recalc")
    BY <1>1, PulseAssumption DEF Gone, ChildrenIn
  <2> QED
    BY <2>1, <2>2, <2>3, <2>4 DEF Marked
<1>3. CASE RecalculatedFrom(g, u, p)
  <2>1. Marked(g, O \cup {p}) /\ g \in TreeType
    BY <1>1, <1>2, MarkedMore DEF Gone
  <2> QED
    BY <1>3, <2>1, RecalculateMarks
<1> QED
  BY <1>1, <1>2, <1>3

LEMMA PutMarks ==
  ASSUME NEW t, NEW u, NEW p \in Node, NEW c \in Node, NEW O, t \in TreeType,
         Put(t, u, p, c), Marked(t, O)
  PROVE  Marked(u, O)
<1>1. PICK f, m : /\ \/ t.parent[c] = NoNode /\ f = t
                     \/ t.parent[c] # NoNode /\ Removed(t, f, {c}, t.parent[c])
                  /\ Attached(f, m, p, c) /\ RecalculatedFrom(m, u, c)
  BY DEF Put
<1>2. Marked(f, O) /\ f \in TreeType
  <2>1. CASE t.parent[c] = NoNode /\ f = t
    BY <2>1
  <2>2. CASE t.parent[c] # NoNode /\ Removed(t, f, {c}, t.parent[c])
    <3>1. t.parent[c] \in Node /\ {c} \in SUBSET Node
      BY <2>2, TreeFields
    <3> QED
      BY <2>2, <3>1, RemovedMarks, RemovedFields
  <2> QED
    BY <1>1, <2>1, <2>2
<1>3. Marked(m, O \cup {c})
  <2>1. SUFFICES ASSUME NEW x \in Node \ (O \cup {c}), m.parent[x] # NoNode,
                        ~ m.valid[x] \/ ChildrenIn(m, x, "recalc") # {}
                 PROVE  m.list[x] = "recalc"
    BY DEF Marked
  <2>2. /\ f.parent[x] = m.parent[x] /\ m.valid = f.valid /\ m.list = f.list
        /\ f.list[c] = "none"
        /\ \A y \in Node \ {c} : m.parent[y] = f.parent[y]
    BY <1>1, <1>2, TreeFields DEF Attached
  <2>3. ChildrenIn(m, x, "recalc") \subseteq ChildrenIn(f, x, "recalc")
    BY <2>2 DEF ChildrenIn
  <2> QED
    BY <1>2, <2>1, <2>2, <2>3 DEF Marked
<1>4. m \in TreeType
  BY <1>1 DEF Attached
<1> QED
  BY <1>1, <1>3, <1>4, RecalculateMarks

LEMMA InvalidatedMarks ==
  ASSUME NEW t, NEW u, NEW n \in Node, NEW O, t \in TreeType,
         Invalidated(t, u, n), Marked(t, O)
  PROVE  Marked(u, O)
<1>1. PICK m : /\ m \in TreeType
               /\ m.parent = t.parent /\ m.list = t.list
               /\ m.valid = [x \in Node |-> t.valid[x] /\ x # n]
               /\ \/ t.valid[n] /\ RecalculatedFrom(m, u, n)
                  \/ ~ t.valid[n] /\ u = m
  BY DEF Invalidated
<1>2. /\ \A x \in Node : m.valid[x] <=> t.valid[x] /\ x # n
      /\ \A x : ChildrenIn(m, x, "recalc") = ChildrenIn(t, x, "recalc")
  BY <1>1 DEF ChildrenIn
<1>3. CASE t.valid[n] /\ RecalculatedFrom(m, u, n)
  <2>1. Marked(m, O \cup {n})
    BY <1>1, <1>2 DEF Marked
  <2> QED
    BY <1>1, <1>3, <2>1, RecalculateMarks
<1>4. CASE ~ t.valid[n] /\ u = m
  BY <1>1, <1>2, <1>4 DEF Marked
<1> QED
  BY <1>1, <1>3, <1>4

LEMMA ReturnedMarks ==
  ASSUME NEW t, NEW u, NEW n \in Node, NEW O, t \in TreeType,
         Returned(t, u, n), Marked(t, O \cup {n}),
         t.valid[n], ChildrenIn(t, n, "recalc") = {}
  PROVE  Marked(u, O)
<1>1. /\ u.parent = t.parent /\ u.valid = t.valid
      /\ \A x \in Node : x # n => u.list[x] = t.list[x]
      /\ u.list[n] = "recalc" => t.list[n] = "recalc"
  BY DEF Returned
<1>2. \A x : ChildrenIn(u, x, "recalc") \subseteq ChildrenIn(t, x, "recalc")
  BY <1>1 DEF ChildrenIn
<1> QED
  BY <1>1, <1>2 DEF Marked

(***************************************************************************)
(* The nodes on the stack                                                  *)
(***************************************************************************)
LEMMA OnStackPush ==
  ASSUME LoopOK, NEW x \in Call, stack' = <<x>> \o stack
  PROVE  OnStack' = OnStack \cup {x.node}
<1>1. stack \in Seq(Call) /\ Len(stack) \in Nat
  BY DEF LoopOK
<1>2. /\ stack' \in Seq(Call) /\ Len(stack') = Len(stack) + 1 /\ stack'[1] = x
      /\ \A i \in 1 .. Len(stack) : stack'[i + 1] = stack[i]
  BY <1>1, PushFacts
<1>3. DOMAIN stack = 1 .. Len(stack) /\ DOMAIN stack' = 1 .. Len(stack) + 1
  BY <1>1, <1>2
<1>4. OnStack' \subseteq OnStack \cup {x.node}
  <2>1. SUFFICES ASSUME NEW i \in 1 .. Len(stack) + 1
                 PROVE  stack'[i].node \in OnStack \cup {x.node}
    BY <1>3 DEF OnStack
  <2>2. i = 1 \/ (i - 1 \in 1 .. Len(stack) /\ (i - 1) + 1 = i)
    BY <1>1
  <2>3. i = 1 \/ (i - 1 \in DOMAIN stack /\ stack'[i] = stack[i - 1])
    BY <1>2, <1>3, <2>2
  <2> QED
    BY <1>2, <2>3 DEF OnStack
<1>5. ASSUME NEW i \in DOMAIN stack PROVE stack[i].node \in OnStack'
  <2>1. i + 1 \in DOMAIN stack' /\ stack'[i + 1] = stack[i]
    BY <1>1, <1>2, <1>3
  <2> QED
    BY <2>1 DEF OnStack
<1>6. x.node \in OnStack'
  <2>1. 1 \in DOMAIN stack'
    BY <1>1, <1>3
  <2> QED
    BY <2>1, <1>2 DEF OnStack
<1> QED
  BY <1>4, <1>5, <1>6 DEF OnStack

LEMMA OnStackPop ==
  ASSUME LoopOK, stack # <<>>, stack' = Tail(stack)
  PROVE  OnStack \subseteq OnStack' \cup {Top.node} /\ OnStack' \subseteq OnStack
<1>1. stack \in Seq(Call) /\ Len(stack) \in Nat /\ Top = stack[1]
  BY DEF LoopOK, Top
<1>2. /\ stack' \in Seq(Call) /\ Len(stack') = Len(stack) - 1
      /\ \A i \in 1 .. Len(stack) - 1 : stack'[i] = stack[i + 1]
  BY <1>1, PopFacts
<1>3. DOMAIN stack = 1 .. Len(stack) /\ DOMAIN stack' = 1 .. Len(stack) - 1
  BY <1>1, <1>2
<1>4. ASSUME NEW i \in DOMAIN stack PROVE stack[i].node \in OnStack' \cup {Top.node}
  <2>1. i = 1 \/ (i - 1 \in 1 .. Len(stack) - 1 /\ (i - 1) + 1 = i)
    BY <1>1, <1>3
  <2>2. i = 1 \/ (i - 1 \in DOMAIN stack' /\ stack'[i - 1] = stack[i])
    BY <1>2, <1>3, <2>1
  <2> QED
    BY <1>1, <2>2 DEF OnStack
<1>5. ASSUME NEW i \in DOMAIN stack' PROVE stack'[i].node \in OnStack
  <2>1. i + 1 \in DOMAIN stack /\ stack'[i] = stack[i + 1]
    BY <1>1, <1>2, <1>3
  <2> QED
    BY <2>1 DEF OnStack
<1> QED
  BY <1>4, <1>5 DEF OnStack

LEMMA OnStackKids ==
  ASSUME LoopOK, stack # <<>>, stack' = [stack EXCEPT ![1].pc = "kids"]
  PROVE  OnStack' = OnStack
<1>1. stack \in Seq(Call)
  BY DEF LoopOK
<1>2. /\ stack' \in Seq(Call) /\ Len(stack') = Len(stack)
      /\ \A i \in 1 .. Len(stack) : stack'[i].node = stack[i].node
  BY <1>1, KidsFacts
<1>3. DOMAIN stack = 1 .. Len(stack) /\ DOMAIN stack' = 1 .. Len(stack)
  BY <1>1, <1>2
<1> QED
  BY <1>2, <1>3 DEF OnStack

LEMMA TopOnStack ==
  ASSUME LoopOK, stack # <<>>
  PROVE  Top.node \in OnStack /\ Top.node \in Node /\ Top = stack[1]
<1>1. stack \in Seq(Call)
  BY DEF LoopOK
<1>2. 1 \in DOMAIN stack /\ Top = stack[1] /\ Top.node \in Node
  BY <1>1, TopFacts DEF Top
<1> QED
  BY <1>2 DEF OnStack

LEMMA EmptyStack ==
  ASSUME LoopOK
  PROVE  /\ stack = <<>> => OnStack = {}
         /\ OnStack \subseteq Node
         /\ phase \in {"setup", "wait"} \/ pos > Len(RootSeq) => stack = <<>>
<1>1. stack \in Seq(Call)
  BY DEF LoopOK
<1>2. OnStack \subseteq Node
  <2>1. ASSUME NEW i \in DOMAIN stack PROVE stack[i].node \in Node
    <3>1. stack[i] \in Call
      BY <1>1
    <3> QED
      BY <3>1 DEF Call
  <2> QED
    BY <2>1 DEF OnStack
<1>3. stack = <<>> => DOMAIN stack = {}
  BY <1>1
<1>4. pos > Len(RootSeq) => ~ (pos <= Len(RootSeq))
  BY RootFacts DEF LoopOK
<1> QED
  BY <1>2, <1>3, <1>4 DEF OnStack, LoopOK

(* The fields of a tree in which c was given the parent p                  *)
LEMMA PutFields ==
  ASSUME NEW t \in TreeType, NEW u, NEW p \in Node, NEW c \in Node, Put(t, u, p, c)
  PROVE  /\ u \in TreeType
         /\ \A n \in Node : u.parent[n] = IF n = c THEN p ELSE t.parent[n]
         /\ \A n \in Node : u.valid[n] => t.valid[n]
         /\ \A n \in Node \ {c} : t.valid[n] => u.valid[n]
         /\ u.sched = t.sched /\ u.agg = t.agg
         /\ u.list[c] = "recalc"
         /\ \A n \in Node \ {c} : u.list[n] = "recalc" \/ u.list[n] = t.list[n]
<1>1. PICK f, m : /\ \/ t.parent[c] = NoNode /\ f = t
                     \/ t.parent[c] # NoNode /\ Removed(t, f, {c}, t.parent[c])
                  /\ Attached(f, m, p, c) /\ RecalculatedFrom(m, u, c)
  BY DEF Put
<1>2. /\ f \in TreeType /\ f.sched = t.sched /\ f.agg = t.agg
      /\ \A n \in Node \ {c} : f.parent[n] = t.parent[n]
      /\ \A n \in Node : f.valid[n] => t.valid[n]
      /\ \A n \in Node \ {c} : t.valid[n] => f.valid[n]
      /\ \A n \in Node \ {c} : f.list[n] = "recalc" \/ f.list[n] = t.list[n]
  <2>1. CASE t.parent[c] = NoNode /\ f = t
    BY <2>1
  <2>2. CASE t.parent[c] # NoNode /\ Removed(t, f, {c}, t.parent[c])
    <3>1. t.parent[c] \in Node /\ {c} \in SUBSET Node
      BY <2>2, TreeFields
    <3>2. PICK q \in Node : q = t.parent[c]
      BY <3>1
    <3>3. PICK C \in SUBSET Node : C = {c}
      BY <3>1
    <3>4. Removed(t, f, C, q)
      BY <2>2, <3>2, <3>3
    <3>5. /\ f \in TreeType /\ f.sched = t.sched /\ f.agg = t.agg
          /\ \A n \in Node : f.parent[n] = IF n \in C THEN NoNode ELSE t.parent[n]
          /\ \A n \in Node \ C : f.list[n] = "recalc" \/ f.list[n] = t.list[n]
      BY <3>4, RemovedFields
    <3>6. \A n \in Node : f.valid[n] <=> t.valid[n] /\ n \notin C
      BY <3>4, RemovedFields
    <3> QED
      BY <3>3, <3>5, <3>6
  <2> QED
    BY <1>1, <2>1, <2>2
<1>3. /\ u \in TreeType /\ u.parent = m.parent /\ u.sched = m.sched
      /\ u.valid = m.valid /\ u.agg = m.agg
      /\ \A n \in Node : u.list[n] = IF n \in ToRecalc(m, c) THEN "recalc"
                                     ELSE m.list[n]
  BY <1>1 DEF RecalculatedFrom, Relisted
<1>4. /\ m.sched = f.sched /\ m.valid = f.valid /\ m.agg = f.agg /\ m.list = f.list
      /\ f.list[c] = "none"
      /\ m.parent[c] = p /\ \A n \in Node \ {c} : m.parent[n] = f.parent[n]
  BY <1>1, <1>2, TreeFields DEF Attached
<1>5. p # NoNode
  BY PulseAssumption
<1>6. c \in ToRecalc(m, c)
  BY <1>4, <1>5, ToRecalcFacts
<1>7. \A n \in Node : u.parent[n] = IF n = c THEN p ELSE t.parent[n]
  BY <1>2, <1>3, <1>4
<1>8. /\ \A n \in Node : u.valid[n] => t.valid[n]
      /\ \A n \in Node \ {c} : t.valid[n] => u.valid[n]
  BY <1>2, <1>3, <1>4
<1>9. \A n \in Node \ {c} : u.list[n] = "recalc" \/ u.list[n] = t.list[n]
  BY <1>2, <1>3, <1>4
<1> QED
  BY <1>2, <1>3, <1>4, <1>6, <1>7, <1>8, <1>9

(* The fields of a tree in which n was invalidated                         *)
LEMMA InvalidatedFields ==
  ASSUME NEW t \in TreeType, NEW u, NEW n \in Node, Invalidated(t, u, n)
  PROVE  /\ u \in TreeType /\ u.parent = t.parent /\ u.agg = t.agg
         /\ \A x \in Node : u.valid[x] <=> t.valid[x] /\ x # n
         /\ \A x \in Node : u.sched[x] = t.sched[x] \/ (x = n /\ u.sched[x] = Never)
         /\ \A x \in Node : u.list[x] = "recalc" \/ u.list[x] = t.list[x]
         /\ t.valid[n] /\ t.parent[n] # NoNode => u.list[n] = "recalc"
<1>1. PICK m : /\ m \in TreeType
               /\ m.parent = t.parent /\ m.list = t.list /\ m.agg = t.agg
               /\ m.valid = [x \in Node |-> t.valid[x] /\ x # n]
               /\ \A x \in Node : m.sched[x] = t.sched[x] \/ (x = n /\ m.sched[x] = Never)
               /\ \/ t.valid[n] /\ RecalculatedFrom(m, u, n)
                  \/ ~ t.valid[n] /\ u = m
  BY DEF Invalidated
<1>2. \A x \in Node : m.valid[x] <=> t.valid[x] /\ x # n
  BY <1>1
<1>3. CASE t.valid[n] /\ RecalculatedFrom(m, u, n)
  <2>1. /\ u \in TreeType /\ u.parent = m.parent /\ u.sched = m.sched
        /\ u.valid = m.valid /\ u.agg = m.agg
        /\ \A x \in Node : u.list[x] = IF x \in ToRecalc(m, n) THEN "recalc"
                                       ELSE m.list[x]
    BY <1>3 DEF RecalculatedFrom, Relisted
  <2>2. m.parent[n] # NoNode => n \in ToRecalc(m, n) \/ m.list[n] = "recalc"
    BY ToRecalcFacts
  <2>3. m.parent = t.parent /\ m.list = t.list /\ m.agg = t.agg
    BY <1>1
  <2>4. \A x \in Node : m.sched[x] = t.sched[x] \/ (x = n /\ m.sched[x] = Never)
    BY <1>1
  <2> QED
    BY <1>2, <2>1, <2>2, <2>3, <2>4
<1>4. CASE ~ t.valid[n] /\ u = m
  <2>1. m \in TreeType /\ m.parent = t.parent /\ m.list = t.list /\ m.agg = t.agg
    BY <1>1
  <2>2. \A x \in Node : m.sched[x] = t.sched[x] \/ (x = n /\ m.sched[x] = Never)
    BY <1>1
  <2> QED
    BY <1>2, <1>4, <2>1, <2>2
<1> QED
  BY <1>1, <1>3, <1>4

-----------------------------------------------------------------------------
MarkInv == Marked(tree, OnStack) /\ AskedOK

(* A call of the user: what is at work in a recalculation stays valid.     *)
LEMMA UserKeepsMarks ==
  ASSUME Marked(tree', OnStack), UNCHANGED <<phase, stack>>,
         phase = "recalc" => \A n \in OnStack : tree'.valid[n]
  PROVE  MarkInv'
<1>1. OnStack' = OnStack
  BY DEF OnStack
<1> QED
  BY <1>1 DEF MarkInv, AskedOK

(* A call is made of GetPulseTimeAux().                                    *)
LEMMA AskKeepsMarks ==
  ASSUME LoopOK, MarkInv, NEW n \in Node,
         tree'.parent = tree.parent, tree'.list = tree.list,
         \A x \in Node : tree'.valid[x] <=> x = n \/ tree.valid[x],
         \E x \in Call : x.node = n /\ stack' = <<x>> \o stack, phase' = phase
  PROVE  MarkInv'
<1>1. OnStack' = OnStack \cup {n}
  BY OnStackPush
<1>2. \A x : ChildrenIn(tree', x, "recalc") = ChildrenIn(tree, x, "recalc")
  BY DEF ChildrenIn
<1>3. Marked(tree', OnStack')
  BY <1>1, <1>2 DEF MarkInv, Marked
<1>4. OnStack \subseteq Node
  BY EmptyStack
<1>5. AskedOK'
  BY <1>1, <1>4 DEF MarkInv, AskedOK
<1> QED
  BY <1>3, <1>5 DEF MarkInv

LEMMA MarkUserStep ==
  ASSUME ~ Reentrant, ListsInv, MarkInv,
         \/ \E p, c \in Node : Setup(p, c) \/ Attach(p, c)
         \/ \E n \in Node, clear \in BOOLEAN : Invalidate(n, clear)
         \/ \E n \in Node : Detach(n) \/ DetachAll(n)
  PROVE  MarkInv'
<1>1. /\ tree \in TreeType /\ LoopOK /\ OnStack \subseteq Node
      /\ Marked(tree, OnStack) /\ (phase = "recalc" => \A n \in OnStack : tree.valid[n])
  BY EmptyStack DEF ListsInv, ListsOK, Linked, MarkInv, AskedOK
<1>2. UNCHANGED <<phase, stack>>
  BY DEF Setup, Attach, Invalidate, Detach, DetachAll, UserRuns
<1>3. ASSUME NEW n \in Node, MayReset(n), phase = "recalc" PROVE n \notin OnStack
  BY <1>3 DEF MayReset
<1>4. ASSUME NEW p \in Node, NEW c \in Node, Setup(p, c) \/ Attach(p, c)
      PROVE  MarkInv'
  <2>1. Put(tree, tree', p, c)
    BY <1>4, SetupStep, AttachStep
  <2>2. Marked(tree', OnStack)
    BY <1>1, <2>1, PutMarks
  <2>3. phase = "recalc" => c \notin OnStack
    BY <1>3, <1>4 DEF Setup, Attach
  <2>4. \A n \in Node \ {c} : tree.valid[n] => tree'.valid[n]
    BY <1>1, <2>1, PutFields
  <2> QED
    BY <1>1, <1>2, <2>2, <2>3, <2>4, UserKeepsMarks
<1>5. ASSUME NEW n \in Node, NEW clear \in BOOLEAN, Invalidate(n, clear)
      PROVE  MarkInv'
  <2>1. Invalidated(tree, tree', n)
    BY <1>5, InvalidateStep
  <2>2. Marked(tree', OnStack)
    BY <1>1, <2>1, InvalidatedMarks
  <2>3. phase = "recalc" => n \notin OnStack
    BY <1>3, <1>5 DEF Invalidate
  <2>4. \A x \in Node : tree'.valid[x] <=> tree.valid[x] /\ x # n
    BY <1>1, <2>1, InvalidatedFields
  <2> QED
    BY <1>1, <1>2, <2>2, <2>3, <2>4, UserKeepsMarks
<1>6. ASSUME NEW p \in Node, NEW C \in SUBSET Node, Removed(tree, tree', C, p),
             \A c \in C : MayReset(c)
      PROVE  MarkInv'
  <2>1. Marked(tree', OnStack)
    BY <1>1, <1>6, RemovedMarks
  <2>2. \A x \in Node : tree'.valid[x] <=> tree.valid[x] /\ x \notin C
    BY <1>1, <1>6, RemovedFields
  <2>3. phase = "recalc" => \A c \in C : c \notin OnStack
    BY <1>3, <1>6
  <2> QED
    BY <1>1, <1>2, <2>1, <2>2, <2>3, UserKeepsMarks
<1>7. ASSUME NEW c \in Node, Detach(c) PROVE MarkInv'
  <2>1. tree.parent[c] \in Node
    BY <1>1, <1>7, TreeFields DEF Detach
  <2>2. {c} \in SUBSET Node /\ \A x \in {c} : MayReset(x)
    BY <1>7 DEF Detach
  <2> QED
    BY <1>6, <1>7, <2>1, <2>2, DetachStep
<1>8. ASSUME NEW p \in Node, DetachAll(p) PROVE MarkInv'
  <2>1. PICK C \in SUBSET Node : C = {c \in Node : tree.parent[c] = p}
    OBVIOUS
  <2>2. \A x \in C : MayReset(x)
    BY <1>8, <2>1 DEF DetachAll
  <2>3. Removed(tree, tree', C, p)
    BY <1>8, <2>1, DetachAllStep
  <2> QED
    BY <1>6, <2>2, <2>3
<1> QED
  BY <1>4, <1>5, <1>7, <1>8

LEMMA MarkLoopStep ==
  ASSUME ListsInv, MarkInv,
         StartLoop \/ StartWaiting \/ Tick \/ TimeOut \/ SocketEvent
           \/ SkipPulseAux \/ EndCycle \/ UNCHANGED vars
  PROVE  MarkInv'
<1>1. tree' = tree /\ stack' = stack /\ LoopOK
  BY LoopStep DEF ListsInv
<1>2. OnStack' = OnStack
  BY <1>1 DEF OnStack
<1>3. phase' = phase \/ phase' # "recalc" \/ OnStack = {}
  BY <1>1, EmptyStack DEF StartLoop, StartWaiting, Tick, TimeOut, SocketEvent,
       StopWaiting, SkipPulseAux, EndCycle, vars
<1> QED
  BY <1>1, <1>2, <1>3 DEF MarkInv, AskedOK

LEMMA MarkStep ==
  ASSUME ~ Reentrant, ListsInv, MarkInv, [Next]_vars
  PROVE  MarkInv'
<1>1. /\ tree \in TreeType /\ LoopOK /\ OnStack \subseteq Node
      /\ Marked(tree, OnStack) /\ (phase = "recalc" => \A n \in OnStack : tree.valid[n])
  BY EmptyStack DEF ListsInv, ListsOK, Linked, MarkInv, AskedOK
<1>2. CASE \/ \E p, c \in Node : Setup(p, c) \/ Attach(p, c)
           \/ \E n \in Node, clear \in BOOLEAN : Invalidate(n, clear)
           \/ \E n \in Node : Detach(n) \/ DetachAll(n)
  BY <1>2, MarkUserStep
<1>3. CASE CallGetPulseTimeAux
  <2>1. phase' = phase
    BY <1>3 DEF CallGetPulseTimeAux, EnterGetPulseTimeAux
  <2> QED
    BY <1>1, <1>3, <2>1, CallGetPulseTimeAuxStep, AskKeepsMarks
<1>4. CASE RecalculateKid
  <2>1. phase' = phase
    BY <1>4 DEF RecalculateKid, EnterGetPulseTimeAux
  <2> QED
    BY <1>1, <1>4, <2>1, RecalculateKidStep, AskKeepsMarks
<1>5. CASE ReturnGetPulseTimeAux
  <2>1. /\ stack # <<>> /\ stack' = Tail(stack) /\ phase = "recalc" /\ phase' = phase
    BY <1>5 DEF ReturnGetPulseTimeAux
  <2>2. /\ Top.node \in OnStack /\ Top.node \in Node
        /\ OnStack \subseteq OnStack' \cup {Top.node} /\ OnStack' \subseteq OnStack
    BY <1>1, <2>1, TopOnStack, OnStackPop
  <2>3. Returned(tree, tree', Top.node) /\ ChildrenIn(tree, Top.node, "recalc") = {}
    BY <1>5, ReturnGetPulseTimeAuxStep
  <2>4. Marked(tree, OnStack' \cup {Top.node})
    BY <1>1, <2>2, MarkedMore
  <2>5. tree.valid[Top.node]
    BY <1>1, <2>1, <2>2
  <2>6. Marked(tree', OnStack')
    BY <1>1, <2>2, <2>3, <2>4, <2>5, ReturnedMarks
  <2>7. tree'.valid = tree.valid
    BY <2>3 DEF Returned
  <2> QED
    BY <1>1, <2>1, <2>2, <2>6, <2>7 DEF MarkInv, AskedOK
<1>6. ASSUME NEW t \in Times, GetPulseTime(t) PROVE MarkInv'
  <2>1. OnStack' = OnStack /\ phase' = phase
    BY <1>1, <1>6, OnStackKids DEF GetPulseTime
  <2>2. tree'.parent = tree.parent /\ tree'.list = tree.list /\ tree'.valid = tree.valid
    BY <1>6, GetPulseTimeStep
  <2>3. \A x : ChildrenIn(tree', x, "recalc") = ChildrenIn(tree, x, "recalc")
    BY <2>2 DEF ChildrenIn
  <2> QED
    BY <2>1, <2>2, <2>3 DEF MarkInv, Marked, AskedOK
<1>7. CASE CallPulseAux \/ PulseKid
  <2>1. tree' = tree /\ phase' = phase /\ phase # "recalc"
    BY <1>7 DEF CallPulseAux, PulseKid, EnterPulseAux
  <2>2. \E x \in Call : stack' = <<x>> \o stack
    BY <1>7, CallPulseAuxStep, PulseKidStep
  <2>3. OnStack \subseteq OnStack'
    BY <1>1, <2>2, OnStackPush
  <2> QED
    BY <2>1, <2>3, MarkedMore DEF MarkInv, AskedOK
<1>8. CASE Pulse
  <2>1. OnStack' = OnStack /\ phase' = phase /\ phase # "recalc" /\ stack # <<>>
    BY <1>1, <1>8, OnStackKids DEF Pulse
  <2>2. Top.node \in OnStack
    BY <1>1, <2>1, TopOnStack
  <2>3. /\ tree'.parent = tree.parent /\ tree'.list = tree.list
        /\ \A x \in Node : tree'.valid[x] <=> x # Top.node /\ tree.valid[x]
    BY <1>8, PulseStep
  <2>4. \A x : ChildrenIn(tree', x, "recalc") = ChildrenIn(tree, x, "recalc")
    BY <2>3 DEF ChildrenIn
  <2>5. Marked(tree', OnStack)
    BY <1>1, <2>2, <2>3, <2>4 DEF Marked
  <2> QED
    BY <2>1, <2>5 DEF MarkInv, AskedOK
<1>9. CASE ReturnPulseAux
  <2>1. /\ stack # <<>> /\ stack' = Tail(stack) /\ phase' = phase /\ phase # "recalc"
    BY <1>9 DEF ReturnPulseAux
  <2>2. OnStack \subseteq OnStack' \cup {Top.node} /\ Top.node \in Node
    BY <1>1, <2>1, TopOnStack, OnStackPop
  <2>3. RecalculatedFrom(tree, tree', Top.node)
    BY <1>9, ReturnPulseAuxStep
  <2>4. Marked(tree, OnStack' \cup {Top.node})
    BY <1>1, <2>2, MarkedMore
  <2>5. Marked(tree', OnStack')
    BY <1>1, <2>2, <2>3, <2>4, RecalculateMarks
  <2> QED
    BY <2>1, <2>5 DEF MarkInv, AskedOK
<1>10. CASE StartLoop \/ StartWaiting \/ Tick \/ TimeOut \/ SocketEvent
              \/ SkipPulseAux \/ EndCycle \/ UNCHANGED vars
  BY <1>10, MarkLoopStep
<1> QED
  BY <1>2, <1>3, <1>4, <1>5, <1>6, <1>7, <1>8, <1>9, <1>10, NextCases

LEMMA MarkInit == Init => MarkInv
<1>1. SUFFICES ASSUME Init PROVE MarkInv
  OBVIOUS
<1>2. LoopOK /\ stack = <<>> /\ phase = "setup"
  BY <1>1, ListsInit DEF ListsInv, Init
<1>3. OnStack = {}
  BY <1>2, EmptyStack
<1>4. \A n \in Node : tree.parent[n] = NoNode
  BY <1>1 DEF Init
<1> QED
  BY <1>2, <1>3, <1>4 DEF MarkInv, Marked, AskedOK

(***************************************************************************)
(* Unless GetPulseTime() invalidates what is being recalculated, a node    *)
(* that has to be asked for its pulse time, or has a descendant that has,  *)
(* is on its parent's list of nodes to recalculate, whatever callbacks do  *)
(* to the trees: the climb of ReschedulePulseChild() never stops short.    *)
(***************************************************************************)
THEOREM NobodyForgotten ==
  ASSUME ~ Reentrant
  PROVE  Spec => []InvalidIsRecalculated
<1>1. Init => ListsInv /\ MarkInv
  BY ListsInit, MarkInit
<1>2. ListsInv /\ MarkInv /\ [Next]_vars => (ListsInv /\ MarkInv)'
  BY ListsStep, MarkStep
<1>3. ListsInv /\ MarkInv => InvalidIsRecalculated
  <2>1. SUFFICES ASSUME ListsInv, MarkInv, NEW n \in Node \ OnStack,
                        tree.parent[n] # NoNode,
                        ~ tree.valid[n] \/ tree.kids[n]["recalc"] # <<>>
                 PROVE  tree.list[n] = "recalc"
    BY DEF InvalidIsRecalculated
  <2>2. tree.kids[n]["recalc"] # <<>> => ChildrenIn(tree, n, "recalc") # {}
    BY <2>1, ListNames, LinkedFacts DEF ListsInv, ListsOK
  <2> QED
    BY <2>1, <2>2 DEF MarkInv, Marked
<1> QED
  BY <1>1, <1>2, <1>3, PTL DEF Spec
-----------------------------------------------------------------------------
(***************************************************************************)
(* The ancestors of a node                                                 *)
(***************************************************************************)
LEMMA UpFacts ==
  ASSUME NEW t, NEW n \in Node
  PROVE  /\ UpWithin(t, n, Node) \in SUBSET Node /\ n \in UpWithin(t, n, Node)
         /\ \A m \in UpWithin(t, n, Node) :
              t.parent[m] \in Node => t.parent[m] \in UpWithin(t, n, Node)
         /\ \A m \in UpWithin(t, n, Node) : UpWithin(t, m, Node) \subseteq UpWithin(t, n, Node)
<1>1. /\ UpWithin(t, n, Node) \in SUBSET Node /\ n \in UpWithin(t, n, Node)
      /\ \A m \in UpWithin(t, n, Node) :
           t.parent[m] \in Node => t.parent[m] \in UpWithin(t, n, Node)
  BY UpWithinFacts
<1>2. ASSUME NEW m \in UpWithin(t, n, Node)
      PROVE  UpWithin(t, m, Node) \subseteq UpWithin(t, n, Node)
  <2>1. m \in Node
    BY <1>1
  <2> QED
    BY <1>1, <2>1, UpWithinLeast
<1> QED
  BY <1>1, <1>2

(* The ancestors of a node are itself and those of its parent.             *)
LEMMA UpSplit ==
  ASSUME NEW t, NEW n \in Node, t.parent[n] \in Node
  PROVE  UpWithin(t, n, Node) \subseteq {n} \cup UpWithin(t, t.parent[n], Node)
<1> PICK S : S = {n} \cup UpWithin(t, t.parent[n], Node)
  OBVIOUS
<1>1. n \in S /\ S \in SUBSET Node /\ \A m \in S : t.parent[m] \in Node => t.parent[m] \in S
  BY UpFacts
<1> QED
  BY <1>1, UpWithinLeast

(* A root has no other ancestor.                                           *)
LEMMA UpOfRoot ==
  ASSUME NEW t, NEW n \in Node, t.parent[n] \notin Node
  PROVE  UpWithin(t, n, Node) = {n}
<1>1. {n} \in SUBSET Node /\ n \in {n}
      /\ \A m \in {n} : t.parent[m] \in Node => t.parent[m] \in {n}
  OBVIOUS
<1>2. UpWithin(t, n, Node) \subseteq {n}
  BY <1>1, UpWithinLeast
<1> QED
  BY <1>2, UpFacts

(* Nodes that lose their parent lose ancestors.                            *)
LEMMA UpFewer ==
  ASSUME NEW t, NEW u, NEW n \in Node,
         \A m \in Node : u.parent[m] \in {t.parent[m], NoNode}
  PROVE  UpWithin(u, n, Node) \subseteq UpWithin(t, n, Node)
<1>1. /\ UpWithin(t, n, Node) \in SUBSET Node /\ n \in UpWithin(t, n, Node)
      /\ \A m \in UpWithin(t, n, Node) :
           t.parent[m] \in Node => t.parent[m] \in UpWithin(t, n, Node)
  BY UpFacts
<1>2. \A m \in UpWithin(t, n, Node) : u.parent[m] \in Node => u.parent[m] \in UpWithin(t, n, Node)
  BY <1>1, PulseAssumption
<1> QED
  BY <1>1, <1>2, UpWithinLeast

(* A node that is given the parent p gives it and its ancestors to its     *)
(* own descendants, and to no other node.                                  *)
LEMMA UpPut ==
  ASSUME NEW t, NEW u, NEW p \in Node, NEW c \in Node, NEW n \in Node,
         \A m \in Node : u.parent[m] = IF m = c THEN p ELSE t.parent[m]
  PROVE  /\ UpWithin(u, n, Node) \subseteq UpWithin(t, n, Node) \cup UpWithin(t, p, Node)
         /\ c \notin UpWithin(t, n, Node) =>
              UpWithin(u, n, Node) \subseteq UpWithin(t, n, Node)
<1>1. /\ UpWithin(t, n, Node) \in SUBSET Node /\ n \in UpWithin(t, n, Node)
      /\ \A m \in UpWithin(t, n, Node) :
           t.parent[m] \in Node => t.parent[m] \in UpWithin(t, n, Node)
  BY UpFacts
<1>2. /\ UpWithin(t, p, Node) \in SUBSET Node /\ p \in UpWithin(t, p, Node)
      /\ \A m \in UpWithin(t, p, Node) :
           t.parent[m] \in Node => t.parent[m] \in UpWithin(t, p, Node)
  BY UpFacts
<1>3. UpWithin(u, n, Node) \subseteq UpWithin(t, n, Node) \cup UpWithin(t, p, Node)
  <2>1. PICK S : S = UpWithin(t, n, Node) \cup UpWithin(t, p, Node)
    OBVIOUS
  <2>2. S \in SUBSET Node /\ n \in S
    BY <1>1, <1>2, <2>1
  <2>3. \A m \in S : u.parent[m] \in Node => u.parent[m] \in S
    BY <1>1, <1>2, <2>1
  <2>4. UpWithin(u, n, Node) \subseteq S
    BY <2>2, <2>3, UpWithinLeast
  <2> QED
    BY <2>1, <2>4
<1>4. ASSUME c \notin UpWithin(t, n, Node)
      PROVE  UpWithin(u, n, Node) \subseteq UpWithin(t, n, Node)
  <2>1. \A m \in UpWithin(t, n, Node) :
          u.parent[m] \in Node => u.parent[m] \in UpWithin(t, n, Node)
    BY <1>1, <1>4
  <2> QED
    BY <1>1, <2>1, UpWithinLeast
<1> QED
  BY <1>3, <1>4

LEMMA RemovedAcyclic ==
  ASSUME NEW t \in TreeType, NEW u, Acyclic(t),
         \A m \in Node : u.parent[m] \in {t.parent[m], NoNode}
  PROVE  Acyclic(u)
<1>1. SUFFICES ASSUME NEW n \in Node, u.parent[n] # NoNode,
                      n \in UpWithin(u, u.parent[n], Node)
               PROVE  FALSE
  BY DEF Acyclic, InSubtree
<1>2. PICK q \in Node : q = t.parent[n] /\ q = u.parent[n] /\ q # NoNode
  BY <1>1, TreeFields
<1>3. n \in UpWithin(t, q, Node)
  BY <1>1, <1>2, UpFewer
<1> QED
  BY <1>2, <1>3 DEF Acyclic, InSubtree

LEMMA PutAcyclic ==
  ASSUME NEW t \in TreeType, NEW u, NEW p \in Node, NEW c \in Node, Acyclic(t),
         ~ InSubtree(t, c, p),
         \A m \in Node : u.parent[m] = IF m = c THEN p ELSE t.parent[m]
  PROVE  Acyclic(u)
<1>1. SUFFICES ASSUME NEW n \in Node, u.parent[n] # NoNode,
                      n \in UpWithin(u, u.parent[n], Node)
               PROVE  FALSE
  BY DEF Acyclic, InSubtree
<1>2. c \notin UpWithin(t, p, Node)
  BY DEF InSubtree
<1>3. CASE n = c
  <2>1. c \in UpWithin(u, p, Node)
    BY <1>1, <1>3
  <2> QED
    BY <1>2, <2>1, UpPut
<1>4. CASE n # c
  <2>1. PICK q \in Node : q = t.parent[n] /\ q = u.parent[n]
    BY <1>1, <1>4, TreeFields
  <2>2. n \notin UpWithin(t, q, Node) /\ q # NoNode
    BY <1>1, <2>1 DEF Acyclic, InSubtree
  <2>3. n \in UpWithin(u, q, Node)
    BY <1>1, <2>1
  <2>4. c \in UpWithin(t, q, Node) /\ n \in UpWithin(t, p, Node)
    <3>1. /\ UpWithin(u, q, Node) \subseteq UpWithin(t, q, Node) \cup UpWithin(t, p, Node)
          /\ c \notin UpWithin(t, q, Node) =>
               UpWithin(u, q, Node) \subseteq UpWithin(t, q, Node)
      BY UpPut
    <3> QED
      BY <2>2, <2>3, <3>1
  <2>5. q \in UpWithin(t, p, Node)
    BY <2>1, <2>4, UpFacts
  <2>6. c \in UpWithin(t, p, Node)
    BY <2>4, <2>5, UpFacts
  <2> QED
    BY <1>2, <2>6
<1> QED
  BY <1>3, <1>4
-----------------------------------------------------------------------------
(***************************************************************************)
(* The aggregate pulse times                                               *)
(***************************************************************************)

(* Only a node with a parent is on a list.                                 *)
Rooted(t) == \A n \in Node : t.list[n] # "none" => t.parent[n] # NoNode

LEMMA AggregatesMore ==
  ASSUME NEW t, NEW O, NEW P, AggregatesOK(t, O), O \subseteq P
  PROVE  AggregatesOK(t, P)
BY DEF AggregatesOK

(* What IsAggregate looks at                                               *)
LEMMA SameAggregate ==
  ASSUME NEW t, NEW u, NEW n \in Node, IsAggregate(t, n),
         u.sched[n] = t.sched[n], \A x \in Node : u.agg[x] = t.agg[x],
         ChildrenIn(u, n, "scheduled") \subseteq ChildrenIn(t, n, "scheduled"),
         \A c \in ChildrenIn(t, n, "scheduled") :
           t.agg[c] = t.agg[n] =>
             \E d \in ChildrenIn(u, n, "scheduled") : t.agg[d] = t.agg[n]
  PROVE  IsAggregate(u, n)
<1>1. /\ t.agg[n] <= t.sched[n]
      /\ \A c \in ChildrenIn(t, n, "scheduled") : t.agg[n] <= t.agg[c]
      /\ \/ t.agg[n] = t.sched[n]
         \/ \E c \in ChildrenIn(t, n, "scheduled") : t.agg[n] = t.agg[c]
  BY DEF IsAggregate
<1>2. ChildrenIn(u, n, "scheduled") \subseteq Node
  BY DEF ChildrenIn
<1>3. u.agg[n] <= u.sched[n]
  BY <1>1
<1>4. \A c \in ChildrenIn(u, n, "scheduled") : u.agg[n] <= u.agg[c]
  BY <1>1, <1>2
<1>5. \/ u.agg[n] = u.sched[n]
      \/ \E c \in ChildrenIn(u, n, "scheduled") : u.agg[n] = u.agg[c]
  BY <1>1, <1>2
<1> QED
  BY <1>3, <1>4, <1>5 DEF IsAggregate

(* Climbing from n takes along everyone whose time may have come from what *)
(* moved, so that a wrong time at n is no longer relied on.                *)
LEMMA RecalculateAggregates ==
  ASSUME NEW t \in TreeType, NEW u, NEW n \in Node, NEW O, Rooted(t),
         RecalculatedFrom(t, u, n), AggregatesOK(t, O \cup {n})
  PROVE  AggregatesOK(u, O) /\ Rooted(u)
<1>1. /\ u.parent = t.parent /\ u.sched = t.sched /\ u.agg = t.agg
      /\ \A m \in Node : u.list[m] = IF m \in ToRecalc(t, n) THEN "recalc"
                                     ELSE t.list[m]
  BY DEF RecalculatedFrom, Relisted
<1>2. Rooted(u)
  BY <1>1, ToRecalcFacts DEF Rooted
<1>3. ASSUME NEW x \in Node, u.list[x] \in Settled
      PROVE  /\ u.list[x] = t.list[x] /\ x \notin ToRecalc(t, n) /\ x # n
             /\ t.parent[x] # NoNode /\ t.list[x] # "recalc"
  <2>1. u.list[x] = t.list[x] /\ x \notin ToRecalc(t, n) /\ t.list[x] \in Settled
    BY <1>1, <1>3 DEF Settled
  <2>2. t.parent[x] # NoNode /\ t.list[x] # "recalc"
    BY <2>1 DEF Rooted, Settled
  <2> QED
    BY <2>1, <2>2, ToRecalcFacts
<1>4. ASSUME NEW x \in Node \ O, u.list[x] \in Settled
      PROVE  IsAggregate(u, x)
  <2>1. IsAggregate(t, x)
    BY <1>3, <1>4 DEF AggregatesOK
  <2>2. ChildrenIn(u, x, "scheduled") \subseteq ChildrenIn(t, x, "scheduled")
    BY <1>1 DEF ChildrenIn
  <2>3. ASSUME NEW c \in ChildrenIn(t, x, "scheduled")
        PROVE  c \in ChildrenIn(u, x, "scheduled")
    <3>1. c \in Node /\ t.parent[c] = x /\ t.list[c] = "scheduled"
      BY DEF ChildrenIn
    <3>2. c \notin ToRecalc(t, n)
      BY <1>3, <1>4, <3>1, ToRecalcFacts
    <3> QED
      BY <1>1, <3>1, <3>2 DEF ChildrenIn
  <2> QED
    BY <1>1, <2>1, <2>2, <2>3, SameAggregate
<1>5. \A x \in Node : /\ u.list[x] = "scheduled" => u.agg[x] < Never
                      /\ u.list[x] = "unscheduled" => u.agg[x] = Never
  BY <1>1, <1>3 DEF AggregatesOK, Settled
<1> QED
  BY <1>2, <1>4, <1>5 DEF AggregatesOK

(* Children leave: their parent is recalculated unless the earliest stays. *)
LEMMA RemovedAggregates ==
  ASSUME NEW t \in TreeType, NEW u, NEW C \in SUBSET Node, NEW p \in Node, NEW O,
         Rooted(t), Removed(t, u, C, p), AggregatesOK(t, O),
         \A c \in C : t.parent[c] = p
  PROVE  AggregatesOK(u, O) /\ Rooted(u)
<1>1. PICK g : /\ Gone(t, g, C)
               /\ \/ RecalculatedFrom(g, u, p)
                  \/ /\ u = g
                     /\ \/ \A c \in C : t.list[c] # "scheduled"
                        \/ \E h \in ChildrenIn(t, p, "scheduled") \ C :
                             \A c \in ChildrenIn(t, p, "scheduled") : t.agg[h] <= t.agg[c]
  BY DEF Removed
<1>2. /\ g \in TreeType /\ g.sched = t.sched /\ g.agg = t.agg
      /\ \A x \in Node : g.parent[x] = IF x \in C THEN NoNode ELSE t.parent[x]
      /\ \A x \in Node : g.list[x] = IF x \in C THEN "none" ELSE t.list[x]
  BY <1>1 DEF Gone
<1>3. Rooted(g)
  BY <1>2 DEF Rooted
<1>4. \A x \in Node : ChildrenIn(g, x, "scheduled") = ChildrenIn(t, x, "scheduled") \ C
  <2>1. ASSUME NEW x \in Node, NEW y \in Node
        PROVE  y \in ChildrenIn(g, x, "scheduled") <=> y \in ChildrenIn(t, x, "scheduled") \ C
    BY <1>2 DEF ChildrenIn
  <2> QED
    BY <2>1 DEF ChildrenIn
<1>5. ASSUME NEW x \in Node \ (O \cup {p}), g.list[x] \in Settled
      PROVE  IsAggregate(g, x)
  <2>1. IsAggregate(t, x)
    BY <1>2, <1>5 DEF AggregatesOK, Settled
  <2>2. ChildrenIn(t, x, "scheduled") \cap C = {}
    BY <1>5 DEF ChildrenIn
  <2> QED
    BY <1>2, <1>4, <2>1, <2>2, SameAggregate
<1>6. \A x \in Node : /\ g.list[x] = "scheduled" => g.agg[x] < Never
                      /\ g.list[x] = "unscheduled" => g.agg[x] = Never
  BY <1>2 DEF AggregatesOK
<1>7. AggregatesOK(g, O \cup {p})
  BY <1>5, <1>6 DEF AggregatesOK
<1>8. CASE RecalculatedFrom(g, u, p)
  BY <1>2, <1>3, <1>7, <1>8, RecalculateAggregates
<1>9. CASE u = g /\ \A c \in C : t.list[c] # "scheduled"
  <2>1. ASSUME NEW x \in Node \ O, g.list[x] \in Settled
        PROVE  IsAggregate(g, x)
    <3>1. IsAggregate(t, x)
      BY <1>2, <2>1 DEF AggregatesOK, Settled
    <3>2. ChildrenIn(t, x, "scheduled") \cap C = {}
      BY <1>9 DEF ChildrenIn
    <3> QED
      BY <1>2, <1>4, <3>1, <3>2, SameAggregate
  <2> QED
    BY <1>3, <1>6, <1>9, <2>1 DEF AggregatesOK
<1>10. ASSUME u = g, NEW h \in ChildrenIn(t, p, "scheduled") \ C,
              \A c \in ChildrenIn(t, p, "scheduled") : t.agg[h] <= t.agg[c]
       PROVE  AggregatesOK(u, O) /\ Rooted(u)
  <2>1. ASSUME p \notin O, g.list[p] \in Settled
        PROVE  IsAggregate(g, p)
    <3>1. IsAggregate(t, p)
      BY <1>2, <2>1 DEF AggregatesOK, Settled
    <3>2. ASSUME NEW c \in ChildrenIn(t, p, "scheduled"), t.agg[c] = t.agg[p]
          PROVE  t.agg[h] = t.agg[p]
      <4>1. t.agg[p] <= t.agg[h] /\ t.agg[h] <= t.agg[c]
        BY <1>10, <3>1 DEF IsAggregate
      <4>2. t.agg[p] \in Nat /\ t.agg[h] \in Nat
        BY TreeFields, PulseAssumption DEF ChildrenIn, Times, Never
      <4> QED
        BY <3>2, <4>1, <4>2
    <3>3. h \in ChildrenIn(g, p, "scheduled")
      BY <1>4
    <3> QED
      BY <1>2, <1>4, <3>1, <3>2, <3>3, SameAggregate
  <2> QED
    BY <1>3, <1>5, <1>6, <1>10, <2>1 DEF AggregatesOK
<1> QED
  BY <1>1, <1>8, <1>9, <1>10

LEMMA PutAggregates ==
  ASSUME NEW t \in TreeType, NEW u, NEW p \in Node, NEW c \in Node, NEW O,
         Rooted(t), Put(t, u, p, c), AggregatesOK(t, O)
  PROVE  AggregatesOK(u, O)
<1>1. PICK f, m : /\ \/ t.parent[c] = NoNode /\ f = t
                     \/ t.parent[c] # NoNode /\ Removed(t, f, {c}, t.parent[c])
                  /\ Attached(f, m, p, c) /\ RecalculatedFrom(m, u, c)
  BY DEF Put
<1>2. AggregatesOK(f, O) /\ Rooted(f) /\ f \in TreeType
  <2>1. CASE t.parent[c] = NoNode /\ f = t
    BY <2>1
  <2>2. CASE t.parent[c] # NoNode /\ Removed(t, f, {c}, t.parent[c])
    <3>1. PICK q \in Node : q = t.parent[c]
      BY <2>2, TreeFields
    <3>2. PICK C \in SUBSET Node : C = {c}
      OBVIOUS
    <3>3. Removed(t, f, C, q) /\ \A x \in C : t.parent[x] = q
      BY <2>2, <3>1, <3>2
    <3> QED
      BY <3>3, RemovedAggregates, RemovedFields
  <2> QED
    BY <1>1, <2>1, <2>2
<1>3. /\ m \in TreeType /\ m.sched = f.sched /\ m.agg = f.agg /\ m.list = f.list
      /\ f.list[c] = "none" /\ m.parent[c] = p
      /\ \A x \in Node \ {c} : m.parent[x] = f.parent[x]
  BY <1>1, <1>2, TreeFields DEF Attached
<1>4. Rooted(m)
  BY <1>2, <1>3 DEF Rooted
<1>5. \A x \in Node : ChildrenIn(m, x, "scheduled") = ChildrenIn(f, x, "scheduled")
  BY <1>3 DEF ChildrenIn
<1>6. ASSUME NEW x \in Node, IsAggregate(f, x) PROVE IsAggregate(m, x)
  BY <1>3, <1>5, <1>6, SameAggregate
<1>7. AggregatesOK(m, O \cup {c})
  BY <1>2, <1>3, <1>6 DEF AggregatesOK
<1> QED
  BY <1>1, <1>3, <1>4, <1>7, RecalculateAggregates

LEMMA InvalidatedAggregates ==
  ASSUME NEW t \in TreeType, NEW u, NEW n \in Node, NEW O,
         Rooted(t), Marked(t, O), Invalidated(t, u, n), AggregatesOK(t, O)
  PROVE  AggregatesOK(u, O)
<1>1. PICK m : /\ m \in TreeType
               /\ m.parent = t.parent /\ m.list = t.list /\ m.agg = t.agg
               /\ \A x \in Node : m.sched[x] = t.sched[x] \/ (x = n /\ m.sched[x] = Never)
               /\ \/ t.valid[n] /\ RecalculatedFrom(m, u, n)
                  \/ ~ t.valid[n] /\ u = m
  BY DEF Invalidated
<1>2. Rooted(m) /\ \A x \in Node : ChildrenIn(m, x, "scheduled") = ChildrenIn(t, x, "scheduled")
  BY <1>1 DEF Rooted, ChildrenIn
<1>3. ASSUME NEW x \in Node, IsAggregate(t, x), x # n PROVE IsAggregate(m, x)
  BY <1>1, <1>2, <1>3, SameAggregate
<1>4. AggregatesOK(m, O \cup {n})
  BY <1>1, <1>3 DEF AggregatesOK
<1>5. CASE t.valid[n] /\ RecalculatedFrom(m, u, n)
  BY <1>1, <1>2, <1>4, <1>5, RecalculateAggregates
<1>6. CASE ~ t.valid[n] /\ u = m
  <2>1. n \notin O => t.list[n] \notin Settled
    BY <1>6 DEF Marked, Rooted, Settled
  <2> QED
    BY <1>1, <1>4, <1>6, <2>1 DEF AggregatesOK
<1> QED
  BY <1>1, <1>5, <1>6

(* The time of a node that GetPulseTimeAux() returns from                  *)
LEMMA AggregateFacts ==
  ASSUME NEW t, ListsOK(t), NEW n \in Node
  PROVE  LET a == Aggregate(t, n) IN
         /\ a \in Nat /\ a <= Never
         /\ a <= t.sched[n]
         /\ \A c \in ChildrenIn(t, n, "scheduled") : a <= t.agg[c]
         /\ \/ a = t.sched[n]
            \/ \E c \in ChildrenIn(t, n, "scheduled") : a = t.agg[c]
<1>1. t.agg \in [Node -> Times] /\ t.sched \in [Node -> Times] /\ Linked(t)
  BY TreeFields DEF ListsOK, Linked
<1>2. \A x \in Node : t.agg[x] \in Nat /\ t.sched[x] \in Nat /\ t.sched[x] <= Never
  BY <1>1, PulseAssumption DEF Times, Never
<1>3. Aggregate(t, n) \in Nat /\ Aggregate(t, n) <= Never
  BY AggregateType, PulseAssumption DEF Times, Never
<1>4. PICK s : s = t.kids[n]["scheduled"]
  OBVIOUS
<1>5. CASE s = <<>>
  <2>1. ChildrenIn(t, n, "scheduled") = {}
    BY <1>1, <1>4, <1>5, ListNames, LinkedFacts
  <2>2. Aggregate(t, n) = Earlier(t.sched[n], Never)
    BY <1>4, <1>5 DEF Aggregate
  <2>3. Aggregate(t, n) = t.sched[n]
    BY <1>2, <2>2 DEF Earlier
  <2> QED
    BY <1>2, <1>3, <2>1, <2>3
<1>6. CASE s # <<>>
  <2>1. PICK h : h = Head(s)
    OBVIOUS
  <2>2. /\ h \in ChildrenIn(t, n, "scheduled")
        /\ \A c \in ChildrenIn(t, n, "scheduled") : t.agg[h] <= t.agg[c]
    BY <1>4, <1>6, <2>1, HeadIsEarliest
  <2>3. Aggregate(t, n) = Earlier(t.sched[n], t.agg[h])
    BY <1>4, <1>6, <2>1 DEF Aggregate
  <2>4. h \in Node
    BY <2>2 DEF ChildrenIn
  <2>5. PICK a : a = Aggregate(t, n)
    OBVIOUS
  <2>6. /\ a <= t.sched[n] /\ a <= t.agg[h] /\ a \in {t.sched[n], t.agg[h]}
    BY <1>2, <2>3, <2>4, <2>5 DEF Earlier
  <2>7. ASSUME NEW c \in ChildrenIn(t, n, "scheduled") PROVE a <= t.agg[c]
    <3>1. t.agg[h] <= t.agg[c] /\ c \in Node
      BY <2>2 DEF ChildrenIn
    <3>2. a \in Nat
      BY <1>3, <2>5
    <3> QED
      BY <1>2, <2>4, <2>6, <3>1, <3>2
  <2> QED
    BY <1>3, <2>2, <2>5, <2>6, <2>7
<1> QED
  BY <1>5, <1>6

LEMMA ReturnedAggregates ==
  ASSUME NEW t, NEW u, NEW n \in Node, NEW O, ListsOK(t), Returned(t, u, n),
         AggregatesOK(t, O \cup {n}), t.parent[n] # NoNode => t.parent[n] \in O,
         ~ InSubtree(t, n, t.parent[n]) \/ t.parent[n] = NoNode
  PROVE  AggregatesOK(u, O)
<1>1. PICK a : a = Aggregate(t, n)
  OBVIOUS
<1>2. /\ u.parent = t.parent /\ u.sched = t.sched
      /\ \A x \in Node : u.agg[x] = IF x = n THEN a ELSE t.agg[x]
      /\ \A x \in Node \ {n} : u.list[x] = t.list[x]
  BY <1>1 DEF Returned
<1>3. /\ a \in Nat /\ a <= Never /\ a <= t.sched[n]
      /\ \A c \in ChildrenIn(t, n, "scheduled") : a <= t.agg[c]
      /\ \/ a = t.sched[n]
         \/ \E c \in ChildrenIn(t, n, "scheduled") : a = t.agg[c]
  BY <1>1, AggregateFacts
<1>4. t.parent[n] # n
  <2>1. t.parent[n] \in Node => t.parent[n] \in UpWithin(t, t.parent[n], Node)
    BY UpFacts
  <2> QED
    BY <2>1, PulseAssumption DEF InSubtree
<1>5. ASSUME NEW x \in Node, x # t.parent[n]
      PROVE  ChildrenIn(u, x, "scheduled") = ChildrenIn(t, x, "scheduled")
             /\ n \notin ChildrenIn(t, x, "scheduled")
  BY <1>2, <1>5 DEF ChildrenIn
<1>6. IsAggregate(u, n)
  <2>1. ChildrenIn(u, n, "scheduled") = ChildrenIn(t, n, "scheduled")
        /\ n \notin ChildrenIn(t, n, "scheduled")
    BY <1>4, <1>5
  <2>2. \A c \in ChildrenIn(t, n, "scheduled") : u.agg[c] = t.agg[c]
    BY <1>2, <2>1 DEF ChildrenIn
  <2>3. u.agg[n] = a /\ u.sched[n] = t.sched[n]
    BY <1>2
  <2> QED
    BY <1>3, <2>1, <2>2, <2>3 DEF IsAggregate
<1>7. ASSUME NEW x \in Node \ (O \cup {n}), u.list[x] \in Settled
      PROVE  IsAggregate(u, x)
  <2>1. x # t.parent[n] /\ IsAggregate(t, x)
    BY <1>2, <1>7, PulseAssumption DEF AggregatesOK
  <2>2. ChildrenIn(u, x, "scheduled") = ChildrenIn(t, x, "scheduled")
        /\ n \notin ChildrenIn(t, x, "scheduled")
    BY <1>5, <2>1
  <2>3. \A c \in ChildrenIn(t, x, "scheduled") : u.agg[c] = t.agg[c]
    BY <1>2, <2>2 DEF ChildrenIn
  <2>4. u.agg[x] = t.agg[x] /\ u.sched[x] = t.sched[x]
    BY <1>2, <1>7
  <2> QED
    BY <2>1, <2>2, <2>3, <2>4 DEF IsAggregate
<1>8. /\ u.list[n] = "scheduled" => u.agg[n] < Never
      /\ u.list[n] = "unscheduled" => u.agg[n] = Never
  <2>1. u.agg[n] = a /\ Never \in Nat
    BY <1>2, PulseAssumption DEF Never
  <2>2. CASE t.parent[n] = NoNode /\ u.list = t.list
    BY <2>2 DEF ListsOK, Linked
  <2>3. CASE a = t.agg[n] /\ u.list = t.list
    BY <2>1, <2>3 DEF AggregatesOK
  <2>4. CASE u.list[n] = IF a = Never THEN "unscheduled" ELSE "scheduled"
    BY <1>3, <2>1, <2>4
  <2> QED
    BY <1>1, <2>2, <2>3, <2>4 DEF Returned
<1> QED
  BY <1>2, <1>6, <1>7, <1>8 DEF AggregatesOK
-----------------------------------------------------------------------------
(***************************************************************************)
(* The calls under way, from the innermost to the root                     *)
(***************************************************************************)
LEMMA ChainKept ==
  ASSUME LoopOK, ChainOK, phase' = phase, stack' \in Seq(Call), Len(stack') = Len(stack),
         \A i \in 1 .. Len(stack) : stack'[i].node = stack[i].node,
         \A n \in OnStack :
           \/ tree'.parent[n] = NoNode
           \/ phase = "handle" /\ tree'.list[n] = "recalc"
           \/ /\ tree'.parent[n] = tree.parent[n]
              /\ phase = "handle" /\ tree.list[n] = "recalc" => tree'.list[n] = "recalc"
  PROVE  ChainOK'
<1>1. SUFFICES ASSUME NEW i \in 1 .. Len(stack), NEW n, n = stack[i].node
               PROVE  \/ tree'.parent[n] = NoNode
                      \/ phase = "handle" /\ tree'.list[n] = "recalc"
                      \/ i < Len(stack) /\ tree'.parent[n] = stack[i + 1].node
  <2>1. \A i \in 1 .. Len(stack) : i < Len(stack) => stack'[i + 1].node = stack[i + 1].node
    BY DEF LoopOK
  <2> QED
    BY <1>1, <2>1 DEF ChainOK
<1>2. n \in OnStack
  <2>1. i \in DOMAIN stack
    BY DEF LoopOK
  <2> QED
    BY <1>1, <2>1 DEF OnStack
<1>3. \/ tree.parent[n] = NoNode
      \/ phase = "handle" /\ tree.list[n] = "recalc"
      \/ i < Len(stack) /\ tree.parent[n] = stack[i + 1].node
  BY <1>1 DEF ChainOK
<1> QED
  BY <1>2, <1>3

LEMMA ChainPush ==
  ASSUME LoopOK, ChainOK, phase' = phase, NEW x \in Call, stack' = <<x>> \o stack,
         tree'.parent = tree.parent, tree'.list = tree.list,
         \/ tree.parent[x.node] = NoNode
         \/ stack # <<>> /\ tree.parent[x.node] = Top.node
  PROVE  ChainOK'
<1>1. stack \in Seq(Call) /\ Len(stack) \in Nat
  BY DEF LoopOK
<1>2. /\ Len(stack') = Len(stack) + 1 /\ stack'[1] = x
      /\ \A i \in 1 .. Len(stack) : stack'[i + 1] = stack[i]
  BY <1>1, PushFacts
<1>3. stack # <<>> => 1 \in 1 .. Len(stack) /\ Top = stack[1]
  BY <1>1 DEF Top
<1>4. SUFFICES ASSUME NEW i \in 1 .. Len(stack) + 1, NEW n, n = stack'[i].node
               PROVE  \/ tree.parent[n] = NoNode
                      \/ phase = "handle" /\ tree.list[n] = "recalc"
                      \/ i < Len(stack) + 1 /\ tree.parent[n] = stack'[i + 1].node
  BY <1>2 DEF ChainOK
<1>5. CASE i = 1
  <2>1. n = x.node
    BY <1>2, <1>4, <1>5
  <2>2. stack # <<>> => 1 < Len(stack) + 1 /\ Top = stack'[1 + 1]
    BY <1>1, <1>2, <1>3
  <2> QED
    BY <1>5, <2>1, <2>2
<1>6. CASE i # 1
  <2>1. PICK j \in 1 .. Len(stack) : i = j + 1
    <3>1. i - 1 \in 1 .. Len(stack) /\ i = (i - 1) + 1
      BY <1>1, <1>6
    <3> QED
      BY <3>1
  <2>2. n = stack[j].node
    BY <1>2, <1>4, <2>1
  <2>3. \/ tree.parent[n] = NoNode
        \/ phase = "handle" /\ tree.list[n] = "recalc"
        \/ j < Len(stack) /\ tree.parent[n] = stack[j + 1].node
    BY <2>2 DEF ChainOK
  <2>4. j < Len(stack) => j + 1 \in 1 .. Len(stack) /\ j + 1 < Len(stack) + 1
    BY <1>1
  <2>5. j < Len(stack) => stack'[i + 1] = stack[j + 1] /\ i < Len(stack) + 1
    BY <1>2, <2>1, <2>4
  <2> QED
    BY <2>3, <2>5
<1> QED
  BY <1>5, <1>6

LEMMA ChainPop ==
  ASSUME LoopOK, ChainOK, stack # <<>>, phase' = phase, stack' = Tail(stack),
         tree'.parent = tree.parent,
         phase = "handle" =>
           \A n \in Node : tree.list[n] = "recalc" => tree'.list[n] = "recalc"
  PROVE  ChainOK'
<1>1. stack \in Seq(Call) /\ Len(stack) \in Nat /\ OnStack \subseteq Node
  BY EmptyStack DEF LoopOK
<1>2. /\ Len(stack') = Len(stack) - 1
      /\ \A i \in 1 .. Len(stack) - 1 : stack'[i] = stack[i + 1]
  BY <1>1, PopFacts
<1>3. SUFFICES ASSUME NEW i \in 1 .. Len(stack) - 1, NEW n, n = stack'[i].node
               PROVE  \/ tree.parent[n] = NoNode
                      \/ phase = "handle" /\ tree'.list[n] = "recalc"
                      \/ i < Len(stack) - 1 /\ tree.parent[n] = stack'[i + 1].node
  BY <1>2 DEF ChainOK
<1>4. PICK j \in 1 .. Len(stack) : j = i + 1
  BY <1>1
<1>5. n = stack[j].node /\ n \in Node
  <2>1. n = stack[j].node /\ j \in DOMAIN stack
    BY <1>1, <1>2, <1>3, <1>4
  <2> QED
    BY <1>1, <2>1 DEF OnStack
<1>6. \/ tree.parent[n] = NoNode
      \/ phase = "handle" /\ tree.list[n] = "recalc"
      \/ j < Len(stack) /\ tree.parent[n] = stack[j + 1].node
  BY <1>5 DEF ChainOK
<1>7. j < Len(stack) => i + 1 \in 1 .. Len(stack) - 1 /\ i < Len(stack) - 1
  BY <1>1, <1>4
<1>8. j < Len(stack) => stack'[i + 1] = stack[j + 1]
  BY <1>2, <1>4, <1>7
<1> QED
  BY <1>5, <1>6, <1>7, <1>8

(* The parent of the innermost node, when it returns, is a node that waits *)
(* for it.                                                                 *)
LEMMA ChainTop ==
  ASSUME LoopOK, ChainOK, stack # <<>>, stack' = Tail(stack), phase # "handle",
         tree.parent[Top.node] # NoNode
  PROVE  tree.parent[Top.node] \in OnStack'
<1>1. stack \in Seq(Call) /\ Len(stack) \in Nat /\ 1 \in 1 .. Len(stack) /\ Top = stack[1]
  BY DEF LoopOK, Top
<1>2. /\ stack' \in Seq(Call) /\ Len(stack') = Len(stack) - 1
      /\ \A i \in 1 .. Len(stack) - 1 : stack'[i] = stack[i + 1]
  BY <1>1, PopFacts
<1>3. 1 < Len(stack) /\ tree.parent[Top.node] = stack[1 + 1].node
  BY <1>1 DEF ChainOK
<1>4. 1 \in DOMAIN stack' /\ stack'[1] = stack[1 + 1]
  BY <1>1, <1>2, <1>3
<1> QED
  BY <1>3, <1>4 DEF OnStack
-----------------------------------------------------------------------------
AggInv == Acyclic(tree) /\ AggregatesOK(tree, OnStack) /\ ChainOK /\ RootsFree

(* A call of the user that leaves the calls under way alone                *)
LEMMA UserKeepsChain ==
  ASSUME LoopOK, ChainOK, UNCHANGED <<phase, stack>>,
         \A n \in OnStack :
           \/ tree'.parent[n] = NoNode
           \/ phase = "handle" /\ tree'.list[n] = "recalc"
           \/ /\ tree'.parent[n] = tree.parent[n]
              /\ phase = "handle" /\ tree.list[n] = "recalc" => tree'.list[n] = "recalc"
  PROVE  ChainOK' /\ OnStack' = OnStack
<1>1. OnStack' = OnStack
  BY DEF OnStack
<1>2. stack' \in Seq(Call) /\ Len(stack') = Len(stack)
      /\ \A i \in 1 .. Len(stack) : stack'[i].node = stack[i].node
  BY DEF LoopOK
<1> QED
  BY <1>1, <1>2, ChainKept

LEMMA AggPutStep ==
  ASSUME ~ Reentrant, ListsInv, MarkInv, AggInv, NEW p \in Node, NEW c \in Node,
         Setup(p, c) \/ Attach(p, c)
  PROVE  AggInv'
<1>1. tree \in TreeType /\ LoopOK /\ OnStack \subseteq Node /\ Rooted(tree)
  BY EmptyStack DEF ListsInv, ListsOK, Linked, Rooted
<1>2. Put(tree, tree', p, c)
  BY SetupStep, AttachStep
<1>3. UNCHANGED <<phase, stack>> /\ c \notin Roots /\ ~ InSubtree(tree, c, p)
  BY DEF Setup, Attach, UserRuns
<1>4. phase = "handle" \/ c \notin OnStack
  <2>1. CASE Setup(p, c)
    BY <1>1, <2>1, EmptyStack DEF Setup
  <2>2. CASE Attach(p, c)
    <3>1. phase = "recalc" => c \notin OnStack
      BY <2>2 DEF Attach, MayReset
    <3>2. phase \in {"setup", "wait"} => OnStack = {}
      BY <1>1, EmptyStack
    <3> QED
      BY <1>1, <3>1, <3>2 DEF LoopOK
  <2> QED
    BY <2>1, <2>2
<1>5. /\ \A n \in Node : tree'.parent[n] = IF n = c THEN p ELSE tree.parent[n]
      /\ tree'.list[c] = "recalc"
      /\ \A n \in Node \ {c} : tree'.list[n] = "recalc" \/ tree'.list[n] = tree.list[n]
  BY <1>1, <1>2, PutFields
<1>6. ChainOK' /\ OnStack' = OnStack
  <2>1. ASSUME NEW n \in OnStack
        PROVE  \/ tree'.parent[n] = NoNode
               \/ phase = "handle" /\ tree'.list[n] = "recalc"
               \/ /\ tree'.parent[n] = tree.parent[n]
                  /\ phase = "handle" /\ tree.list[n] = "recalc" => tree'.list[n] = "recalc"
    BY <1>1, <1>4, <1>5
  <2> QED
    BY <1>1, <1>3, <2>1, UserKeepsChain DEF AggInv
<1>7. AggregatesOK(tree', OnStack)
  BY <1>1, <1>2, PutAggregates DEF AggInv
<1>8. Acyclic(tree')
  BY <1>1, <1>3, <1>5, PutAcyclic DEF AggInv
<1>9. RootsFree'
  BY <1>3, <1>5, RootFacts DEF AggInv, RootsFree
<1> QED
  BY <1>6, <1>7, <1>8, <1>9 DEF AggInv

LEMMA AggInvalidateStep ==
  ASSUME ListsInv, MarkInv, AggInv, NEW n \in Node, NEW clear \in BOOLEAN,
         Invalidate(n, clear)
  PROVE  AggInv'
<1>1. tree \in TreeType /\ LoopOK /\ OnStack \subseteq Node /\ Rooted(tree)
  BY EmptyStack DEF ListsInv, ListsOK, Linked, Rooted
<1>2. Invalidated(tree, tree', n)
  BY InvalidateStep
<1>3. UNCHANGED <<phase, stack>>
  BY DEF Invalidate, UserRuns
<1>4. /\ tree'.parent = tree.parent
      /\ \A x \in Node : tree'.list[x] = "recalc" \/ tree'.list[x] = tree.list[x]
  BY <1>1, <1>2, InvalidatedFields
<1>5. ChainOK' /\ OnStack' = OnStack
  BY <1>1, <1>3, <1>4, UserKeepsChain DEF AggInv
<1>6. AggregatesOK(tree', OnStack)
  BY <1>1, <1>2, InvalidatedAggregates DEF AggInv, MarkInv
<1>7. Acyclic(tree')
  BY <1>1, <1>4, RemovedAcyclic DEF AggInv
<1> QED
  BY <1>4, <1>5, <1>6, <1>7 DEF AggInv, RootsFree

LEMMA AggRemoveStep ==
  ASSUME ListsInv, MarkInv, AggInv, NEW n \in Node, Detach(n) \/ DetachAll(n)
  PROVE  AggInv'
<1>1. tree \in TreeType /\ LoopOK /\ OnStack \subseteq Node /\ Rooted(tree)
  BY EmptyStack DEF ListsInv, ListsOK, Linked, Rooted
<1>2. PICK p \in Node, C \in SUBSET Node :
        Removed(tree, tree', C, p) /\ \A c \in C : tree.parent[c] = p
  <2>1. CASE Detach(n)
    <3>1. tree.parent[n] \in Node /\ {n} \in SUBSET Node
      BY <1>1, <2>1, TreeFields DEF Detach
    <3> QED
      BY <2>1, <3>1, DetachStep
  <2>2. CASE DetachAll(n)
    <3>1. PICK C \in SUBSET Node : C = {c \in Node : tree.parent[c] = n}
      OBVIOUS
    <3>2. Removed(tree, tree', C, n)
      BY <2>2, <3>1, DetachAllStep
    <3> QED
      BY <3>1, <3>2
  <2> QED
    BY <2>1, <2>2
<1>3. UNCHANGED <<phase, stack>>
  BY DEF Detach, DetachAll, UserRuns
<1>4. /\ \A x \in Node : tree'.parent[x] = IF x \in C THEN NoNode ELSE tree.parent[x]
      /\ \A x \in Node \ C : tree'.list[x] = "recalc" \/ tree'.list[x] = tree.list[x]
  BY <1>1, <1>2, RemovedFields
<1>5. ChainOK' /\ OnStack' = OnStack
  BY <1>1, <1>3, <1>4, UserKeepsChain DEF AggInv
<1>6. AggregatesOK(tree', OnStack)
  BY <1>1, <1>2, RemovedAggregates DEF AggInv
<1>7. Acyclic(tree')
  BY <1>1, <1>4, RemovedAcyclic DEF AggInv
<1> QED
  BY <1>4, <1>5, <1>6, <1>7, RootFacts DEF AggInv, RootsFree

(* What AggregatesOK and Acyclic look at                                   *)
LEMMA SameAggregates ==
  ASSUME NEW t \in TreeType, NEW u, NEW O, AggregatesOK(t, O), Acyclic(t),
         u.parent = t.parent, u.list = t.list, u.agg = t.agg,
         \A x \in Node \ O : u.sched[x] = t.sched[x]
  PROVE  AggregatesOK(u, O) /\ Acyclic(u)
<1>1. \A x \in Node : ChildrenIn(u, x, "scheduled") = ChildrenIn(t, x, "scheduled")
  BY DEF ChildrenIn
<1>2. ASSUME NEW x \in Node \ O, IsAggregate(t, x) PROVE IsAggregate(u, x)
  BY <1>1, <1>2, SameAggregate
<1>3. AggregatesOK(u, O)
  BY <1>2 DEF AggregatesOK
<1> QED
  BY <1>3, RemovedAcyclic

(* A call is made, of a root or of a child of the innermost node.          *)
LEMMA AggPush ==
  ASSUME ListsInv, AggInv, phase' = phase, NEW n \in Node,
         tree'.parent = tree.parent, tree'.list = tree.list,
         tree'.sched = tree.sched, tree'.agg = tree.agg,
         \E x \in Call : x.node = n /\ stack' = <<x>> \o stack,
         \/ n \in Roots
         \/ stack # <<>> /\ tree.parent[n] = Top.node
  PROVE  AggInv'
<1>1. LoopOK /\ tree \in TreeType
  BY DEF ListsInv, ListsOK, Linked
<1>2. PICK x \in Call : x.node = n /\ stack' = <<x>> \o stack
  OBVIOUS
<1>3. OnStack \subseteq OnStack'
  BY <1>1, <1>2, OnStackPush
<1>4. ChainOK'
  BY <1>1, <1>2, ChainPush DEF AggInv, RootsFree
<1>5. AggregatesOK(tree', OnStack) /\ Acyclic(tree')
  BY <1>1, SameAggregates DEF AggInv
<1>6. AggregatesOK(tree', OnStack')
  BY <1>3, <1>5, AggregatesMore
<1> QED
  BY <1>4, <1>5, <1>6 DEF AggInv, RootsFree

LEMMA AggStep ==
  ASSUME ~ Reentrant, ListsInv, MarkInv, AggInv, [Next]_vars
  PROVE  AggInv'
<1>1. tree \in TreeType /\ LoopOK /\ OnStack \subseteq Node /\ Rooted(tree) /\ ListsOK(tree)
  BY EmptyStack DEF ListsInv, ListsOK, Linked, Rooted
<1>2. ASSUME NEW p \in Node, NEW c \in Node, Setup(p, c) \/ Attach(p, c) PROVE AggInv'
  BY <1>2, AggPutStep
<1>3. ASSUME NEW n \in Node, NEW clear \in BOOLEAN, Invalidate(n, clear) PROVE AggInv'
  BY <1>3, AggInvalidateStep
<1>4. ASSUME NEW n \in Node, Detach(n) \/ DetachAll(n) PROVE AggInv'
  BY <1>4, AggRemoveStep
<1>5. CASE CallGetPulseTimeAux
  <2>1. phase' = phase
    BY <1>5 DEF CallGetPulseTimeAux, EnterGetPulseTimeAux
  <2> QED
    BY <1>5, <2>1, CallGetPulseTimeAuxStep, AggPush
<1>6. CASE RecalculateKid
  <2>1. phase' = phase /\ stack # <<>>
    BY <1>6 DEF RecalculateKid, EnterGetPulseTimeAux
  <2>2. PICK n \in Node :
          /\ tree.parent[n] = Top.node
          /\ tree'.parent = tree.parent /\ tree'.list = tree.list
          /\ tree'.sched = tree.sched /\ tree'.agg = tree.agg
          /\ \E x \in Call : x.node = n /\ stack' = <<x>> \o stack
    BY <1>6, RecalculateKidStep DEF ChildrenIn
  <2> QED
    BY <2>1, <2>2, AggPush
<1>7. CASE CallPulseAux
  <2>1. phase' = phase /\ tree' = tree
    BY <1>7 DEF CallPulseAux, EnterPulseAux
  <2> QED
    BY <1>7, <2>1, CallPulseAuxStep, AggPush
<1>8. CASE PulseKid
  <2>1. phase' = phase /\ tree' = tree /\ stack # <<>>
    BY <1>8 DEF PulseKid, EnterPulseAux
  <2>2. PICK n \in Node :
          /\ tree.parent[n] = Top.node
          /\ \E x \in Call : x.node = n /\ stack' = <<x>> \o stack
    BY <1>8, PulseKidStep DEF ChildrenIn
  <2> QED
    BY <2>1, <2>2, AggPush
<1>9. CASE ReturnGetPulseTimeAux
  <2>1. /\ stack # <<>> /\ stack' = Tail(stack) /\ phase' = phase /\ phase = "recalc"
    BY <1>9 DEF ReturnGetPulseTimeAux
  <2>2. /\ Returned(tree, tree', Top.node) /\ Top.node \in Node
        /\ OnStack \subseteq OnStack' \cup {Top.node}
    BY <1>1, <1>9, <2>1, ReturnGetPulseTimeAuxStep, OnStackPop
  <2>3. tree'.parent = tree.parent
    BY <2>2 DEF Returned
  <2>4. tree.parent[Top.node] # NoNode => tree.parent[Top.node] \in OnStack'
    BY <1>1, <2>1, ChainTop DEF AggInv
  <2>5. AggregatesOK(tree, OnStack' \cup {Top.node})
    BY <2>2, AggregatesMore DEF AggInv
  <2>6. ~ InSubtree(tree, Top.node, tree.parent[Top.node]) \/ tree.parent[Top.node] = NoNode
    BY <2>2 DEF AggInv, Acyclic
  <2>7. AggregatesOK(tree', OnStack')
    BY <1>1, <2>2, <2>4, <2>5, <2>6, ReturnedAggregates
  <2>8. ChainOK'
    BY <1>1, <2>1, <2>3, ChainPop DEF AggInv
  <2>9. Acyclic(tree')
    BY <1>1, <2>3, RemovedAcyclic DEF AggInv
  <2> QED
    BY <2>3, <2>7, <2>8, <2>9 DEF AggInv, RootsFree
<1>10. ASSUME stack # <<>>, stack' = [stack EXCEPT ![1].pc = "kids"], phase' = phase,
              tree'.parent = tree.parent, tree'.list = tree.list, tree'.agg = tree.agg,
              \A x \in Node : x # Top.node => tree'.sched[x] = tree.sched[x]
       PROVE  AggInv'
  <2>1. OnStack' = OnStack /\ Top.node \in OnStack
    BY <1>1, <1>10, OnStackKids, TopOnStack
  <2>2. stack \in Seq(Call)
    BY <1>1 DEF LoopOK
  <2>3. /\ stack' \in Seq(Call) /\ Len(stack') = Len(stack)
        /\ \A i \in 1 .. Len(stack) : stack'[i].node = stack[i].node
    BY <1>10, <2>2, KidsFacts
  <2>4. ChainOK'
    BY <1>1, <1>10, <2>3, ChainKept DEF AggInv
  <2>5. AggregatesOK(tree', OnStack) /\ Acyclic(tree')
    BY <1>1, <1>10, <2>1, SameAggregates DEF AggInv
  <2> QED
    BY <1>10, <2>1, <2>4, <2>5 DEF AggInv, RootsFree
<1>11. ASSUME NEW t \in Times, GetPulseTime(t) PROVE AggInv'
  <2>1. stack # <<>> /\ stack' = [stack EXCEPT ![1].pc = "kids"] /\ phase' = phase
    BY <1>11 DEF GetPulseTime
  <2> QED
    BY <1>10, <1>11, <2>1, GetPulseTimeStep
<1>12. CASE Pulse
  <2>1. stack # <<>> /\ stack' = [stack EXCEPT ![1].pc = "kids"] /\ phase' = phase
    BY <1>12 DEF Pulse
  <2> QED
    BY <1>10, <1>12, <2>1, PulseStep
<1>13. CASE ReturnPulseAux
  <2>1. /\ stack # <<>> /\ stack' = Tail(stack) /\ phase' = phase
    BY <1>13 DEF ReturnPulseAux
  <2>2. /\ RecalculatedFrom(tree, tree', Top.node) /\ Top.node \in Node
        /\ OnStack \subseteq OnStack' \cup {Top.node}
    BY <1>1, <1>13, <2>1, ReturnPulseAuxStep, OnStackPop
  <2>3. /\ tree'.parent = tree.parent
        /\ \A n \in Node : tree.list[n] = "recalc" => tree'.list[n] = "recalc"
    BY <2>2 DEF RecalculatedFrom, Relisted
  <2>4. AggregatesOK(tree, OnStack' \cup {Top.node})
    BY <2>2, AggregatesMore DEF AggInv
  <2>5. AggregatesOK(tree', OnStack')
    BY <1>1, <2>2, <2>4, RecalculateAggregates
  <2>6. ChainOK'
    BY <1>1, <2>1, <2>3, ChainPop DEF AggInv
  <2>7. Acyclic(tree')
    BY <1>1, <2>3, RemovedAcyclic DEF AggInv
  <2> QED
    BY <2>3, <2>5, <2>6, <2>7 DEF AggInv, RootsFree
<1>14. CASE StartLoop \/ StartWaiting \/ Tick \/ TimeOut \/ SocketEvent
              \/ SkipPulseAux \/ EndCycle \/ UNCHANGED vars
  <2>1. tree' = tree /\ stack' = stack
    BY <1>14, LoopStep
  <2>2. OnStack' = OnStack
    BY <2>1 DEF OnStack
  <2>3. phase' = phase \/ stack = <<>>
    BY <1>1, <1>14, EmptyStack DEF StartLoop, StartWaiting, Tick, TimeOut, SocketEvent,
         StopWaiting, SkipPulseAux, EndCycle, vars
  <2>4. stack = <<>> => Len(stack) = 0
    OBVIOUS
  <2>5. ChainOK'
    BY <2>1, <2>3, <2>4 DEF AggInv, ChainOK
  <2> QED
    BY <2>1, <2>2, <2>5 DEF AggInv, RootsFree
<1> QED
  BY <1>2, <1>3, <1>4, <1>5, <1>6, <1>7, <1>8, <1>9, <1>11, <1>12, <1>13, <1>14, NextCases

LEMMA AggInit == Init => AggInv
<1>1. SUFFICES ASSUME Init PROVE AggInv
  OBVIOUS
<1>2. \A n \in Node : tree.parent[n] = NoNode /\ tree.list[n] = "none"
  BY <1>1 DEF Init
<1>3. stack = <<>> /\ Len(stack) = 0
  BY <1>1 DEF Init
<1> QED
  BY <1>2, <1>3, RootFacts DEF AggInv, Acyclic, AggregatesOK, Settled, ChainOK, RootsFree

(***************************************************************************)
(* Nodes whose aggregate cannot be relied on: those at work, and those     *)
(* that are to be recalculated or have no parent.                          *)
(***************************************************************************)
Unsettled(n) == n \in OnStack \/ tree.list[n] \notin Settled

(* The parent of such a node is one.                                       *)
LEMMA UnsettledUp ==
  ASSUME ListsInv, MarkInv, AggInv, NEW a \in Node, NEW p \in Node,
         tree.parent[a] = p, Unsettled(a)
  PROVE  Unsettled(p)
<1>1. ListsOK(tree) /\ LoopOK /\ tree.list \in [Node -> Lists \cup {"none"}]
  BY TreeFields DEF ListsInv, ListsOK, Linked
<1>2. tree.list[a] # "none" /\ p # NoNode
  BY <1>1, PulseAssumption DEF ListsOK, Listed
<1>3. CASE tree.list[a] = "recalc"
  <2>1. ChildrenIn(tree, p, "recalc") # {}
    BY <1>3 DEF ChildrenIn
  <2> QED
    BY <1>1, <2>1 DEF Unsettled, MarkInv, Marked, ListsOK, Linked, Settled
<1>4. CASE tree.list[a] # "recalc"
  <2>1. a \in OnStack
    BY <1>1, <1>2, <1>4 DEF Unsettled, Settled, Lists
  <2>2. PICK i \in DOMAIN stack : stack[i].node = a
    BY <2>1 DEF OnStack
  <2>3. stack \in Seq(Call) /\ i \in 1 .. Len(stack)
    BY <1>1 DEF LoopOK
  <2>4. i < Len(stack) /\ p = stack[i + 1].node
    BY <1>2, <1>4, <2>2, <2>3 DEF AggInv, ChainOK
  <2>5. i + 1 \in DOMAIN stack
    BY <2>3, <2>4
  <2> QED
    BY <2>4, <2>5 DEF OnStack, Unsettled
<1> QED
  BY <1>3, <1>4

(* A settled node is no later than any of its descendants.                 *)
LEMMA EarliestBound ==
  ASSUME ListsInv, MarkInv, AggInv, NEW n \in Node, NEW m \in Node,
         InSubtree(tree, n, m), ~ Unsettled(n)
  PROVE  tree.agg[n] <= tree.sched[m]
<1>1. /\ ListsOK(tree) /\ tree.agg \in [Node -> Times] /\ tree.sched \in [Node -> Times]
      /\ tree.parent \in [Node -> Node \cup {NoNode}]
  BY TreeFields DEF ListsInv, ListsOK, Linked
<1>2. /\ Never \in Nat
      /\ \A x \in Node : tree.agg[x] \in Nat /\ tree.sched[x] \in Nat /\ tree.agg[x] <= Never
  BY <1>1, PulseAssumption DEF Times, Never
<1>3. PICK S : S = {a \in Node : Unsettled(a) \/ tree.agg[a] <= tree.sched[m]}
  OBVIOUS
<1>4. \A a \in Node : ~ Unsettled(a) => IsAggregate(tree, a)
  BY DEF Unsettled, AggInv, AggregatesOK
<1>5. m \in S /\ S \in SUBSET Node
  BY <1>3, <1>4 DEF IsAggregate
<1>6. ASSUME NEW a \in S, tree.parent[a] \in Node
      PROVE  tree.parent[a] \in S
  <2>1. PICK p \in Node : p = tree.parent[a]
    BY <1>6
  <2>2. a \in Node
    BY <1>5
  <2>3. CASE Unsettled(a) \/ Unsettled(p)
    BY <1>3, <2>1, <2>2, <2>3, UnsettledUp
  <2>4. CASE ~ Unsettled(a) /\ ~ Unsettled(p)
    <3>1. tree.agg[a] <= tree.sched[m] /\ IsAggregate(tree, p)
      BY <1>3, <1>4, <2>4
    <3>2. CASE tree.list[a] = "scheduled"
      <4>1. a \in ChildrenIn(tree, p, "scheduled")
        BY <2>1, <2>2, <3>2 DEF ChildrenIn
      <4>2. tree.agg[p] <= tree.agg[a]
        BY <3>1, <4>1 DEF IsAggregate
      <4>3. tree.agg[p] <= tree.sched[m]
        BY <1>2, <2>2, <3>1, <4>2
      <4> QED
        BY <1>3, <2>1, <4>3
    <3>3. CASE tree.list[a] = "unscheduled"
      <4>1. tree.agg[a] = Never
        BY <2>2, <3>3 DEF AggInv, AggregatesOK
      <4>2. tree.agg[p] <= tree.sched[m]
        BY <1>2, <2>2, <3>1, <4>1
      <4> QED
        BY <1>3, <2>1, <4>2
    <3> QED
      BY <2>4, <3>2, <3>3 DEF Unsettled, Settled
  <2> QED
    BY <2>3, <2>4
<1>7. UpWithin(tree, m, Node) \subseteq S
  BY <1>5, <1>6, UpWithinLeast
<1> QED
  BY <1>3, <1>7 DEF InSubtree

(* A child has fewer descendants than its parent.                          *)
LEMMA FewerBelow ==
  ASSUME Acyclic(tree), NEW c \in Node, NEW p \in Node, tree.parent[c] = p
  PROVE  LET Below(x) == {y \in Node : InSubtree(tree, x, y)} IN
         /\ Cardinality(Below(c)) \in Nat /\ Cardinality(Below(p)) \in Nat
         /\ Cardinality(Below(c)) < Cardinality(Below(p))
<1> DEFINE Below(x) == {y \in Node : InSubtree(tree, x, y)}
<1>1. p # NoNode
  BY PulseAssumption
<1>2. ASSUME NEW y \in Below(c) PROVE y \in Below(p)
  <2>1. y \in Node /\ c \in UpWithin(tree, y, Node)
    BY DEF InSubtree
  <2>2. p \in UpWithin(tree, y, Node)
    BY <2>1, UpFacts
  <2> QED
    BY <2>1, <2>2 DEF InSubtree
<1>3. p \in Below(p) /\ p \notin Below(c)
  <2>1. p \in UpWithin(tree, p, Node)
    BY UpFacts
  <2>2. ~ InSubtree(tree, c, p)
    BY <1>1 DEF Acyclic
  <2> QED
    BY <2>1, <2>2 DEF InSubtree
<1>4. PICK C, P : C = Below(c) /\ P = Below(p)
  OBVIOUS
<1>5. C \in SUBSET P /\ P \in SUBSET Node /\ C # P
  BY <1>2, <1>3, <1>4
<1>6. IsFiniteSet(P) /\ IsFiniteSet(C)
  BY <1>5, FS_Subset, PulseAssumption
<1>7. Cardinality(C) <= Cardinality(P) /\ Cardinality(C) # Cardinality(P)
  BY <1>5, <1>6, FS_Subset
<1>8. Cardinality(C) \in Nat /\ Cardinality(P) \in Nat
  BY <1>6, FS_CardinalityType
<1>9. Cardinality(C) < Cardinality(P)
  BY <1>7, <1>8
<1> QED
  BY <1>4, <1>8, <1>9

(* It is the time that one of its descendants, or itself, asked for.       *)
LEMMA EarliestAttained ==
  ASSUME ListsInv, MarkInv, AggInv, NEW n \in Node, ~ Unsettled(n)
  PROVE  \E m \in Node : InSubtree(tree, n, m) /\ tree.agg[n] = tree.sched[m]
<1> DEFINE Below(x) == {y \in Node : InSubtree(tree, x, y)}
           Same == {x \in Node : /\ InSubtree(tree, n, x) /\ ~ Unsettled(x)
                                 /\ tree.agg[x] = tree.agg[n]}
           Sizes == {Cardinality(Below(x)) : x \in Same}
<1>1. n \in Same
  BY UpFacts DEF InSubtree
<1>2. Sizes \in SUBSET Nat /\ Sizes # {}
  <2>1. ASSUME NEW x \in Same PROVE Cardinality(Below(x)) \in Nat
    <3>1. Below(x) \in SUBSET Node
      OBVIOUS
    <3>2. IsFiniteSet(Below(x))
      BY <3>1, FS_Subset, PulseAssumption
    <3> QED
      BY <3>2, FS_CardinalityType
  <2> QED
    BY <1>1, <2>1
<1>3. PICK i \in Sizes : \A j \in Sizes : i <= j
  BY <1>2, LeastOf
<1>4. PICK x \in Same : i = Cardinality(Below(x))
  OBVIOUS
<1>5. CASE tree.agg[x] = tree.sched[x]
  BY <1>5
<1>6. CASE tree.agg[x] # tree.sched[x]
  <2>1. PICK c \in ChildrenIn(tree, x, "scheduled") : tree.agg[x] = tree.agg[c]
    BY <1>6 DEF Unsettled, AggInv, AggregatesOK, IsAggregate
  <2>2. c \in Node /\ tree.parent[c] = x /\ x \in Node
    BY DEF ChildrenIn
  <2>3. ~ Unsettled(c)
    BY <2>2, UnsettledUp
  <2>4. InSubtree(tree, n, c)
    <3>1. x \in UpWithin(tree, c, Node)
      BY <2>2, UpFacts
    <3> QED
      BY <2>2, <3>1, UpFacts DEF InSubtree
  <2>5. c \in Same
    BY <2>1, <2>2, <2>3, <2>4
  <2>6. Cardinality(Below(c)) < Cardinality(Below(x))
        /\ Cardinality(Below(c)) \in Nat /\ Cardinality(Below(x)) \in Nat
    BY <2>2, FewerBelow DEF AggInv
  <2>7. Cardinality(Below(x)) <= Cardinality(Below(c))
    BY <1>3, <1>4, <2>5
  <2> HIDE DEF Below
  <2> QED
    BY <2>6, <2>7
<1> QED
  BY <1>5, <1>6

(***************************************************************************)
(* Unless GetPulseTime() invalidates what is being recalculated, the time  *)
(* under which a node stands in its parent's lists is the earliest of its  *)
(* own subtree, whatever callbacks do to the trees: no walk passes over a  *)
(* due node, and none is made for nothing (_aggregatePulseTime).           *)
(***************************************************************************)
THEOREM AggregatesCorrect ==
  ASSUME ~ Reentrant
  PROVE  Spec => []AggregateIsEarliest
<1>1. Init => ListsInv /\ MarkInv /\ AggInv
  BY ListsInit, MarkInit, AggInit
<1>2. ListsInv /\ MarkInv /\ AggInv /\ [Next]_vars => (ListsInv /\ MarkInv /\ AggInv)'
  BY ListsStep, MarkStep, AggStep
<1>3. ListsInv /\ MarkInv /\ AggInv => AggregateIsEarliest
  <2>1. SUFFICES ASSUME ListsInv, MarkInv, AggInv, NEW n \in Node \ OnStack,
                        tree.list[n] \in {"scheduled", "unscheduled"},
                        NEW times,
                        times = {tree.sched[m] : m \in {x \in Node : InSubtree(tree, n, x)}}
                 PROVE  /\ tree.agg[n] \in times /\ \A t \in times : tree.agg[n] <= t
                        /\ tree.list[n] = "scheduled" <=> tree.agg[n] < Never
    BY DEF AggregateIsEarliest
  <2>2. ~ Unsettled(n)
    BY <2>1 DEF Unsettled, Settled
  <2>3. tree.agg[n] \in times
    BY <2>1, <2>2, EarliestAttained
  <2>4. ASSUME NEW t \in times PROVE tree.agg[n] <= t
    BY <2>1, <2>2, EarliestBound
  <2>5. tree.list[n] = "scheduled" <=> tree.agg[n] < Never
    <3>1. /\ tree.list[n] = "scheduled" => tree.agg[n] < Never
          /\ tree.list[n] = "unscheduled" => tree.agg[n] = Never
      BY <2>1 DEF AggInv, AggregatesOK
    <3>2. Never \in Nat
      BY PulseAssumption DEF Never
    <3> QED
      BY <2>1, <3>1, <3>2
  <2> QED
    BY <2>3, <2>4, <2>5
<1> QED
  BY <1>1, <1>2, <1>3, PTL DEF Spec
-----------------------------------------------------------------------------
(***************************************************************************)
(* Who is moved to be recalculated: only ancestors of what was touched.    *)
(***************************************************************************)
LEMMA RemovedMoves ==
  ASSUME NEW t \in TreeType, NEW u, NEW C \in SUBSET Node, NEW p \in Node,
         Removed(t, u, C, p), \A c \in C : t.parent[c] = p,
         NEW x \in Node, u.list[x] = "recalc", t.list[x] # "recalc"
  PROVE  \E c \in C : x \in UpWithin(t, c, Node)
<1>1. PICK g : Gone(t, g, C) /\ ((C # {} /\ RecalculatedFrom(g, u, p)) \/ u = g)
  BY DEF Removed
<1>2. /\ \A y \in Node : g.parent[y] = IF y \in C THEN NoNode ELSE t.parent[y]
      /\ \A y \in Node : g.list[y] = IF y \in C THEN "none" ELSE t.list[y]
  BY <1>1 DEF Gone
<1>3. C # {} /\ RecalculatedFrom(g, u, p)
  BY <1>1, <1>2
<1>4. x \in ToRecalc(g, p)
  BY <1>2, <1>3 DEF RecalculatedFrom
<1>5. x \in UpWithin(g, p, Node)
  BY <1>4, ToRecalcFacts
<1>6. x \in UpWithin(t, p, Node)
  BY <1>2, <1>5, UpFewer
<1>7. PICK c \in C : TRUE
  BY <1>3
<1>8. p \in UpWithin(t, c, Node)
  BY UpFacts
<1> QED
  BY <1>6, <1>8, UpFacts

LEMMA PutMoves ==
  ASSUME NEW t \in TreeType, NEW u, NEW p \in Node, NEW c \in Node, Put(t, u, p, c),
         NEW x \in Node, u.list[x] = "recalc", t.list[x] # "recalc"
  PROVE  x \in UpWithin(t, c, Node) \cup UpWithin(t, p, Node)
<1>1. PICK f, m : /\ \/ t.parent[c] = NoNode /\ f = t
                     \/ t.parent[c] # NoNode /\ Removed(t, f, {c}, t.parent[c])
                  /\ Attached(f, m, p, c) /\ RecalculatedFrom(m, u, c)
  BY DEF Put
<1>2. /\ f \in TreeType
      /\ \A y \in Node : f.parent[y] \in {t.parent[y], NoNode}
      /\ f.list[x] = "recalc" => x \in UpWithin(t, c, Node)
  <2>1. CASE t.parent[c] = NoNode /\ f = t
    BY <2>1
  <2>2. CASE t.parent[c] # NoNode /\ Removed(t, f, {c}, t.parent[c])
    <3>1. PICK q \in Node : q = t.parent[c]
      BY <2>2, TreeFields
    <3>2. PICK C \in SUBSET Node : C = {c}
      OBVIOUS
    <3>3. Removed(t, f, C, q) /\ \A y \in C : t.parent[y] = q
      BY <2>2, <3>1, <3>2
    <3>4. /\ f \in TreeType
          /\ \A y \in Node : f.parent[y] = IF y \in C THEN NoNode ELSE t.parent[y]
      BY <3>3, RemovedFields
    <3>5. f.list[x] = "recalc" => \E y \in C : x \in UpWithin(t, y, Node)
      BY <3>3, RemovedMoves
    <3> QED
      BY <3>2, <3>4, <3>5
  <2> QED
    BY <1>1, <2>1, <2>2
<1>3. CASE f.list[x] = "recalc"
  BY <1>2, <1>3
<1>4. CASE f.list[x] # "recalc"
  <2>1. m.list = f.list /\ \A y \in Node : m.parent[y] = IF y = c THEN p ELSE f.parent[y]
    BY <1>1, <1>2, TreeFields DEF Attached
  <2>2. x \in ToRecalc(m, c)
    BY <1>1, <1>4, <2>1 DEF RecalculatedFrom
  <2>3. x \in UpWithin(m, c, Node)
    BY <2>2, ToRecalcFacts
  <2>4. UpWithin(m, c, Node) \subseteq UpWithin(f, c, Node) \cup UpWithin(f, p, Node)
    BY <2>1, UpPut
  <2>5. UpWithin(f, c, Node) \subseteq UpWithin(t, c, Node)
    BY <1>2, UpFewer
  <2>6. UpWithin(f, p, Node) \subseteq UpWithin(t, p, Node)
    BY <1>2, UpFewer
  <2> QED
    BY <2>3, <2>4, <2>5, <2>6
<1> QED
  BY <1>3, <1>4

LEMMA InvalidatedMoves ==
  ASSUME NEW t \in TreeType, NEW u, NEW n \in Node, Invalidated(t, u, n),
         NEW x \in Node, u.list[x] = "recalc", t.list[x] # "recalc"
  PROVE  x \in UpWithin(t, n, Node)
<1>1. PICK m : /\ m.parent = t.parent /\ m.list = t.list
               /\ RecalculatedFrom(m, u, n) \/ u = m
  BY DEF Invalidated
<1>2. x \in ToRecalc(m, n)
  BY <1>1 DEF RecalculatedFrom
<1>3. x \in UpWithin(m, n, Node)
  BY <1>2, ToRecalcFacts
<1>4. UpWithin(m, n, Node) \subseteq UpWithin(t, n, Node)
  BY <1>1, UpFewer
<1> QED
  BY <1>3, <1>4
-----------------------------------------------------------------------------
(***************************************************************************)
(* The roots that were served                                              *)
(***************************************************************************)
RootsInv == RootsOK /\ DueOK

(* What a call of the user may do to the trees                             *)
UserCall ==
  /\ phase # "wait" /\ UNCHANGED <<phase, pos, stack, now, min>>
  /\ tree'.agg = tree.agg
  /\ \A x \in Node : tree'.list[x] = "scheduled" =>
       tree.list[x] = "scheduled" /\ tree'.parent[x] = tree.parent[x]
  /\ \A x \in Node : tree'.valid[x] => tree.valid[x]
  /\ \A x \in Node : tree'.sched[x] = tree.sched[x]
                     \/ (tree'.sched[x] = Never /\ ~ tree'.valid[x])

(* While a recalculation is under way, it leaves the roots alone that were *)
(* recalculated before.                                                    *)
LeavesAlone(r) ==
  /\ tree.valid[r] => tree'.valid[r]
  /\ tree'.sched[r] = tree.sched[r]
  /\ \A x \in Node : tree'.parent[x] = r => tree.parent[x] = r /\ tree'.list[x] = tree.list[x]

LEMMA TouchedRoot ==
  ASSUME ~ Reentrant, LoopOK, phase = "recalc", NEW n \in Node, MayTouch(n),
         NEW i \in 1 .. pos - 1
  PROVE  RootSeq[i] \notin UpWithin(tree, n, Node)
<1>1. i \in DOMAIN RootSeq /\ ~ (i >= pos)
  BY PulseAssumption DEF LoopOK
<1> QED
  BY <1>1 DEF MayTouch, Place, InSubtree

LEMMA PutCall ==
  ASSUME ~ Reentrant, ListsInv, NEW p \in Node, NEW c \in Node, Setup(p, c) \/ Attach(p, c)
  PROVE  UserCall /\ (phase = "recalc" => \A i \in 1 .. pos - 1 : LeavesAlone(RootSeq[i]))
<1>1. tree \in TreeType /\ LoopOK
  BY DEF ListsInv, ListsOK, Linked
<1>2. Put(tree, tree', p, c)
  BY SetupStep, AttachStep
<1>3. phase # "wait" /\ UNCHANGED <<phase, pos, stack, now, min>>
  BY <1>1 DEF Setup, Attach, UserRuns, LoopOK
<1>4. /\ \A n \in Node : tree'.parent[n] = IF n = c THEN p ELSE tree.parent[n]
      /\ \A n \in Node : tree'.valid[n] => tree.valid[n]
      /\ \A n \in Node \ {c} : tree.valid[n] => tree'.valid[n]
      /\ tree'.sched = tree.sched /\ tree'.agg = tree.agg
      /\ tree'.list[c] = "recalc"
      /\ \A n \in Node \ {c} : tree'.list[n] = "recalc" \/ tree'.list[n] = tree.list[n]
  BY <1>1, <1>2, PutFields
<1>5. UserCall
  BY <1>3, <1>4 DEF UserCall
<1>6. ASSUME phase = "recalc", NEW i \in 1 .. pos - 1, NEW r \in Node, r = RootSeq[i]
      PROVE  LeavesAlone(r)
  <2>1. MayTouch(p) /\ MayTouch(c)
    BY <1>6 DEF Setup, Attach, MayReset
  <2>2. r \notin UpWithin(tree, c, Node)
    BY <1>1, <1>6, <2>1, TouchedRoot
  <2>3. r \notin UpWithin(tree, p, Node)
    BY <1>1, <1>6, <2>1, TouchedRoot
  <2>4. r # c /\ r # p
    BY <2>2, <2>3, UpFacts
  <2>5. ASSUME NEW x \in Node, tree'.parent[x] = r
        PROVE  tree.parent[x] = r /\ tree'.list[x] = tree.list[x]
    <3>1. tree.parent[x] = r /\ x # c
      BY <1>4, <2>4, <2>5
    <3>2. x \notin UpWithin(tree, c, Node) /\ x \notin UpWithin(tree, p, Node)
      BY <2>2, <2>3, <3>1, UpFacts
    <3>3. ~ (tree'.list[x] = "recalc" /\ tree.list[x] # "recalc")
      BY <1>1, <1>2, <3>2, PutMoves
    <3> QED
      BY <1>4, <3>1, <3>3
  <2> QED
    BY <1>4, <2>4, <2>5 DEF LeavesAlone
<1>7. \A i \in 1 .. pos - 1 : RootSeq[i] \in Node
  BY <1>1, RootFacts DEF LoopOK
<1> QED
  BY <1>5, <1>6, <1>7

LEMMA InvalidateCall ==
  ASSUME ~ Reentrant, ListsInv, NEW n \in Node, NEW clear \in BOOLEAN, Invalidate(n, clear)
  PROVE  UserCall /\ (phase = "recalc" => \A i \in 1 .. pos - 1 : LeavesAlone(RootSeq[i]))
<1>1. tree \in TreeType /\ LoopOK
  BY DEF ListsInv, ListsOK, Linked
<1>2. Invalidated(tree, tree', n)
  BY InvalidateStep
<1>3. phase # "wait" /\ UNCHANGED <<phase, pos, stack, now, min>>
  BY <1>1 DEF Invalidate, UserRuns, LoopOK
<1>4. /\ tree'.parent = tree.parent /\ tree'.agg = tree.agg
      /\ \A x \in Node : tree'.valid[x] <=> tree.valid[x] /\ x # n
      /\ \A x \in Node : tree'.sched[x] = tree.sched[x] \/ (x = n /\ tree'.sched[x] = Never)
      /\ \A x \in Node : tree'.list[x] = "recalc" \/ tree'.list[x] = tree.list[x]
  BY <1>1, <1>2, InvalidatedFields
<1>5. UserCall
  BY <1>3, <1>4 DEF UserCall
<1>6. ASSUME phase = "recalc", NEW i \in 1 .. pos - 1, NEW r \in Node, r = RootSeq[i]
      PROVE  LeavesAlone(r)
  <2>1. MayTouch(n)
    BY DEF Invalidate, MayReset
  <2>2. r \notin UpWithin(tree, n, Node)
    BY <1>1, <1>6, <2>1, TouchedRoot
  <2>3. r # n
    BY <2>2, UpFacts
  <2>4. ASSUME NEW x \in Node, tree'.parent[x] = r
        PROVE  tree.parent[x] = r /\ tree'.list[x] = tree.list[x]
    <3>1. tree.parent[x] = r
      BY <1>4, <2>4
    <3>2. x \notin UpWithin(tree, n, Node)
      BY <2>2, <3>1, UpFacts
    <3>3. ~ (tree'.list[x] = "recalc" /\ tree.list[x] # "recalc")
      BY <1>1, <1>2, <3>2, InvalidatedMoves
    <3> QED
      BY <1>4, <3>1, <3>3
  <2> QED
    BY <1>4, <2>3, <2>4 DEF LeavesAlone
<1>7. \A i \in 1 .. pos - 1 : RootSeq[i] \in Node
  BY <1>1, RootFacts DEF LoopOK
<1> QED
  BY <1>5, <1>6, <1>7

LEMMA RemoveCall ==
  ASSUME ~ Reentrant, ListsInv, NEW n \in Node, Detach(n) \/ DetachAll(n)
  PROVE  UserCall /\ (phase = "recalc" => \A i \in 1 .. pos - 1 : LeavesAlone(RootSeq[i]))
<1>1. tree \in TreeType /\ LoopOK
  BY DEF ListsInv, ListsOK, Linked
<1>2. PICK p \in Node, C \in SUBSET Node :
        /\ Removed(tree, tree', C, p)
        /\ \A c \in C : tree.parent[c] = p /\ MayTouch(c)
  <2>1. CASE Detach(n)
    <3>1. tree.parent[n] \in Node /\ {n} \in SUBSET Node /\ MayTouch(n)
      BY <1>1, <2>1, TreeFields DEF Detach, MayReset
    <3> QED
      BY <2>1, <3>1, DetachStep
  <2>2. CASE DetachAll(n)
    <3>1. PICK C \in SUBSET Node : C = {c \in Node : tree.parent[c] = n}
      OBVIOUS
    <3>2. Removed(tree, tree', C, n)
      BY <2>2, <3>1, DetachAllStep
    <3>3. \A c \in C : tree.parent[c] = n /\ MayTouch(c)
      BY <2>2, <3>1 DEF DetachAll, MayReset
    <3> QED
      BY <3>2, <3>3
  <2> QED
    BY <2>1, <2>2
<1>3. phase # "wait" /\ UNCHANGED <<phase, pos, stack, now, min>>
  BY <1>1 DEF Detach, DetachAll, UserRuns, LoopOK
<1>4. /\ \A x \in Node : tree'.parent[x] = IF x \in C THEN NoNode ELSE tree.parent[x]
      /\ \A x \in Node : tree'.valid[x] <=> tree.valid[x] /\ x \notin C
      /\ tree'.sched = tree.sched /\ tree'.agg = tree.agg
      /\ \A x \in C : tree'.list[x] = "none"
      /\ \A x \in Node \ C : tree'.list[x] = "recalc" \/ tree'.list[x] = tree.list[x]
  BY <1>1, <1>2, RemovedFields
<1>5. UserCall
  BY <1>3, <1>4 DEF UserCall
<1>6. ASSUME phase = "recalc", NEW i \in 1 .. pos - 1, NEW r \in Node, r = RootSeq[i]
      PROVE  LeavesAlone(r)
  <2>1. \A c \in C : r \notin UpWithin(tree, c, Node)
    BY <1>1, <1>2, <1>6, TouchedRoot
  <2>2. r \notin C
    BY <2>1, UpFacts
  <2>3. ASSUME NEW x \in Node, tree'.parent[x] = r
        PROVE  tree.parent[x] = r /\ tree'.list[x] = tree.list[x]
    <3>1. tree.parent[x] = r /\ x \notin C
      BY <1>4, <2>3, PulseAssumption
    <3>2. \A c \in C : x \notin UpWithin(tree, c, Node)
      BY <2>1, <3>1, UpFacts
    <3>3. ~ (tree'.list[x] = "recalc" /\ tree.list[x] # "recalc")
      BY <1>1, <1>2, <3>2, RemovedMoves
    <3> QED
      BY <1>4, <3>1, <3>3
  <2> QED
    BY <1>4, <2>2, <2>3 DEF LeavesAlone
<1>7. \A i \in 1 .. pos - 1 : RootSeq[i] \in Node
  BY <1>1, RootFacts DEF LoopOK
<1> QED
  BY <1>5, <1>6, <1>7

(* What NotBefore and Asked look at                                        *)
LEMMA AskedKept ==
  ASSUME NEW r \in Node, NotBefore(r), Asked(r), LeavesAlone(r),
         tree'.agg = tree.agg, min' = min
  PROVE  NotBefore(r)' /\ Asked(r)'
<1>1. \A k : ChildrenIn(tree', r, k) \subseteq ChildrenIn(tree, r, k)
  BY DEF LeavesAlone, ChildrenIn
<1>2. ChildrenIn(tree', r, "recalc") = {}
  BY <1>1 DEF Asked
<1>3. tree'.valid[r] /\ tree'.sched[r] = tree.sched[r]
  BY DEF Asked, LeavesAlone
<1>4. Asked(r)'
  BY <1>2, <1>3 DEF Asked
<1>5. NotBefore(r)'
  BY <1>1, <1>3 DEF NotBefore
<1> QED
  BY <1>4, <1>5

(* What NotBefore and Pulsed look at                                       *)
LEMMA PulsedKept ==
  ASSUME ListsInv, NEW r \in Node, tree'.agg = tree.agg, now' = now,
         \A x \in Node : tree'.list[x] = "scheduled" =>
           tree.list[x] = "scheduled" /\ tree'.parent[x] = tree.parent[x],
         tree'.valid[r] => tree.valid[r],
         tree'.sched[r] = tree.sched[r] \/ (tree'.sched[r] = Never /\ ~ tree'.valid[r])
  PROVE  (NotBefore(r) => NotBefore(r)') /\ (Pulsed(r) => Pulsed(r)')
<1>1. ChildrenIn(tree', r, "scheduled") \subseteq ChildrenIn(tree, r, "scheduled")
  BY DEF ChildrenIn
<1>2. tree.agg[r] <= Never
  <2>1. tree.agg[r] \in Times
    BY TreeFields DEF ListsInv, ListsOK, Linked
  <2> QED
    BY <2>1, PulseAssumption DEF Times, Never
<1>3. NotBefore(r) => NotBefore(r)'
  BY <1>1, <1>2 DEF NotBefore
<1>4. Pulsed(r) => Pulsed(r)'
  BY <1>1 DEF Pulsed
<1> QED
  BY <1>3, <1>4

LEMMA UserKeepsRoots ==
  ASSUME ListsInv, RootsInv, UserCall,
         phase = "recalc" => \A i \in 1 .. pos - 1 : LeavesAlone(RootSeq[i])
  PROVE  RootsInv'
<1>1. LoopOK /\ \A i \in 1 .. pos - 1 : RootSeq[i] \in Node
  BY RootFacts DEF ListsInv, LoopOK
<1>2. /\ phase # "wait" /\ UNCHANGED <<phase, pos, stack, now, min>>
      /\ tree'.agg = tree.agg
  BY DEF UserCall
<1>3. OnStack' = OnStack /\ OnStack \subseteq Node
  BY <1>1, <1>2, EmptyStack DEF OnStack
<1>4. DueOK'
  <2>1. SUFFICES ASSUME phase = "handle", NEW i \in 1 .. Len(stack), NEW n, n = stack[i].node,
                        tree'.valid[n]
                 PROVE  stack[i].pc = "callback" <=> tree'.sched[n] <= now
    BY <1>2 DEF DueOK
  <2>2. n \in OnStack
    <3>1. i \in DOMAIN stack
      BY <1>1 DEF LoopOK
    <3> QED
      BY <2>1, <3>1 DEF OnStack
  <2>3. tree.valid[n] /\ tree'.sched[n] = tree.sched[n]
    BY <1>3, <2>1, <2>2 DEF UserCall
  <2> QED
    BY <2>1, <2>3 DEF RootsInv, DueOK
<1>5. ASSUME phase = "recalc", NEW i \in 1 .. pos - 1, RootSeq[i] \notin OnStack
      PROVE  NotBefore(RootSeq[i])' /\ Asked(RootSeq[i])'
  <2>1. NotBefore(RootSeq[i]) /\ Asked(RootSeq[i]) /\ LeavesAlone(RootSeq[i])
    BY <1>5 DEF RootsInv, RootsOK
  <2> QED
    BY <1>1, <1>2, <2>1, AskedKept
<1>6. ASSUME phase = "handle", NEW r \in Roots
      PROVE  NotBefore(r)' /\ (Pulsed(r) => Pulsed(r)')
  <2>1. r \in Node /\ NotBefore(r)
    BY <1>6, RootFacts DEF RootsInv, RootsOK
  <2> QED
    BY <1>2, <2>1, PulsedKept DEF UserCall
<1>7. \A i \in 1 .. pos - 1 : RootSeq[i] \in Roots
  BY RootFacts DEF ListsInv, LoopOK
<1> QED
  BY <1>2, <1>3, <1>4, <1>5, <1>6, <1>7 DEF RootsInv, RootsOK

(* The walks of the recalculation                                          *)
LEMMA RootsPushAsk ==
  ASSUME ListsInv, RootsInv, phase = "recalc", UNCHANGED <<phase, pos, min>>,
         tree'.parent = tree.parent, tree'.list = tree.list,
         tree'.sched = tree.sched, tree'.agg = tree.agg,
         NEW n \in Node, \A x \in Node : tree'.valid[x] <=> x = n \/ tree.valid[x],
         \E x \in Call : x.node = n /\ stack' = <<x>> \o stack
  PROVE  RootsInv'
<1>1. LoopOK /\ \A i \in 1 .. pos - 1 : RootSeq[i] \in Node
  BY RootFacts DEF ListsInv, LoopOK
<1>2. OnStack \subseteq OnStack'
  BY <1>1, OnStackPush
<1>3. ASSUME NEW i \in 1 .. pos - 1, RootSeq[i] \notin OnStack'
      PROVE  NotBefore(RootSeq[i])' /\ Asked(RootSeq[i])'
  <2>1. NotBefore(RootSeq[i]) /\ Asked(RootSeq[i])
    BY <1>2, <1>3 DEF RootsInv, RootsOK
  <2>2. LeavesAlone(RootSeq[i])
    BY <1>1 DEF LeavesAlone
  <2> QED
    BY <1>1, <2>1, <2>2, AskedKept
<1> QED
  BY <1>3 DEF RootsInv, RootsOK, DueOK

LEMMA RootsGetPulseTime ==
  ASSUME ListsInv, RootsInv, NEW t \in Times, GetPulseTime(t)
  PROVE  RootsInv'
<1>1. LoopOK /\ \A i \in 1 .. pos - 1 : RootSeq[i] \in Node
  BY RootFacts DEF ListsInv, LoopOK
<1>2. /\ stack # <<>> /\ Top.node \in Node
      /\ tree'.parent = tree.parent /\ tree'.list = tree.list
      /\ tree'.valid = tree.valid /\ tree'.agg = tree.agg
      /\ \A x \in Node : tree'.sched[x] = IF x = Top.node THEN t ELSE tree.sched[x]
  BY GetPulseTimeStep
<1>3. phase = "recalc" /\ UNCHANGED <<phase, pos, min>>
  BY DEF GetPulseTime
<1>4. OnStack' = OnStack /\ Top.node \in OnStack
  BY <1>1, <1>2, OnStackKids, TopOnStack DEF GetPulseTime
<1>5. ASSUME NEW i \in 1 .. pos - 1, RootSeq[i] \notin OnStack'
      PROVE  NotBefore(RootSeq[i])' /\ Asked(RootSeq[i])'
  <2>1. NotBefore(RootSeq[i]) /\ Asked(RootSeq[i])
    BY <1>3, <1>4, <1>5 DEF RootsInv, RootsOK
  <2>2. LeavesAlone(RootSeq[i])
    BY <1>1, <1>2, <1>4, <1>5 DEF LeavesAlone
  <2> QED
    BY <1>1, <1>2, <1>3, <2>1, <2>2, AskedKept
<1> QED
  BY <1>3, <1>5 DEF RootsInv, RootsOK, DueOK

(* The loop moves on from a root when its own call returns.                *)
LEMMA LastReturn ==
  ASSUME LoopOK, stack # <<>>, pos' = NextRoot(Tail(stack)), NEW i \in 1 .. pos' - 1
  PROVE  \/ i \in 1 .. pos - 1
         \/ i = pos /\ RootSeq[i] = Top.node /\ Tail(stack) = <<>>
<1>1. stack \in Seq(Call) /\ Len(stack) \in Nat /\ Top = stack[1] /\ pos \in Nat
  BY RootFacts DEF LoopOK, Top
<1>2. Tail(stack) = <<>> => Len(stack) = 1
  BY <1>1, PopFacts
<1>3. CASE Tail(stack) # <<>>
  BY <1>3 DEF NextRoot
<1>4. CASE Tail(stack) = <<>>
  <2>1. pos' = pos + 1 /\ Top.node = RootSeq[pos]
    BY <1>1, <1>2, <1>4 DEF NextRoot, LoopOK
  <2>2. i \in 1 .. pos - 1 \/ i = pos
    BY <1>1, <2>1
  <2> QED
    BY <1>4, <2>1, <2>2
<1> QED
  BY <1>3, <1>4

LEMMA RootsReturnAsk ==
  ASSUME ListsInv, MarkInv, AggInv, RootsInv, ReturnGetPulseTimeAux
  PROVE  RootsInv'
<1>1. /\ LoopOK /\ \A i \in 1 .. pos - 1 : RootSeq[i] \in Node
      /\ tree \in TreeType /\ ListsOK(tree)
  BY RootFacts DEF ListsInv, ListsOK, Linked, LoopOK
<1>2. /\ stack # <<>> /\ stack' = Tail(stack) /\ phase = "recalc" /\ phase' = phase
      /\ pos' = NextRoot(Tail(stack))
  BY DEF ReturnGetPulseTimeAux
<1>3. PICK n \in Node : n = Top.node
  BY <1>1, <1>2, TopOnStack
<1>4. PICK a : a = Aggregate(tree, n)
  OBVIOUS
<1>5. /\ Returned(tree, tree', n) /\ ChildrenIn(tree, n, "recalc") = {}
      /\ min' = Earlier(min, a) /\ a \in Times
  BY <1>3, <1>4, ReturnGetPulseTimeAuxStep
<1>6. /\ tree'.parent = tree.parent /\ tree'.sched = tree.sched /\ tree'.valid = tree.valid
      /\ \A x \in Node : tree'.agg[x] = IF x = n THEN a ELSE tree.agg[x]
      /\ \A x \in Node \ {n} : tree'.list[x] = tree.list[x]
  BY <1>4, <1>5 DEF Returned
<1>7. /\ n \in OnStack /\ OnStack \subseteq OnStack' \cup {n}
      /\ tree.parent[n] # NoNode => tree.parent[n] \in OnStack'
  BY <1>1, <1>2, <1>3, TopOnStack, OnStackPop, ChainTop DEF AggInv
<1>8. min' <= a /\ min' <= min /\ min \in Nat /\ min' \in Nat
  <2>1. min \in Times
    BY <1>1 DEF LoopOK
  <2> QED
    BY <1>5, <2>1, EarlierType, PulseAssumption DEF Times, Never
<1>9. ASSUME NEW r \in Node, r # tree.parent[n]
      PROVE  /\ \A k : ChildrenIn(tree', r, k) = ChildrenIn(tree, r, k)
             /\ \A k : n \notin ChildrenIn(tree, r, k)
             /\ \A k : \A c \in ChildrenIn(tree, r, k) : tree'.agg[c] = tree.agg[c]
  BY <1>6, <1>9 DEF ChildrenIn
<1>10. NotBefore(n)' /\ Asked(n)'
  <2>1. n # tree.parent[n]
    <3>1. tree.parent[n] \in Node => tree.parent[n] \in UpWithin(tree, tree.parent[n], Node)
      BY UpFacts
    <3> QED
      BY <3>1, PulseAssumption DEF AggInv, Acyclic, InSubtree
  <2>2. /\ a <= tree.sched[n]
        /\ \A c \in ChildrenIn(tree, n, "scheduled") : a <= tree.agg[c]
    BY <1>1, <1>4, AggregateFacts
  <2>3. tree'.agg[n] = a /\ tree'.sched[n] = tree.sched[n]
    BY <1>6
  <2>4. NotBefore(n)'
    BY <1>9, <2>1, <2>2, <2>3 DEF NotBefore
  <2>5. tree'.valid[n]
    BY <1>2, <1>6, <1>7 DEF MarkInv, AskedOK
  <2>6. Asked(n)'
    BY <1>5, <1>8, <1>9, <2>1, <2>3, <2>5 DEF Asked
  <2> QED
    BY <2>4, <2>6
<1>11. ASSUME NEW i \in 1 .. pos' - 1, RootSeq[i] \notin OnStack'
       PROVE  NotBefore(RootSeq[i])' /\ Asked(RootSeq[i])'
  <2>1. CASE RootSeq[i] = n
    BY <1>10, <2>1
  <2>2. CASE RootSeq[i] # n
    <3>1. i \in 1 .. pos - 1
      BY <1>1, <1>2, <1>3, <2>2, LastReturn
    <3>2. PICK r \in Node : r = RootSeq[i]
      BY <1>1, <3>1
    <3>3. r \notin OnStack /\ r # tree.parent[n] /\ r # n
      BY <1>7, <1>11, <2>2, <3>2, PulseAssumption
    <3>4. NotBefore(r) /\ Asked(r)
      BY <1>2, <3>1, <3>2, <3>3 DEF RootsInv, RootsOK
    <3>5. tree'.agg[r] = tree.agg[r] /\ tree'.sched[r] = tree.sched[r] /\ tree'.valid[r] = tree.valid[r]
      BY <1>6, <3>3
    <3>6. NotBefore(r)'
      BY <1>9, <3>3, <3>4, <3>5 DEF NotBefore
    <3>7. min' <= tree'.agg[r]
      <4>1. tree.agg[r] \in Nat /\ min <= tree.agg[r]
        BY <1>1, <3>4, TreeFields, PulseAssumption DEF Times, Never, Asked
      <4> QED
        BY <1>8, <3>5, <4>1
    <3>8. Asked(r)'
      BY <1>9, <3>3, <3>4, <3>5, <3>7 DEF Asked
    <3> QED
      BY <3>2, <3>6, <3>8
  <2> QED
    BY <2>1, <2>2
<1> QED
  BY <1>2, <1>11 DEF RootsInv, RootsOK, DueOK

(* The walks that pulse                                                    *)
LEMMA RootsPushPulse ==
  ASSUME ListsInv, RootsInv, phase = "handle", tree' = tree, UNCHANGED <<phase, pos, now, min>>,
         NEW n \in Node,
         \E x \in Call : /\ x.node = n /\ stack' = <<x>> \o stack
                         /\ x.pc = IF tree.valid[n] /\ now >= tree.sched[n]
                                   THEN "callback" ELSE "kids"
  PROVE  RootsInv'
<1>1. stack \in Seq(Call) /\ Len(stack) \in Nat /\ now \in Nat /\ tree.sched[n] \in Nat
  BY TreeFields, PulseAssumption DEF ListsInv, ListsOK, Linked, LoopOK, Times, Never
<1>2. PICK x \in Call : /\ x.node = n /\ stack' = <<x>> \o stack
                        /\ x.pc = IF tree.valid[n] /\ now >= tree.sched[n]
                                  THEN "callback" ELSE "kids"
  OBVIOUS
<1>3. /\ Len(stack') = Len(stack) + 1 /\ stack'[1] = x
      /\ \A i \in 1 .. Len(stack) : stack'[i + 1] = stack[i]
  BY <1>1, <1>2, PushFacts
<1>4. ASSUME NEW i \in 1 .. Len(stack) + 1, NEW m, m = stack'[i].node, tree.valid[m]
      PROVE  stack'[i].pc = "callback" <=> tree.sched[m] <= now
  <2>1. CASE i = 1
    <3>1. m = n /\ stack'[i].pc = x.pc
      BY <1>2, <1>3, <1>4, <2>1
    <3> QED
      BY <1>1, <1>2, <1>4, <3>1
  <2>2. CASE i # 1
    <3>1. PICK j \in 1 .. Len(stack) : i = j + 1
      <4>1. i - 1 \in 1 .. Len(stack) /\ i = (i - 1) + 1
        BY <1>1, <2>2
      <4> QED
        BY <4>1
    <3>2. stack'[i] = stack[j]
      BY <1>3, <3>1
    <3> QED
      BY <1>4, <3>2 DEF RootsInv, DueOK
  <2> QED
    BY <2>1, <2>2
<1>5. DueOK'
  BY <1>3, <1>4 DEF DueOK
<1>6. RootsOK'
  BY DEF RootsInv, RootsOK, NotBefore, Pulsed
<1> QED
  BY <1>5, <1>6 DEF RootsInv

LEMMA RootsPulse ==
  ASSUME ListsInv, RootsInv, Pulse
  PROVE  RootsInv'
<1>1. LoopOK /\ stack \in Seq(Call) /\ OnStack \subseteq Node
  BY EmptyStack DEF ListsInv, LoopOK
<1>2. /\ stack # <<>> /\ Top.node \in Node
      /\ tree'.parent = tree.parent /\ tree'.list = tree.list
      /\ tree'.sched = tree.sched /\ tree'.agg = tree.agg
      /\ \A x \in Node : tree'.valid[x] <=> x # Top.node /\ tree.valid[x]
  BY PulseStep
<1>3. /\ phase = "handle" /\ UNCHANGED <<phase, pos, now, min>>
      /\ stack' = [stack EXCEPT ![1].pc = "kids"]
  BY DEF Pulse
<1>4. /\ Len(stack') = Len(stack)
      /\ \A i \in 2 .. Len(stack) : stack'[i] = stack[i]
      /\ \A i \in 1 .. Len(stack) : stack'[i].node = stack[i].node
  BY <1>1, <1>2, <1>3, KidsFacts
<1>5. ASSUME NEW i \in 1 .. Len(stack), NEW m, m = stack'[i].node, tree'.valid[m]
      PROVE  stack'[i].pc = "callback" <=> tree'.sched[m] <= now
  <2>1. m = stack[i].node /\ m \in Node
    <3>1. i \in DOMAIN stack
      BY <1>1
    <3> QED
      BY <1>1, <1>4, <1>5, <3>1 DEF OnStack
  <2>2. m # Top.node /\ tree.valid[m]
    BY <1>2, <1>5, <2>1
  <2>3. i # 1
    BY <1>1, <1>2, <2>1, <2>2, TopOnStack
  <2>4. i \in 2 .. Len(stack)
    BY <1>1, <2>3
  <2> QED
    BY <1>2, <1>3, <1>4, <2>1, <2>2, <2>4 DEF RootsInv, DueOK
<1>6. DueOK'
  BY <1>3, <1>4, <1>5 DEF DueOK
<1>7. ASSUME NEW r \in Roots
      PROVE  NotBefore(r)' /\ (Pulsed(r) => Pulsed(r)')
  <2>1. r \in Node /\ NotBefore(r)
    BY <1>3, RootFacts DEF RootsInv, RootsOK
  <2> QED
    BY <1>2, <1>3, <2>1, PulsedKept
<1>8. \A i \in 1 .. pos - 1 : RootSeq[i] \in Roots
  BY <1>1, RootFacts DEF LoopOK
<1> QED
  BY <1>3, <1>6, <1>7, <1>8 DEF RootsInv, RootsOK

LEMMA RootsReturnPulse ==
  ASSUME ListsInv, RootsInv, ReturnPulseAux
  PROVE  RootsInv'
<1>1. /\ LoopOK /\ stack \in Seq(Call) /\ Len(stack) \in Nat /\ ListsOK(tree)
      /\ tree \in TreeType /\ now \in Nat
  BY PulseAssumption DEF ListsInv, LoopOK, ListsOK, Linked
<1>2. /\ phase = "handle" /\ UNCHANGED <<phase, now, min>> /\ stack # <<>>
      /\ stack' = Tail(stack) /\ pos' = NextRoot(Tail(stack))
      /\ Top.pc = "kids" /\ ~ DueKid(Top.node)
  BY DEF ReturnPulseAux
<1>3. PICK n \in Node : n = Top.node
  BY <1>1, <1>2, TopOnStack
<1>4. RecalculatedFrom(tree, tree', n)
  BY <1>3, ReturnPulseAuxStep
<1>5. /\ tree'.parent = tree.parent /\ tree'.sched = tree.sched
      /\ tree'.valid = tree.valid /\ tree'.agg = tree.agg
      /\ \A x \in Node : tree'.list[x] = "recalc" \/ tree'.list[x] = tree.list[x]
  BY <1>4 DEF RecalculatedFrom, Relisted
<1>6. /\ Len(stack') = Len(stack) - 1
      /\ \A i \in 1 .. Len(stack) - 1 : stack'[i] = stack[i + 1]
  BY <1>1, <1>2, PopFacts
<1>7. DueOK'
  <2>1. ASSUME NEW i \in 1 .. Len(stack) - 1, NEW m, m = stack'[i].node, tree.valid[m]
        PROVE  stack'[i].pc = "callback" <=> tree.sched[m] <= now
    <3>1. i + 1 \in 1 .. Len(stack) /\ stack'[i] = stack[i + 1]
      BY <1>1, <1>6
    <3> QED
      BY <1>2, <2>1, <3>1 DEF RootsInv, DueOK
  <2> QED
    BY <1>2, <1>5, <1>6, <2>1 DEF DueOK
<1>8. ASSUME NEW r \in Roots
      PROVE  NotBefore(r)' /\ (Pulsed(r) => Pulsed(r)')
  <2>1. r \in Node /\ NotBefore(r)
    BY <1>2, RootFacts DEF RootsInv, RootsOK
  <2> QED
    BY <1>2, <1>5, <2>1, PulsedKept
<1>9. Pulsed(n)
  <2>1. \A x \in Node : tree.agg[x] \in Nat /\ tree.sched[x] \in Nat
    BY <1>1, TreeFields, PulseAssumption DEF Times, Never
  <2>2. ASSUME tree.valid[n] PROVE now < tree.sched[n]
    <3>1. 1 \in 1 .. Len(stack) /\ Top = stack[1]
      BY <1>1, <1>2 DEF Top
    <3>2. ~ (tree.sched[n] <= now)
      BY <1>2, <1>3, <2>2, <3>1 DEF RootsInv, DueOK
    <3> QED
      BY <1>1, <2>1, <3>2
  <2>3. ASSUME NEW c \in ChildrenIn(tree, n, "scheduled") PROVE now < tree.agg[c]
    <3>1. tree.kids[n]["scheduled"] # <<>>
      BY <1>1, ListNames, LinkedFacts DEF ListsOK
    <3>2. PICK h : h = Head(tree.kids[n]["scheduled"])
      OBVIOUS
    <3>3. h \in Node /\ c \in Node /\ tree.agg[h] <= tree.agg[c]
      BY <1>1, <3>1, <3>2, HeadIsEarliest DEF ChildrenIn
    <3>4. ~ (now >= tree.agg[h])
      BY <1>2, <1>3, <3>1, <3>2 DEF DueKid
    <3> QED
      BY <1>1, <2>1, <3>3, <3>4
  <2> QED
    BY <2>2, <2>3 DEF Pulsed
<1>10. ASSUME NEW i \in 1 .. pos' - 1 PROVE Pulsed(RootSeq[i])'
  <2>1. i \in 1 .. Len(RootSeq)
    <3>1. LoopOK'
      BY ReturnPulseAuxStep DEF ListsInv
    <3>2. pos' \in 1 .. Len(RootSeq) + 1
      BY <3>1 DEF LoopOK
    <3>3. PICK len \in Nat : len = Len(RootSeq)
      BY RootFacts
    <3>4. PICK next \in 1 .. len + 1 : next = pos'
      BY <3>2, <3>3
    <3>5. i \in 1 .. next - 1
      BY <3>4
    <3>6. i \in 1 .. len
      BY <3>5
    <3> QED
      BY <3>3, <3>6
  <2>2. PICK r \in Roots : r = RootSeq[i]
    BY <2>1, RootFacts
  <2>3. Pulsed(r)
    BY <1>1, <1>2, <1>3, <1>9, <2>2, LastReturn DEF RootsInv, RootsOK
  <2> QED
    BY <1>8, <2>2, <2>3
<1> QED
  BY <1>2, <1>7, <1>8, <1>10 DEF RootsInv, RootsOK

LEMMA RootsLoopStep ==
  ASSUME ListsInv, RootsInv,
         StartLoop \/ StartWaiting \/ Tick \/ TimeOut \/ SocketEvent
           \/ SkipPulseAux \/ EndCycle \/ UNCHANGED vars
  PROVE  RootsInv'
<1>1. LoopOK /\ tree \in TreeType /\ Len(RootSeq) \in Nat /\ pos \in Nat
  BY RootFacts DEF ListsInv, ListsOK, Linked, LoopOK
<1>2. tree' = tree /\ stack' = stack /\ OnStack' = OnStack
  BY LoopStep DEF OnStack
<1>3. CASE StartLoop
  <2>1. pos = 1 /\ pos' = 1 /\ phase' = "recalc"
    BY <1>3 DEF StartLoop, RootsInv, RootsOK
  <2> QED
    BY <2>1 DEF RootsInv, RootsOK, DueOK
<1>4. CASE StartWaiting
  <2>1. phase = "recalc" /\ phase' = "wait" /\ pos' = pos /\ min' = min
    BY <1>4 DEF StartWaiting
  <2> QED
    BY <1>2, <2>1 DEF RootsInv, RootsOK, DueOK, NotBefore, Asked
<1>5. CASE Tick
  <2>1. phase = "wait" /\ phase' = "wait" /\ pos' = pos /\ min' = min
    BY <1>5 DEF Tick
  <2> QED
    BY <1>2, <2>1 DEF RootsInv, RootsOK, DueOK, NotBefore, Asked
<1>6. CASE TimeOut \/ SocketEvent
  <2>1. phase = "wait" /\ phase' = "handle" /\ pos' = 1
    BY <1>6 DEF TimeOut, SocketEvent, StopWaiting
  <2>2. OnStack = {} /\ stack = <<>> /\ pos = Len(RootSeq) + 1
    BY <1>1, <2>1, EmptyStack DEF LoopOK
  <2>3. ASSUME NEW r \in Roots PROVE NotBefore(r)
    <3>1. PICK i \in 1 .. Len(RootSeq) : RootSeq[i] = r
      BY RootFacts
    <3>2. i \in 1 .. pos - 1
      BY <1>1, <2>2
    <3> QED
      BY <2>1, <2>2, <3>1, <3>2 DEF RootsInv, RootsOK
  <2>4. Len(stack) = 0
    BY <2>2
  <2> QED
    BY <1>2, <2>1, <2>3, <2>4 DEF RootsInv, RootsOK, DueOK, NotBefore
<1>7. CASE SkipPulseAux
  <2>1. /\ phase = "handle" /\ phase' = phase /\ pos' = pos + 1 /\ now' = now
        /\ pos \in 1 .. Len(RootSeq) /\ now < tree.agg[RootSeq[pos]]
    BY <1>1, <1>7 DEF SkipPulseAux, LoopOK
  <2>2. PICK r \in Roots : r = RootSeq[pos]
    BY <2>1, RootFacts
  <2>3. \A x \in Node : tree.agg[x] \in Nat /\ tree.sched[x] \in Nat
    BY <1>1, TreeFields, PulseAssumption DEF Times, Never
  <2>4. Pulsed(r)
    <3>1. NotBefore(r) /\ r \in Node /\ now \in Nat /\ now < tree.agg[r]
      BY <1>1, <2>1, <2>2, RootFacts, PulseAssumption DEF RootsInv, RootsOK, LoopOK
    <3>2. now < tree.sched[r]
      BY <2>3, <3>1 DEF NotBefore
    <3>3. ASSUME NEW c \in ChildrenIn(tree, r, "scheduled") PROVE now < tree.agg[c]
      <4>1. c \in Node /\ tree.agg[r] <= tree.agg[c]
        BY <3>1 DEF NotBefore, ChildrenIn
      <4> QED
        BY <2>3, <3>1, <4>1
    <3> QED
      BY <3>2, <3>3 DEF Pulsed
  <2>5. ASSUME NEW i \in 1 .. pos' - 1 PROVE Pulsed(RootSeq[i])
    <3>1. i \in 1 .. pos - 1 \/ i = pos
      BY <1>1, <2>1
    <3> QED
      BY <2>1, <2>2, <2>4, <3>1 DEF RootsInv, RootsOK
  <2> QED
    BY <1>2, <2>1, <2>5 DEF RootsInv, RootsOK, DueOK, NotBefore, Pulsed
<1>8. CASE EndCycle
  <2>1. phase' = "recalc" /\ pos' = 1
    BY <1>8 DEF EndCycle
  <2> QED
    BY <2>1 DEF RootsInv, RootsOK, DueOK
<1>9. CASE UNCHANGED vars
  BY <1>2, <1>9 DEF RootsInv, RootsOK, DueOK, NotBefore, Asked, Pulsed, vars
<1> QED
  BY <1>3, <1>4, <1>5, <1>6, <1>7, <1>8, <1>9

LEMMA RootsStep ==
  ASSUME ~ Reentrant, ListsInv, MarkInv, AggInv, RootsInv, [Next]_vars
  PROVE  RootsInv'
<1>1. ASSUME NEW p \in Node, NEW c \in Node, Setup(p, c) \/ Attach(p, c) PROVE RootsInv'
  BY <1>1, PutCall, UserKeepsRoots
<1>2. ASSUME NEW n \in Node, NEW clear \in BOOLEAN, Invalidate(n, clear) PROVE RootsInv'
  BY <1>2, InvalidateCall, UserKeepsRoots
<1>3. ASSUME NEW n \in Node, Detach(n) \/ DetachAll(n) PROVE RootsInv'
  BY <1>3, RemoveCall, UserKeepsRoots
<1>4. CASE CallGetPulseTimeAux
  <2>1. phase = "recalc" /\ UNCHANGED <<phase, pos, min>>
    BY <1>4 DEF CallGetPulseTimeAux, EnterGetPulseTimeAux
  <2> QED
    BY <1>4, <2>1, CallGetPulseTimeAuxStep, RootsPushAsk
<1>5. CASE RecalculateKid
  <2>1. phase = "recalc" /\ UNCHANGED <<phase, pos, min>>
    BY <1>5 DEF RecalculateKid, EnterGetPulseTimeAux
  <2> QED
    BY <1>5, <2>1, RecalculateKidStep, RootsPushAsk
<1>6. CASE ReturnGetPulseTimeAux
  BY <1>6, RootsReturnAsk
<1>7. ASSUME NEW t \in Times, GetPulseTime(t) PROVE RootsInv'
  BY <1>7, RootsGetPulseTime
<1>8. CASE CallPulseAux
  <2>1. phase = "handle" /\ tree' = tree /\ UNCHANGED <<phase, pos, now, min>>
    BY <1>8 DEF CallPulseAux, EnterPulseAux
  <2> QED
    BY <1>8, <2>1, CallPulseAuxStep, RootsPushPulse
<1>9. CASE PulseKid
  <2>1. phase = "handle" /\ tree' = tree /\ UNCHANGED <<phase, pos, now, min>>
    BY <1>9 DEF PulseKid, EnterPulseAux
  <2> QED
    BY <1>9, <2>1, PulseKidStep, RootsPushPulse
<1>10. CASE Pulse
  BY <1>10, RootsPulse
<1>11. CASE ReturnPulseAux
  BY <1>11, RootsReturnPulse
<1>12. CASE StartLoop \/ StartWaiting \/ Tick \/ TimeOut \/ SocketEvent
              \/ SkipPulseAux \/ EndCycle \/ UNCHANGED vars
  BY <1>12, RootsLoopStep
<1> QED
  BY <1>1, <1>2, <1>3, <1>4, <1>5, <1>6, <1>7, <1>8, <1>9, <1>10, <1>11, <1>12, NextCases

LEMMA RootsInit == Init => RootsInv
BY DEF Init, RootsInv, RootsOK, DueOK

(* An ancestor of n other than n has a child that is n or an ancestor.     *)
LEMMA UpThroughChild ==
  ASSUME NEW t, NEW n \in Node, NEW r \in UpWithin(t, n, Node), r # n
  PROVE  \E a \in UpWithin(t, n, Node) : t.parent[a] = r
<1>1. SUFFICES ASSUME \A a \in UpWithin(t, n, Node) : t.parent[a] # r PROVE FALSE
  OBVIOUS
<1>2. PICK S : S = UpWithin(t, n, Node) \ {r}
  OBVIOUS
<1>3. S \in SUBSET Node /\ n \in S
  BY <1>2, UpFacts
<1>4. \A m \in S : t.parent[m] \in Node => t.parent[m] \in S
  BY <1>1, <1>2, UpFacts
<1>5. UpWithin(t, n, Node) \subseteq S
  BY <1>3, <1>4, UpWithinLeast
<1> QED
  BY <1>2, <1>5

(***************************************************************************)
(* Unless GetPulseTime() invalidates what is being recalculated, PulseAux()*)
(* leaves no due node behind in a tree it has walked, whatever callbacks   *)
(* do to the trees meanwhile: a node that it missed is under one that the  *)
(* next recalculation will reach.                                          *)
(***************************************************************************)
THEOREM PulsesEveryone ==
  ASSUME ~ Reentrant
  PROVE  Spec => []NobodySkipped
<1> DEFINE Inv == ListsInv /\ MarkInv /\ AggInv /\ RootsInv
<1>1. Init => Inv
  BY ListsInit, MarkInit, AggInit, RootsInit
<1>2. Inv /\ [Next]_vars => Inv'
  BY ListsStep, MarkStep, AggStep, RootsStep
<1>3. Inv => NobodySkipped
  <2>1. SUFFICES ASSUME Inv, phase = "handle", stack = <<>>,
                        NEW i \in 1 .. pos - 1, NEW n \in Node,
                        InSubtree(tree, RootSeq[i], n), tree.valid[n], tree.sched[n] <= now,
                        \A a \in Node : InSubtree(tree, a, n) => tree.list[a] # "recalc"
                 PROVE  FALSE
    BY DEF NobodySkipped
  <2>2. /\ LoopOK /\ OnStack = {} /\ now \in Nat /\ now < Never
        /\ \A x \in Node : tree.agg[x] \in Nat /\ tree.sched[x] \in Nat
    BY <2>1, EmptyStack, TreeFields, PulseAssumption
       DEF ListsInv, ListsOK, Linked, LoopOK, Times, Never
  <2>3. PICK r \in Node : r = RootSeq[i] /\ Pulsed(r)
    BY <2>1, RootFacts DEF LoopOK, ListsInv, RootsInv, RootsOK
  <2>4. r # n
    <3>1. r = n => now < tree.sched[n]
      BY <2>1, <2>3 DEF Pulsed
    <3> QED
      BY <2>1, <2>2, <3>1
  <2>5. PICK a \in UpWithin(tree, n, Node) : tree.parent[a] = r
    BY <2>1, <2>3, <2>4, UpThroughChild DEF InSubtree
  <2>6. a \in Node /\ InSubtree(tree, a, n) /\ tree.list[a] # "recalc"
    BY <2>1, UpFacts DEF InSubtree
  <2>7. tree.list[a] \in Settled
    <3>1. tree.list[a] \in Lists \cup {"none"}
      BY <2>1, <2>6, TreeFields DEF ListsInv, ListsOK, Linked
    <3>2. tree.list[a] # "none"
      BY <2>1, <2>5, <2>6, PulseAssumption DEF ListsInv, ListsOK, Listed
    <3> QED
      BY <2>6, <3>1, <3>2 DEF Lists, Settled
  <2>8. ~ Unsettled(a)
    BY <2>2, <2>7 DEF Unsettled
  <2>9. tree.agg[a] <= tree.sched[n]
    BY <2>1, <2>6, <2>8, EarliestBound
  <2>10. tree.agg[a] <= now /\ tree.agg[a] # Never
    BY <2>1, <2>2, <2>6, <2>9, PulseAssumption DEF Never
  <2>11. tree.list[a] = "scheduled"
    BY <2>1, <2>6, <2>7, <2>10 DEF AggInv, AggregatesOK, Settled
  <2>12. now < tree.agg[a]
    BY <2>3, <2>5, <2>6, <2>11 DEF Pulsed, ChildrenIn
  <2> QED
    BY <2>2, <2>6, <2>10, <2>12
<1> QED
  BY <1>1, <1>2, <1>3, PTL DEF Spec
-----------------------------------------------------------------------------
(***************************************************************************)
(* The schedule: what the trees look like from outside                     *)
(***************************************************************************)
Member == {n \in Node : Place(n) # {}}
WantOf(n) == IF tree.valid[n] /\ ~ Asking(n) THEN tree.sched[n] ELSE MaxTime + 2
Want == [n \in Node |-> WantOf(n)]

FullInv == ListsInv /\ MarkInv /\ AggInv /\ RootsInv

LEMMA FullInvariant == ASSUME ~ Reentrant PROVE Spec => []FullInv
<1>1. Init => FullInv
  BY ListsInit, MarkInit, AggInit, RootsInit DEF FullInv
<1>2. FullInv /\ [Next]_vars => FullInv'
  BY ListsStep, MarkStep, AggStep, RootsStep DEF FullInv
<1> QED
  BY <1>1, <1>2, PTL DEF Spec

(* The members are those below the roots: only the parents matter.         *)
LEMMA SameMembers ==
  ASSUME tree'.parent = tree.parent
  PROVE  Member' = Member
<1>1. \A n \in Node : UpWithin(tree', n, Node) = UpWithin(tree, n, Node)
  BY DEF UpWithin
<1>2. \A n \in Node : Place(n)' = Place(n)
  BY <1>1 DEF Place, InSubtree
<1> QED
  BY <1>2 DEF Member

(* Nobody is being asked unless the innermost call is in its callback.     *)
LEMMA NotAsking ==
  ASSUME stack = <<>> \/ Top.pc = "kids" \/ phase # "recalc", NEW n
  PROVE  ~ Asking(n)
BY DEF Asking

LEMMA WantType ==
  ASSUME ListsInv, NEW n \in Node
  PROVE  /\ WantOf(n) \in 0 .. MaxTime + 2
         /\ tree.sched[n] \in 0 .. MaxTime + 1
<1>1. tree.sched[n] \in Times
  BY TreeFields DEF ListsInv, ListsOK, Linked
<1> QED
  BY <1>1, PulseAssumption DEF WantOf, Times, Never

(* All above a node that is at work or to be recalculated are as well.     *)
LEMMA UnsettledAbove ==
  ASSUME ListsInv, MarkInv, AggInv, NEW n \in Node, Unsettled(n),
         NEW a \in UpWithin(tree, n, Node)
  PROVE  Unsettled(a)
<1>1. PICK S : S = {x \in Node : Unsettled(x)}
  OBVIOUS
<1>2. n \in S /\ S \in SUBSET Node
  BY <1>1
<1>3. ASSUME NEW x \in S, tree.parent[x] \in Node PROVE tree.parent[x] \in S
  BY <1>1, <1>2, <1>3, UnsettledUp
<1>4. UpWithin(tree, n, Node) \subseteq S
  BY <1>2, <1>3, UpWithinLeast
<1> QED
  BY <1>1, <1>4

(* When the loop is about to wait, every node below a root has been asked, *)
(* and the loop will wait no longer than it wants.                         *)
LEMMA AllAsked ==
  ASSUME FullInv, phase = "recalc", pos > Len(RootSeq), NEW n \in Member
  PROVE  tree.valid[n] /\ min <= tree.sched[n]
<1>1. /\ ListsInv /\ MarkInv /\ AggInv /\ RootsInv /\ LoopOK /\ ListsOK(tree)
      /\ tree \in TreeType /\ n \in Node
  BY DEF FullInv, ListsInv, ListsOK, Linked, Member
<1>2. stack = <<>> /\ OnStack = {}
  BY <1>1, EmptyStack
<1>3. PICK i \in DOMAIN RootSeq : InSubtree(tree, RootSeq[i], n)
  BY DEF Member, Place
<1>4. i \in 1 .. pos - 1 /\ RootSeq[i] \in Node
  BY <1>1, PulseAssumption DEF LoopOK
<1>5. PICK r \in Node : r = RootSeq[i] /\ NotBefore(r) /\ Asked(r)
  BY <1>1, <1>2, <1>4 DEF RootsInv, RootsOK
<1>6. /\ min \in Nat /\ min <= Never /\ Never \in Nat
      /\ \A x \in Node : tree.agg[x] \in Nat /\ tree.sched[x] \in Nat
  <2>1. min \in Times
    BY <1>1 DEF LoopOK
  <2> QED
    BY <1>1, <2>1, TreeFields, PulseAssumption DEF Times, Never
<1>7. tree.valid[r] /\ min <= tree.agg[r] /\ tree.agg[r] <= tree.sched[r]
      /\ ChildrenIn(tree, r, "recalc") = {}
      /\ \A c \in ChildrenIn(tree, r, "scheduled") : tree.agg[r] <= tree.agg[c]
  BY <1>5 DEF NotBefore, Asked
<1>8. CASE r = n
  BY <1>6, <1>7, <1>8
<1>9. CASE r # n
  <2>1. r \in UpWithin(tree, n, Node)
    BY <1>3, <1>5 DEF InSubtree
  <2>2. PICK a \in UpWithin(tree, n, Node) : tree.parent[a] = r
    BY <1>1, <1>9, <2>1, UpThroughChild
  <2>3. a \in Node
    BY <1>1, UpFacts
  <2>4. tree.list[a] \in Settled
    <3>1. tree.list[a] \in Lists \cup {"none"}
      BY <1>1, <2>3, TreeFields
    <3>2. tree.list[a] # "none"
      BY <1>1, <2>2, <2>3, PulseAssumption DEF ListsOK, Listed
    <3>3. tree.list[a] # "recalc"
      BY <1>7, <2>2, <2>3 DEF ChildrenIn
    <3> QED
      BY <3>1, <3>2, <3>3 DEF Lists, Settled
  <2>5. ~ Unsettled(a)
    BY <1>2, <2>4 DEF Unsettled
  <2>6. tree.agg[a] <= tree.sched[n]
    BY <1>1, <2>3, <2>5, EarliestBound DEF InSubtree
  <2>7. min <= tree.agg[a]
    <3>1. CASE tree.list[a] = "scheduled"
      <4>1. tree.agg[r] <= tree.agg[a]
        BY <1>7, <2>2, <2>3, <3>1 DEF ChildrenIn
      <4> QED
        BY <1>6, <1>7, <2>3, <4>1
    <3>2. CASE tree.list[a] = "unscheduled"
      BY <1>1, <1>6, <2>3, <3>2 DEF AggInv, AggregatesOK
    <3> QED
      BY <2>4, <3>1, <3>2 DEF Settled
  <2>8. min <= tree.sched[n]
    BY <1>1, <1>6, <2>3, <2>6, <2>7
  <2>9. ~ Unsettled(n)
    BY <1>1, <2>5, UnsettledAbove
  <2>10. tree.parent[n] # NoNode
    <3>1. tree.parent[n] \notin Node => UpWithin(tree, n, Node) = {n}
      BY <1>1, UpOfRoot
    <3> QED
      BY <1>9, <2>1, <3>1, PulseAssumption
  <2>11. tree.valid[n]
    BY <1>1, <2>9, <2>10 DEF MarkInv, Marked, Unsettled, Settled
  <2> QED
    BY <2>8, <2>11
<1> QED
  BY <1>8, <1>9

(* The steps of the schedule, in terms of Member and Want                  *)
LEMMA AbstractStutter ==
  ASSUME Member' = Member, \A n \in Node : WantOf(n)' = WantOf(n), now' = now,
         Pulsing' = Pulsing, calls' = calls,
         phase # "wait", phase' # "wait", phase # "setup", phase' # "setup"
  PROVE  UNCHANGED Schedule!vars
<1>1. Want' = Want
  BY DEF Want
<1> QED
  BY <1>1 DEF Schedule!vars, Member, Want, WantOf

LEMMA AbstractChange ==
  ASSUME ListsInv', \A n \in Node : WantOf(n)' \in {WantOf(n), MaxTime + 2}, now' = now,
         Pulsing' = Pulsing, calls' = IF phase = "setup" THEN calls ELSE calls + 1,
         phase # "wait", phase' = phase
  PROVE  Schedule!Change
<1>1. Member' \in SUBSET Node
  BY DEF Member
<1>2. Want' \in [Node -> 0 .. MaxTime + 2]
  <2>1. \A n \in Node : tree'.sched[n] \in Times
    BY TreeFields DEF ListsInv, ListsOK, Linked
  <2>2. \A n \in Node : WantOf(n)' \in 0 .. MaxTime + 2
    BY <2>1, PulseAssumption DEF WantOf, Times, Never
  <2> QED
    BY <2>2 DEF Want
<1>3. \A n \in Node : Want'[n] \in {Want[n], MaxTime + 2}
  BY DEF Want
<1> QED
  BY <1>1, <1>2, <1>3 DEF Schedule!Change, Schedule!Ask, Member, Want, WantOf

LEMMA AbstractRequest ==
  ASSUME Member' = Member, now' = now, phase = "recalc", phase' = "recalc", calls' = calls,
         NEW n \in Node, NEW t \in Times, WantOf(n) = MaxTime + 2,
         \A m \in Node : WantOf(m)' = IF m = n THEN t ELSE WantOf(m)
  PROVE  Schedule!Next
<1>1. Want' = [Want EXCEPT ![n] = t] /\ Want[n] = MaxTime + 2
  BY DEF Want
<1>2. t \in 0 .. MaxTime + 1
  BY DEF Times, Never
<1>3. Pulsing = {} /\ Pulsing' = {}
  BY DEF Pulsing
<1>4. Schedule!Request(n, t)
  BY <1>1, <1>3 DEF Schedule!Request, Schedule!Ask, Member, Want, WantOf
<1> QED
  BY <1>2, <1>4 DEF Schedule!Next, Schedule!Never

LEMMA AbstractRing ==
  ASSUME tree' = tree, now' = now, phase = "handle", phase' = "handle", calls' = calls,
         NEW n \in Node, WantOf(n) <= now, Pulsing = {}, Pulsing' = {n}
  PROVE  Schedule!Next
<1>1. \A m \in Node : WantOf(m)' = WantOf(m)
  BY DEF WantOf, Asking
<1>2. Want' = Want /\ Want[n] <= now
  BY <1>1 DEF Want
<1>3. Member' = Member
  BY SameMembers
<1>4. Schedule!Ring(n)
  BY <1>2, <1>3 DEF Schedule!Ring, Member, Want, WantOf
<1> QED
  BY <1>4 DEF Schedule!Next

LEMMA AbstractExpire ==
  ASSUME Member' = Member, now' = now, phase = "handle", phase' = "handle", calls' = calls,
         NEW n \in Node, Pulsing = {n}, Pulsing' = {},
         \A m \in Node : WantOf(m)' = IF m = n THEN MaxTime + 2 ELSE WantOf(m)
  PROVE  Schedule!Next
<1>1. Want' = [Want EXCEPT ![n] = MaxTime + 2]
  BY DEF Want
<1>2. Schedule!Expire(n)
  BY <1>1 DEF Schedule!Expire, Schedule!Ask, Member, Want, WantOf
<1> QED
  BY <1>2 DEF Schedule!Next

LEMMA AbstractSleep ==
  ASSUME FullInv, StartWaiting
  PROVE  Schedule!Next
<1>1. /\ phase = "recalc" /\ pos > Len(RootSeq) /\ phase' = "wait"
      /\ UNCHANGED <<tree, stack, now, min, calls>>
  BY DEF StartWaiting
<1>2. stack = <<>> /\ ListsInv /\ min \in Times
  BY <1>1, EmptyStack DEF FullInv, ListsInv, LoopOK
<1>3. \A n : ~ Asking(n)
  BY <1>2, NotAsking
<1>4. \A n : ~ Asking(n)'
  BY <1>1 DEF Asking
<1>5. \A n \in Node : WantOf(n)' = WantOf(n)
  BY <1>1, <1>3, <1>4 DEF WantOf
<1>6. Want' = Want
  BY <1>5 DEF Want
<1>7. Member' = Member
  BY <1>1, SameMembers
<1>8. ASSUME NEW n \in Member
      PROVE  Want[n] # MaxTime + 2 /\ min <= Want[n]
  <2>1. tree.valid[n] /\ min <= tree.sched[n] /\ n \in Node
    BY <1>1, AllAsked DEF Member
  <2>2. Want[n] = tree.sched[n]
    BY <1>3, <2>1 DEF Want, WantOf
  <2>3. tree.sched[n] # MaxTime + 2
    BY <1>2, <2>1, WantType, PulseAssumption
  <2> QED
    BY <2>1, <2>2, <2>3
<1>9. min \in 0 .. MaxTime + 1
  BY <1>2 DEF Times, Never
<1>10. Pulsing = {} /\ Pulsing' = {}
  BY <1>1 DEF Pulsing
<1>11. Schedule!Sleep
  BY <1>1, <1>6, <1>7, <1>8, <1>9, <1>10
     DEF Schedule!Sleep, Schedule!Ask, Schedule!Never, Member, Want, WantOf
<1> QED
  BY <1>11 DEF Schedule!Next

LEMMA AbstractWait ==
  ASSUME ListsInv, Tick \/ TimeOut \/ SocketEvent
  PROVE  Schedule!Next
<1>1. phase = "wait" /\ tree' = tree /\ stack' = stack /\ min' = min /\ calls' = calls
      /\ (phase' = "wait" \/ phase' = "handle")
  BY DEF Tick, TimeOut, SocketEvent, StopWaiting
<1>2. \A n : ~ Asking(n) /\ ~ Asking(n)'
  BY <1>1 DEF Asking
<1>3. \A n \in Node : WantOf(n)' = WantOf(n)
  BY <1>1, <1>2 DEF WantOf
<1>4. Want' = Want
  BY <1>3 DEF Want
<1>5. Member' = Member
  BY <1>1, SameMembers
<1>6. Pulsing = {} /\ Pulsing' = {}
  <2>1. stack = <<>>
    BY <1>1 DEF ListsInv, LoopOK
  <2> QED
    BY <1>1, <2>1 DEF Pulsing
<1>7. CASE Tick
  <2>1. Schedule!Pass
    BY <1>1, <1>4, <1>5, <1>6, <1>7 DEF Tick, Schedule!Pass, Member, Want, WantOf
  <2> QED
    BY <2>1 DEF Schedule!Next
<1>8. CASE TimeOut \/ SocketEvent
  <2>1. Schedule!Wake
    BY <1>1, <1>4, <1>5, <1>6, <1>8
       DEF TimeOut, SocketEvent, StopWaiting, Schedule!Wake, Member, Want, WantOf
  <2> QED
    BY <2>1 DEF Schedule!Next
<1> QED
  BY <1>7, <1>8

(* The calls of GetPulseTimeAux() do not show.                             *)
LEMMA AskIsHidden ==
  ASSUME phase = "recalc", UNCHANGED <<phase, now, calls>>, ListsInv,
         stack = <<>> \/ Top.pc = "kids",
         tree'.parent = tree.parent, tree'.sched = tree.sched,
         NEW n \in Node, \A x \in Node : tree'.valid[x] <=> x = n \/ tree.valid[x],
         \E x \in Call : /\ x.node = n /\ stack' = <<x>> \o stack
                         /\ x.pc = IF tree.valid[n] THEN "kids" ELSE "callback"
  PROVE  UNCHANGED Schedule!vars
<1>1. PICK x \in Call : /\ x.node = n /\ stack' = <<x>> \o stack
                        /\ x.pc = IF tree.valid[n] THEN "kids" ELSE "callback"
  OBVIOUS
<1>2. stack \in Seq(Call)
  BY DEF ListsInv, LoopOK
<1>3. stack' # <<>> /\ Top' = x
  BY <1>1, <1>2, PushFacts, HeadTailProperties DEF Top
<1>4. \A m : ~ Asking(m)
  BY NotAsking
<1>5. \A m \in Node : Asking(m)' <=> m = n /\ ~ tree.valid[n]
  <2>1. ASSUME NEW m \in Node
        PROVE  x = [node |-> m, pc |-> "callback"] <=> m = n /\ ~ tree.valid[n]
    BY <1>1 DEF Call
  <2> QED
    BY <1>3, <2>1 DEF Asking
<1>6. ASSUME NEW m \in Node PROVE WantOf(m)' = WantOf(m)
  BY <1>4, <1>5 DEF WantOf
<1>7. Member' = Member
  BY SameMembers
<1>8. Pulsing = {} /\ Pulsing' = {}
  BY DEF Pulsing
<1> QED
  BY <1>6, <1>7, <1>8, AbstractStutter

(* Nor does any other step that keeps the times and their validity.        *)
LEMMA WalkIsHidden ==
  ASSUME phase # "wait", phase # "setup", UNCHANGED <<phase, now, calls>>, Pulsing' = Pulsing,
         tree'.parent = tree.parent, tree'.sched = tree.sched, tree'.valid = tree.valid,
         \A n \in Node : ~ Asking(n) /\ ~ Asking(n)'
  PROVE  UNCHANGED Schedule!vars
<1>1. \A n \in Node : WantOf(n)' = WantOf(n)
  BY DEF WantOf
<1> QED
  BY <1>1, SameMembers, AbstractStutter

LEMMA UserCallChanges ==
  ASSUME ListsInv', UserCall, calls' = IF phase = "setup" THEN calls ELSE calls + 1
  PROVE  Schedule!Change
<1>1. phase # "wait" /\ UNCHANGED <<phase, stack, now>>
  BY DEF UserCall
<1>2. \A n \in Node : Asking(n)' <=> Asking(n)
  BY <1>1 DEF Asking, Top
<1>3. ASSUME NEW n \in Node PROVE WantOf(n)' \in {WantOf(n), MaxTime + 2}
  <2>1. tree'.valid[n] => tree.valid[n] /\ tree'.sched[n] = tree.sched[n]
    BY DEF UserCall
  <2> QED
    BY <1>2, <2>1 DEF WantOf
<1>4. Pulsing' = Pulsing
  BY <1>1 DEF Pulsing, Top
<1> QED
  BY <1>1, <1>3, <1>4, AbstractChange

(* A call of the user counts as his turn once the loop runs.               *)
LEMMA UserTurn ==
  ASSUME LoopOK,
         \/ \E p, c \in Node : Setup(p, c) \/ Attach(p, c)
         \/ \E n \in Node, clear \in BOOLEAN : Invalidate(n, clear)
         \/ \E n \in Node : Detach(n) \/ DetachAll(n)
  PROVE  calls' = IF phase = "setup" THEN calls ELSE calls + 1
<1>1. UserRuns => phase # "setup" /\ calls' = calls + 1
  BY DEF UserRuns, LoopOK
<1>2. \A p, c \in Node : Setup(p, c) => phase = "setup" /\ calls' = calls
  BY DEF Setup
<1> QED
  BY <1>1, <1>2 DEF Attach, Invalidate, Detach, DetachAll

LEMMA GetPulseTimeRequests ==
  ASSUME FullInv, NEW t \in Times, GetPulseTime(t)
  PROVE  Schedule!Next
<1>1. LoopOK /\ ListsInv /\ stack \in Seq(Call)
  BY DEF FullInv, ListsInv, LoopOK
<1>2. /\ phase = "recalc" /\ UNCHANGED <<phase, now, calls>> /\ stack # <<>> /\ Top.pc = "callback"
      /\ stack' = [stack EXCEPT ![1].pc = "kids"]
  BY DEF GetPulseTime
<1>3. PICK n \in Node : n = Top.node /\ n \in OnStack /\ Top = stack[1]
  BY <1>1, <1>2, TopOnStack
<1>4. /\ tree'.parent = tree.parent /\ tree'.valid = tree.valid
      /\ \A x \in Node : tree'.sched[x] = IF x = n THEN t ELSE tree.sched[x]
  BY <1>1, <1>3, GetPulseTimeStep
<1>5. tree.valid[n]
  BY <1>2, <1>3 DEF FullInv, MarkInv, AskedOK
<1>6. \A m \in Node : Asking(m) <=> m = n
  <2>1. Top \in Call
    BY <1>1, <1>2, TopFacts DEF Top
  <2>2. ASSUME NEW m \in Node PROVE Top = [node |-> m, pc |-> "callback"] <=> m = n
    BY <1>2, <1>3, <2>1 DEF Call
  <2> QED
    BY <1>2, <2>2 DEF Asking
<1>7. \A m \in Node : ~ Asking(m)'
  <2>1. /\ stack' \in Seq(Call) /\ stack' # <<>>
        /\ stack'[1] = [node |-> stack[1].node, pc |-> "kids"]
    BY <1>1, <1>2, KidsFacts
  <2>2. Top' = stack'[1]
    BY <2>1, TopFacts DEF Top
  <2>3. Top'.pc # "callback"
    BY <2>1, <2>2
  <2> QED
    BY <2>3 DEF Asking
<1>8. WantOf(n) = MaxTime + 2
  BY <1>6 DEF WantOf
<1>9. ASSUME NEW m \in Node PROVE WantOf(m)' = IF m = n THEN t ELSE WantOf(m)
  BY <1>4, <1>5, <1>6, <1>7 DEF WantOf
<1>10. Member' = Member
  BY <1>4, SameMembers
<1> QED
  BY <1>2, <1>8, <1>9, <1>10, AbstractRequest

(* The walk comes to a node: if it is due, its Pulse() is called.          *)
LEMMA WalkRings ==
  ASSUME FullInv, CallPulseAux \/ PulseKid
  PROVE  Schedule!Next \/ UNCHANGED Schedule!vars
<1>1. LoopOK /\ stack \in Seq(Call) /\ ListsInv
  BY DEF FullInv, ListsInv, LoopOK
<1>2. PICK n \in Node, x \in Call :
        /\ x.node = n /\ stack' = <<x>> \o stack
        /\ x.pc = IF tree.valid[n] /\ now >= tree.sched[n] THEN "callback" ELSE "kids"
  <2>1. CASE CallPulseAux
    BY <1>1, <2>1, CallPulseAuxStep, Zenon
  <2>2. CASE PulseKid
    BY <1>1, <2>2, PulseKidStep, Zenon
  <2> QED
    BY <2>1, <2>2
<1>3. /\ phase = "handle" /\ (stack = <<>> \/ Top.pc = "kids")
      /\ UNCHANGED <<tree, phase, now, calls>>
  <2>1. \A m : EnterPulseAux(m) => UNCHANGED <<tree, phase, now, calls>>
    BY DEF EnterPulseAux
  <2> QED
    BY <2>1 DEF CallPulseAux, PulseKid
<1>4. stack' \in Seq(Call) /\ stack' # <<>> /\ stack'[1] = x
  BY <1>1, <1>2, PushFacts
<1>5. Top' = x
  BY <1>4, TopFacts DEF Top
<1>6. Pulsing = {}
  BY <1>3 DEF Pulsing
<1>7. \A m \in Node : ~ Asking(m) /\ ~ Asking(m)'
  BY <1>3 DEF Asking
<1>8. CASE tree.valid[n] /\ now >= tree.sched[n]
  <2>1. ASSUME NEW m \in Node PROVE Top' = [node |-> m, pc |-> "callback"] <=> m = n
    BY <1>2, <1>5, <1>8 DEF Call
  <2>2. Pulsing' = {n}
    BY <1>3, <1>4, <2>1 DEF Pulsing
  <2>3. WantOf(n) = tree.sched[n]
    BY <1>7, <1>8 DEF WantOf
  <2>4. tree.sched[n] \in 0 .. MaxTime + 1 /\ now \in 0 .. MaxTime
    BY <1>1, WantType DEF LoopOK
  <2>5. WantOf(n) <= now
    BY <1>8, <2>3, <2>4, PulseAssumption
  <2> QED
    BY <1>3, <1>6, <2>2, <2>5, AbstractRing
<1>9. CASE ~ (tree.valid[n] /\ now >= tree.sched[n])
  <2>1. Top'.pc = "kids"
    BY <1>2, <1>5, <1>9
  <2>2. Pulsing' = {}
    BY <2>1 DEF Pulsing
  <2> QED
    BY <1>3, <1>6, <1>7, <2>2, WalkIsHidden
<1> QED
  BY <1>8, <1>9

LEMMA PulseExpires ==
  ASSUME FullInv, Pulse
  PROVE  Schedule!Next
<1>1. LoopOK /\ ListsInv /\ stack \in Seq(Call)
  BY DEF FullInv, ListsInv, LoopOK
<1>2. /\ phase = "handle" /\ UNCHANGED <<phase, now, calls>> /\ stack # <<>>
      /\ Top.pc = "callback" /\ stack' = [stack EXCEPT ![1].pc = "kids"]
  BY DEF Pulse
<1>3. PICK n \in Node : n = Top.node /\ Top = stack[1] /\ Top \in Call
  BY <1>1, <1>2, TopOnStack, TopFacts DEF Top
<1>4. /\ tree'.parent = tree.parent /\ tree'.sched = tree.sched
      /\ \A x \in Node : tree'.valid[x] <=> x # n /\ tree.valid[x]
  BY <1>1, <1>3, PulseStep
<1>5. \A m \in Node : ~ Asking(m) /\ ~ Asking(m)'
  BY <1>2 DEF Asking
<1>6. ASSUME NEW m \in Node
      PROVE  WantOf(m)' = IF m = n THEN MaxTime + 2 ELSE WantOf(m)
  BY <1>4, <1>5 DEF WantOf
<1>7. Member' = Member
  BY <1>4, SameMembers
<1>8. Pulsing = {n}
  <2>1. ASSUME NEW m \in Node PROVE Top = [node |-> m, pc |-> "callback"] <=> m = n
    BY <1>2, <1>3 DEF Call
  <2> QED
    BY <1>2, <2>1 DEF Pulsing
<1>9. Pulsing' = {}
  <2>1. /\ stack' \in Seq(Call) /\ stack' # <<>>
        /\ stack'[1] = [node |-> stack[1].node, pc |-> "kids"]
    BY <1>1, <1>2, KidsFacts
  <2>2. Top' = stack'[1]
    BY <2>1, TopFacts DEF Top
  <2>3. Top'.pc # "callback"
    BY <2>1, <2>2
  <2> QED
    BY <2>3 DEF Pulsing
<1> QED
  BY <1>2, <1>6, <1>7, <1>8, <1>9, AbstractExpire

(* After a call returns, nobody is being asked or pulsed: the calls below  *)
(* it visit their children.                                                *)
LEMMA AfterReturn ==
  ASSUME LoopOK, stack # <<>>, stack' = Tail(stack)
  PROVE  Pulsing' = {} /\ \A n \in Node : ~ Asking(n)'
<1>1. stack \in Seq(Call) /\ Len(stack) \in Nat
  BY DEF LoopOK
<1>2. /\ stack' \in Seq(Call) /\ Len(stack') = Len(stack) - 1
      /\ \A i \in 1 .. Len(stack) - 1 : stack'[i] = stack[i + 1]
  BY <1>1, PopFacts
<1>3. SUFFICES ASSUME stack' # <<>> PROVE Top'.pc = "kids"
  BY DEF Asking, Pulsing
<1>4. Top' = stack'[1] /\ 1 \in 1 .. Len(stack')
  BY <1>2, <1>3, TopFacts DEF Top
<1>5. 1 \in 1 .. Len(stack) - 1 /\ 1 + 1 \in 2 .. Len(stack)
  BY <1>1, <1>2, <1>4
<1> QED
  BY <1>2, <1>4, <1>5 DEF LoopOK

LEMMA StepIsAbstract ==
  ASSUME ~ Reentrant, FullInv, [Next]_vars
  PROVE  [Schedule!Next]_Schedule!vars
<1>1. /\ ListsInv /\ MarkInv /\ AggInv /\ RootsInv /\ LoopOK /\ ListsInv'
  BY ListsStep DEF FullInv, ListsInv
<1>2. ASSUME UserCall, calls' = IF phase = "setup" THEN calls ELSE calls + 1
      PROVE  Schedule!Next
  BY <1>1, <1>2, UserCallChanges DEF Schedule!Next
<1>3. ASSUME NEW p \in Node, NEW c \in Node, Setup(p, c) \/ Attach(p, c) PROVE Schedule!Next
  BY <1>1, <1>2, <1>3, PutCall, UserTurn
<1>4. ASSUME NEW n \in Node, NEW clear \in BOOLEAN, Invalidate(n, clear) PROVE Schedule!Next
  BY <1>1, <1>2, <1>4, InvalidateCall, UserTurn
<1>5. ASSUME NEW n \in Node, Detach(n) \/ DetachAll(n) PROVE Schedule!Next
  BY <1>1, <1>2, <1>5, RemoveCall, UserTurn
<1>6. CASE CallGetPulseTimeAux
  <2>1. phase = "recalc" /\ UNCHANGED <<phase, now, calls>>
    BY <1>6 DEF CallGetPulseTimeAux, EnterGetPulseTimeAux
  <2> QED
    BY <1>1, <1>6, <2>1, CallGetPulseTimeAuxStep, AskIsHidden
<1>7. CASE RecalculateKid
  <2>1. phase = "recalc" /\ UNCHANGED <<phase, now, calls>> /\ Top.pc = "kids"
    BY <1>7 DEF RecalculateKid, EnterGetPulseTimeAux
  <2> QED
    BY <1>1, <1>7, <2>1, RecalculateKidStep, AskIsHidden
<1>8. CASE ReturnGetPulseTimeAux
  <2>1. /\ phase = "recalc" /\ UNCHANGED <<phase, now, calls>> /\ Top.pc = "kids"
        /\ stack # <<>> /\ stack' = Tail(stack)
    BY <1>8 DEF ReturnGetPulseTimeAux
  <2>2. tree'.parent = tree.parent /\ tree'.sched = tree.sched /\ tree'.valid = tree.valid
    BY <1>1, <1>8, ReturnGetPulseTimeAuxStep DEF Returned
  <2>3. \A n \in Node : ~ Asking(n) /\ ~ Asking(n)'
    BY <1>1, <2>1, NotAsking, AfterReturn
  <2>4. Pulsing' = Pulsing
    BY <2>1 DEF Pulsing
  <2> QED
    BY <2>1, <2>2, <2>3, <2>4, WalkIsHidden
<1>9. ASSUME NEW t \in Times, GetPulseTime(t) PROVE Schedule!Next
  BY <1>9, GetPulseTimeRequests
<1>10. CASE CallPulseAux \/ PulseKid
  BY <1>10, WalkRings
<1>11. CASE Pulse
  BY <1>11, PulseExpires
<1>12. CASE ReturnPulseAux
  <2>1. /\ phase = "handle" /\ UNCHANGED <<phase, now, calls>> /\ Top.pc = "kids"
        /\ stack # <<>> /\ stack' = Tail(stack)
    BY <1>12 DEF ReturnPulseAux
  <2>2. tree'.parent = tree.parent /\ tree'.sched = tree.sched /\ tree'.valid = tree.valid
    BY <1>1, <1>12, ReturnPulseAuxStep DEF RecalculatedFrom, Relisted
  <2>3. \A n \in Node : ~ Asking(n) /\ ~ Asking(n)'
    BY <2>1 DEF Asking
  <2>4. Pulsing = {} /\ Pulsing' = {}
    BY <1>1, <2>1, AfterReturn DEF Pulsing
  <2> QED
    BY <2>1, <2>2, <2>3, <2>4, WalkIsHidden
<1>13. CASE StartLoop \/ EndCycle \/ SkipPulseAux
  <2>1. /\ UNCHANGED <<tree, stack, now, calls>> /\ stack = <<>>
        /\ phase # "wait" /\ phase' # "wait" /\ phase' # "setup"
    BY <1>1, <1>13, EmptyStack DEF StartLoop, EndCycle, SkipPulseAux
  <2>2. \A n \in Node : ~ Asking(n) /\ ~ Asking(n)'
    BY <2>1 DEF Asking
  <2>3. Pulsing = {} /\ Pulsing' = {}
    BY <2>1 DEF Pulsing
  <2>4. \A n \in Node : WantOf(n)' = WantOf(n)
    BY <2>1, <2>2 DEF WantOf
  <2>5. Member' = Member
    BY <2>1, SameMembers
  <2>6. CASE phase = "setup"
    <3>1. Want' = Want
      BY <2>4 DEF Want
    <3>2. Schedule!Start
      BY <2>1, <2>3, <2>5, <2>6, <3>1 DEF Schedule!Start, Member, Want, WantOf
    <3> QED
      BY <3>2 DEF Schedule!Next
  <2> QED
    BY <2>1, <2>3, <2>4, <2>5, <2>6, AbstractStutter
<1>14. CASE StartWaiting
  BY <1>14, AbstractSleep
<1>15. CASE Tick \/ TimeOut \/ SocketEvent
  BY <1>1, <1>15, AbstractWait
<1>16. CASE UNCHANGED vars
  BY <1>16 DEF vars, Schedule!vars, Place, InSubtree, Asking, Pulsing, Top
<1> QED
  BY <1>3, <1>4, <1>5, <1>6, <1>7, <1>8, <1>9, <1>10, <1>11, <1>12, <1>13, <1>14, <1>15,
     <1>16, NextCases

(***************************************************************************)
(* Unless GetPulseTime() invalidates what is being recalculated, the trees *)
(* are an alarm clock: the event loop never waits while a node below a     *)
(* root has not been asked, nor beyond the time a node asked for; it calls *)
(* Pulse() on a node only when the time the node asked for has come; and   *)
(* only a call of the user, or the end of a node's own Pulse(), takes back *)
(* what it has asked for.                                                  *)
(***************************************************************************)
THEOREM RefinesSchedule ==
  ASSUME ~ Reentrant
  PROVE  Spec => ImplementsSchedule
<1>1. Init => Schedule!Init
  <2>1. SUFFICES ASSUME Init PROVE Schedule!Init
    OBVIOUS
  <2>2. \A n \in Node : ~ tree.valid[n]
    BY <2>1 DEF Init
  <2>3. phase = "setup" /\ now = 0 /\ calls = 0 /\ Pulsing = {}
    BY <2>1 DEF Init, Pulsing
  <2>4. Member \in SUBSET Node
    BY DEF Member
  <2> QED
    BY <2>2, <2>3, <2>4 DEF Schedule!Init, Schedule!Ask, Member
<1>2. FullInv /\ [Next]_vars => [Schedule!Next]_Schedule!vars
  BY StepIsAbstract
<1> QED
  BY <1>1, <1>2, FullInvariant, PTL DEF Spec, ImplementsSchedule, Schedule!Spec
=============================================================================
