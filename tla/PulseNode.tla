----------------------------- MODULE PulseNode ------------------------------
(***************************************************************************)
(* The timers of util/PulseNode, driven by the event loop of               *)
(* reflector/ReflectServer.  PulseNodes form trees; each node keeps its    *)
(* children in three lists, the scheduled one sorted by the earliest pulse *)
(* time of the child's subtree.  The roots (sessions, the server, its      *)
(* factories) are asked for their next pulse time before the loop waits    *)
(* and pulsed after it.  GetPulseTime() and Pulse() are callbacks: while   *)
(* one runs, the user's code may invalidate, add or remove any node, also  *)
(* those that the walk of the tree is in the middle of.                    *)
(***************************************************************************)
EXTENDS Naturals, Sequences, FiniteSets, SequencesExt

CONSTANTS
  Node,         \* the PulseNodes
  RootSeq,      \* the nodes that the event loop calls, in its order
  MaxTime,      \* bound: the last moment of the clock
  MaxCalls,     \* bound: calls the user makes once the loop runs
  Reentrant,    \* whether GetPulseTime() invalidates nodes being recalculated
  NoNode        \* a NULL pointer

ASSUME PulseAssumption ==
  /\ IsFiniteSet(Node) /\ NoNode \notin Node
  /\ RootSeq \in Seq(Node)
  /\ MaxTime \in Nat /\ MaxCalls \in Nat
  /\ Reentrant \in BOOLEAN

Never == MaxTime + 1             \* MUSCLE_TIME_NEVER
Times == 0 .. Never
Lists == {"scheduled", "unscheduled", "recalc"}
Roots == ToSet(RootSeq)

VARIABLES
  tree,    \* the members of the PulseNodes, by field
  phase,   \* "setup", "recalc", "wait" or "handle"
  pos,     \* the loop's position in RootSeq
  stack,   \* the calls of GetPulseTimeAux or PulseAux that have not returned
  now,     \* the clock, as the loop last read it
  min,     \* the least pulse time seen by the recalculation
  calls    \* how many calls the user has made

vars == <<tree, phase, pos, stack, now, min, calls>>

Earlier(s, t) == IF s <= t THEN s ELSE t

Init ==
  /\ tree = [parent |-> [n \in Node |-> NoNode],
             list   |-> [n \in Node |-> "none"],                 \* _curList
             kids   |-> [n \in Node |-> [k \in Lists |-> <<>>]],
             sched  |-> [n \in Node |-> Never],          \* _myScheduledTime
             valid  |-> [n \in Node |-> FALSE],     \* _myScheduledTimeValid
             agg    |-> [n \in Node |-> Never]]       \* _aggregatePulseTime
  /\ phase = "setup" /\ pos = 1 /\ stack = <<>>
  /\ now = 0 /\ min = Never /\ calls = 0

-----------------------------------------------------------------------------
(* The tree *)

(* The nodes that a walk from n to its parent, its parent's parent ...      *)
(* reaches as long as it stays in N: the smallest set closed under that.   *)
UpWithin(t, n, N) ==
  {a \in Node : \A S \in SUBSET Node :
     n \in S /\ (\A m \in S : t.parent[m] \in N => t.parent[m] \in S) => a \in S}

InSubtree(t, a, n) == a \in UpWithin(t, n, Node)

(* Mutant: a node that must be recalculated does not tell its parent.      *)
ToRecalc_NotUp(t, c) == IF t.list[c] = "recalc" THEN {} ELSE {c}

(* The nodes ReschedulePulseChild(c, NEEDSRECALC) moves: c and those above *)
(* it, up to the first that is in its parent's list already                *)
ToRecalc(t, c) ==
  LET climb == {n \in Node : t.parent[n] # NoNode /\ t.list[n] # "recalc"} IN
  IF c \in climb THEN UpWithin(t, c, climb) ELSE {}

(* A list without the nodes in S, the others in their order                *)
Without(s, S) ==
  LET left == {i \in DOMAIN s : s[i] \notin S}
      nth(k) == CHOOSE i \in left : Cardinality({j \in left : j <= i}) = k IN
  [k \in 1 .. Cardinality(left) |-> s[nth(k)]]

MoveToRecalc(t, c) ==
  LET moved == ToRecalc(t, c)
      New(p) == {m \in moved : t.parent[m] = p} IN
  [t EXCEPT
     !.list = [n \in Node |-> IF n \in moved THEN "recalc" ELSE @[n]],
     !.kids = [p \in Node |-> [k \in Lists |->
                 IF k = "recalc" THEN SetToSeq(New(p)) \o @[p][k]
                 ELSE Without(@[p][k], moved)]]]

(* Mutant: a node is put at the end of the sorted list.                    *)
Sorted_Append(t, s, c) == Append(s, c)

(* Where c goes among the scheduled children: last if no child is later,   *)
(* else before the first that is not earlier                               *)
Sorted(t, s, c) ==
  LET later == {i \in DOMAIN s : t.agg[s[i]] >= t.agg[c]} IN
  IF s = <<>> \/ t.agg[c] >= t.agg[Last(s)] THEN Append(s, c)
  ELSE InsertAt(s, CHOOSE i \in later : \A j \in later : i <= j, c)

(* ReschedulePulseChild(c, which), called on the parent of c               *)
ReschedulePulseChild(t, c, which) ==
  LET p == t.parent[c]
      rest == [k \in Lists |-> Without(t.kids[p][k], {c})] IN
  IF which = t.list[c] /\ which # "scheduled" THEN t
  ELSE IF which = "recalc" THEN MoveToRecalc(t, c)
  ELSE [t EXCEPT
          !.list[c] = which,
          !.kids[p] = [k \in Lists |->
             IF k # which THEN rest[k]
             ELSE IF k = "scheduled" THEN Sorted(t, rest[k], c)
             ELSE <<c>> \o rest[k]]]

Recalculate(t, n) ==
  IF t.parent[n] = NoNode THEN t ELSE ReschedulePulseChild(t, n, "recalc")

(* Mutant: the parent keeps the pulse time of the child it lost.           *)
RemovePulseChild_Stale(t, c) ==
  [ReschedulePulseChild(t, c, "none") EXCEPT !.parent[c] = NoNode,
                                             !.valid[c]  = FALSE]

(* RemovePulseChild(c), called on the parent of c                          *)
RemovePulseChild(t, c) ==
  LET p == t.parent[c]
      gone == [ReschedulePulseChild(t, c, "none") EXCEPT !.parent[c] = NoNode,
                                                         !.valid[c]  = FALSE] IN
  IF t.kids[p]["scheduled"] # <<>> /\ Head(t.kids[p]["scheduled"]) = c
  THEN Recalculate(gone, p) ELSE gone

PutPulseChild(t, p, c) ==
  LET freed == IF t.parent[c] = NoNode THEN t ELSE RemovePulseChild(t, c) IN
  ReschedulePulseChild([freed EXCEPT !.parent[c] = p], c, "recalc")

(* ClearPulseChildren(), which the destructor calls too.  All children go; *)
(* p is recalculated if one of them was scheduled.                         *)
ClearPulseChildren(t, p) ==
  LET kids == {c \in Node : t.parent[c] = p}
      gone == [t EXCEPT
        !.parent = [n \in Node |-> IF n \in kids THEN NoNode ELSE @[n]],
        !.valid  = [n \in Node |-> @[n] /\ n \notin kids],
        !.list   = [n \in Node |-> IF n \in kids THEN "none" ELSE @[n]],
        !.kids[p] = [k \in Lists |-> <<>>]] IN
  IF t.kids[p]["scheduled"] = <<>> THEN gone ELSE Recalculate(gone, p)

InvalidatePulseTime(t, n, clear) ==
  LET t1 == [t EXCEPT !.sched[n] = IF clear THEN Never ELSE @] IN
  IF t.valid[n] THEN Recalculate([t1 EXCEPT !.valid[n] = FALSE], n) ELSE t1

-----------------------------------------------------------------------------
(* What the user's code does *)

Top     == Head(stack)                         \* the innermost call
OnStack == {stack[i].node : i \in DOMAIN stack}
Place(n) == {i \in DOMAIN RootSeq : InSubtree(tree, RootSeq[i], n)}

(* Before the loop runs, the trees are put together.                       *)
Setup(p, c) ==
  /\ phase = "setup" /\ tree.parent[c] = NoNode /\ c \notin Roots
  /\ ~ InSubtree(tree, c, p)
  /\ tree' = PutPulseChild(tree, p, c)
  /\ UNCHANGED <<phase, pos, stack, now, min, calls>>

StartLoop ==
  /\ phase = "setup" /\ phase' = "recalc"
  /\ UNCHANGED <<tree, pos, stack, now, min, calls>>

(* User code runs inside a callback, or when a session handles its I/O.    *)
UserRuns ==
  /\ calls < MaxCalls /\ calls' = calls + 1
  /\ \/ phase = "handle" /\ stack = <<>>
     \/ stack # <<>> /\ Top.pc = "callback"
  /\ UNCHANGED <<phase, pos, stack, now, min>>

(* Unless it is reentrant, GetPulseTime() leaves alone the nodes that are  *)
(* being recalculated, and the trees that were.                            *)
MayTouch(n) == Reentrant \/ phase # "recalc" \/ \A i \in Place(n) : i >= pos
MayReset(n) == MayTouch(n) /\ (Reentrant \/ phase # "recalc" \/ n \notin OnStack)

Invalidate(n, clear) ==
  /\ MayReset(n) /\ UserRuns
  /\ tree' = InvalidatePulseTime(tree, n, clear)

Attach(p, c) ==
  /\ c \notin Roots /\ ~ InSubtree(tree, c, p)
  /\ MayTouch(p) /\ MayReset(c) /\ UserRuns
  /\ tree' = PutPulseChild(tree, p, c)

Detach(c) ==
  /\ tree.parent[c] # NoNode
  /\ MayReset(c) /\ UserRuns
  /\ tree' = RemovePulseChild(tree, c)

DetachAll(p) ==
  /\ \A c \in Node : tree.parent[c] = p => MayReset(c)
  /\ UserRuns
  /\ tree' = ClearPulseChildren(tree, p)

-----------------------------------------------------------------------------
(* PrepareToWaitForEvents: each root's GetPulseTimeAux                     *)

NextRoot(rest) == IF rest = <<>> THEN pos + 1 ELSE pos

EnterGetPulseTimeAux(n) ==
  /\ stack' = <<[node |-> n,
                 pc |-> IF tree.valid[n] THEN "kids" ELSE "callback"]>> \o stack
  /\ tree' = [tree EXCEPT !.valid[n] = TRUE]
  /\ UNCHANGED <<phase, pos, now, min, calls>>

CallGetPulseTimeAux ==
  /\ phase = "recalc" /\ stack = <<>> /\ pos <= Len(RootSeq)
  /\ EnterGetPulseTimeAux(RootSeq[pos])

(* The callback GetPulseTime() returns time t.                             *)
GetPulseTime(t) ==
  /\ phase = "recalc" /\ stack # <<>> /\ Top.pc = "callback"
  /\ tree' = [tree EXCEPT !.sched[Top.node] = t]
  /\ stack' = [stack EXCEPT ![1].pc = "kids"]
  /\ UNCHANGED <<phase, pos, now, min, calls>>

RecalculateKid ==
  /\ phase = "recalc" /\ stack # <<>> /\ Top.pc = "kids"
  /\ tree.kids[Top.node]["recalc"] # <<>>
  /\ EnterGetPulseTimeAux(Head(tree.kids[Top.node]["recalc"]))

Aggregate(t, n) ==
  LET s == t.kids[n]["scheduled"] IN
  Earlier(t.sched[n], IF s = <<>> THEN Never ELSE t.agg[Head(s)])

ReturnGetPulseTimeAux ==
  /\ phase = "recalc" /\ stack # <<>> /\ Top.pc = "kids"
  /\ tree.kids[Top.node]["recalc"] = <<>>
  /\ LET n == Top.node
         a == Aggregate(tree, n)
         t == [tree EXCEPT !.agg[n] = a] IN
     /\ tree' = IF t.parent[n] # NoNode
                   /\ (t.list[n] = "recalc" \/ a # tree.agg[n])
                THEN ReschedulePulseChild(t, n, IF a = Never THEN "unscheduled"
                                                             ELSE "scheduled")
                ELSE t
     /\ min' = Earlier(min, a)
  /\ stack' = Tail(stack) /\ pos' = NextRoot(Tail(stack))
  /\ UNCHANGED <<phase, now, calls>>

-----------------------------------------------------------------------------
(* WaitForEvents *)

StartWaiting ==
  /\ phase = "recalc" /\ pos > Len(RootSeq)
  /\ phase' = "wait"
  /\ UNCHANGED <<tree, pos, stack, now, min, calls>>

Tick ==
  /\ phase = "wait" /\ now < MaxTime
  /\ now' = now + 1
  /\ UNCHANGED <<tree, phase, pos, stack, min, calls>>

StopWaiting ==
  /\ phase = "wait"
  /\ phase' = "handle" /\ pos' = 1
  /\ UNCHANGED <<tree, stack, now, min, calls>>

TimeOut      == now >= min /\ StopWaiting      \* the time waited for is over
SocketEvent  == now < min  /\ StopWaiting      \* a socket became ready

-----------------------------------------------------------------------------
(* HandleEvents: each root's PulseAux                                      *)

(* Mutant: a node is pulsed whenever the walk comes to it.                 *)
EnterPulseAux_Early(n) ==
  /\ stack' = <<[node |-> n,
                 pc |-> IF tree.valid[n] THEN "callback" ELSE "kids"]>> \o stack
  /\ UNCHANGED <<tree, phase, pos, now, min, calls>>

EnterPulseAux(n) ==
  /\ stack' = <<[node |-> n,
                 pc |-> IF tree.valid[n] /\ now >= tree.sched[n]
                        THEN "callback" ELSE "kids"]>> \o stack
  /\ UNCHANGED <<tree, phase, pos, now, min, calls>>

CallPulseAux ==
  /\ phase = "handle" /\ stack = <<>> /\ pos <= Len(RootSeq)
  /\ now >= tree.agg[RootSeq[pos]]
  /\ EnterPulseAux(RootSeq[pos])

SkipPulseAux ==
  /\ phase = "handle" /\ stack = <<>> /\ pos <= Len(RootSeq)
  /\ now < tree.agg[RootSeq[pos]]
  /\ pos' = pos + 1
  /\ UNCHANGED <<tree, phase, stack, now, min, calls>>

(* Mutant: a node that was pulsed is not asked for its next time.          *)
Pulse_StaysValid ==
  /\ phase = "handle" /\ stack # <<>> /\ Top.pc = "callback"
  /\ stack' = [stack EXCEPT ![1].pc = "kids"]
  /\ UNCHANGED <<tree, phase, pos, now, min, calls>>

(* The callback Pulse() returns.                                           *)
Pulse ==
  /\ phase = "handle" /\ stack # <<>> /\ Top.pc = "callback"
  /\ tree' = [tree EXCEPT !.valid[Top.node] = FALSE]
  /\ stack' = [stack EXCEPT ![1].pc = "kids"]
  /\ UNCHANGED <<phase, pos, now, min, calls>>

(* Mutant: only children whose time has passed are pulsed.                 *)
DueKid_TooLate(n) ==
  LET s == tree.kids[n]["scheduled"] IN s # <<>> /\ now > tree.agg[Head(s)]

DueKid(n) ==
  LET s == tree.kids[n]["scheduled"] IN s # <<>> /\ now >= tree.agg[Head(s)]

PulseKid ==
  /\ phase = "handle" /\ stack # <<>> /\ Top.pc = "kids" /\ DueKid(Top.node)
  /\ EnterPulseAux(Head(tree.kids[Top.node]["scheduled"]))

ReturnPulseAux ==
  /\ phase = "handle" /\ stack # <<>> /\ Top.pc = "kids" /\ ~ DueKid(Top.node)
  /\ tree' = Recalculate(tree, Top.node)
  /\ stack' = Tail(stack) /\ pos' = NextRoot(Tail(stack))
  /\ UNCHANGED <<phase, now, min, calls>>

EndCycle ==
  /\ phase = "handle" /\ pos > Len(RootSeq)
  /\ phase' = "recalc" /\ pos' = 1 /\ min' = Never
  /\ UNCHANGED <<tree, stack, now, calls>>

-----------------------------------------------------------------------------
UserSteps ==
  \/ \E p, c \in Node : Setup(p, c) \/ Attach(p, c)
  \/ \E n \in Node, clear \in BOOLEAN : Invalidate(n, clear)
  \/ \E n \in Node : Detach(n) \/ DetachAll(n)
  \/ SocketEvent

LoopSteps ==
  \/ StartLoop
  \/ CallGetPulseTimeAux \/ RecalculateKid \/ ReturnGetPulseTimeAux
  \/ \E t \in Times : GetPulseTime(t)
  \/ StartWaiting \/ Tick \/ TimeOut
  \/ CallPulseAux \/ SkipPulseAux \/ Pulse \/ PulseKid \/ ReturnPulseAux
  \/ EndCycle

Next == UserSteps \/ LoopSteps

Spec == Init /\ [][Next]_vars

(* The thread of the loop keeps running, its clock advances and its        *)
(* callbacks return.                                                       *)
FairSpec == Spec /\ WF_vars(LoopSteps)

-----------------------------------------------------------------------------
(* The members of the PulseNodes and the loop's own state.                 *)
PulseTypeOK ==
  /\ tree.parent \in [Node -> Node \cup {NoNode}]
  /\ tree.list \in [Node -> Lists \cup {"none"}]
  /\ tree.sched \in [Node -> Times] /\ tree.agg \in [Node -> Times]
  /\ tree.valid \in [Node -> BOOLEAN]
  /\ \A p \in Node, k \in Lists : tree.kids[p][k] \in Seq(Node)
  /\ phase \in {"setup", "recalc", "wait", "handle"}
  /\ pos \in 1 .. Len(RootSeq) + 1
  /\ now \in 0 .. MaxTime /\ min \in Times /\ calls \in 0 .. MaxCalls

(* The lists agree with the nodes' own pointers, hold no node twice, and   *)
(* the scheduled ones are sorted, whatever callbacks do to the trees       *)
(* (ReschedulePulseChild).                                                 *)
ListsWellFormed ==
  /\ PulseTypeOK
  /\ \A p \in Node : \A k \in Lists :
       LET s == tree.kids[p][k] IN
       /\ ToSet(s) = {c \in Node : tree.parent[c] = p /\ tree.list[c] = k}
       /\ Cardinality(ToSet(s)) = Len(s)
       /\ k = "scheduled" => \A i, j \in DOMAIN s :
                               i <= j => tree.agg[s[i]] <= tree.agg[s[j]]

(* A node that must be asked for its pulse time, or has such a child, is   *)
(* on its parent's list of those that must be recalculated, so that the    *)
(* next GetPulseTimeAux reaches it (InvalidatePulseTime).                  *)
InvalidIsRecalculated ==
  \A n \in Node : tree.parent[n] # NoNode /\ n \notin OnStack =>
    (~ tree.valid[n] \/ tree.kids[n]["recalc"] # <<>> => tree.list[n] = "recalc")

(* The time a node is scheduled for in its parent's list is the earliest   *)
(* that any node of its subtree asked for: no walk can pass over a due     *)
(* node, and none is made for nothing (_aggregatePulseTime).               *)
AggregateIsEarliest ==
  \A n \in Node : tree.list[n] \in {"scheduled", "unscheduled"} /\ n \notin OnStack =>
    LET times == {tree.sched[m] : m \in {x \in Node : InSubtree(tree, n, x)}} IN
    /\ tree.agg[n] \in times /\ \A t \in times : tree.agg[n] <= t
    /\ tree.list[n] = "scheduled" <=> tree.agg[n] < Never

(* When the loop has served a root, no node below it is still due, unless  *)
(* a callback has sent the walk past it; then it is reached by the next    *)
(* recalculation (PulseAux).                                               *)
NobodySkipped ==
  phase = "handle" /\ stack = <<>> =>
    \A i \in 1 .. pos - 1 : \A n \in Node :
      InSubtree(tree, RootSeq[i], n) /\ tree.valid[n] /\ tree.sched[n] <= now =>
        \E a \in Node : InSubtree(tree, a, n) /\ tree.list[a] = "recalc"

(* What the trees of timers promise their users: see PulseSchedule.        *)
Asking(n) == phase = "recalc" /\ stack # <<>> /\ Top = [node |-> n, pc |-> "callback"]
Pulsing == {n \in Node : phase = "handle" /\ stack # <<>>
                            /\ Top = [node |-> n, pc |-> "callback"]}
Schedule == INSTANCE PulseSchedule WITH
  member  <- {n \in Node : Place(n) # {}},
  want    <- [n \in Node |-> IF tree.valid[n] /\ ~ Asking(n) THEN tree.sched[n]
                             ELSE MaxTime + 2],
  ringing <- Pulsing,
  asleep  <- phase = "wait",
  wake    <- IF phase = "wait" THEN min ELSE 0,
  clock   <- now,
  running <- phase # "setup",
  turns   <- calls

(* The event loop never waits while a node has not been asked, nor beyond  *)
(* the time a node asked for; it calls Pulse() on a node only when the     *)
(* time that the node asked for has come, and only a call of the user, or  *)
(* the end of a node's own Pulse(), takes back what it has asked for.      *)
ImplementsSchedule == Schedule!Spec

(* A node that has asked for a time is pulsed once that time has come,     *)
(* unless the user changes his mind.                                       *)
DueIsPulsed == Schedule!DueIsPulsed
=============================================================================
