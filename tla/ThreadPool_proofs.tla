-------------------------- MODULE ThreadPool_proofs --------------------------
(***************************************************************************)
(* For any number of clients, threads and Messages, and however often a    *)
(* thread cannot be started: the pool's tables agree, a client's Messages  *)
(* are handled in order, and a client that has left is left alone.         *)
(***************************************************************************)
EXTENDS ThreadPool, SequenceTheorems, FiniteSetTheorems, TLAPS

-----------------------------------------------------------------------------
(* The inductive invariant *)

NoRepeats(q) == \A i, j \in 1 .. Len(q) : q[i] = q[j] => i = j
Members(q) == {q[i] : i \in 1 .. Len(q)}

(* The Messages after number a, up to number b                             *)
Run(q, a, b) == Len(q) = b - a /\ \A i \in 1 .. Len(q) : q[i] = a + i

(* An active thread works for a client that is marked as being handled, no *)
(* other does, and an inactive one has no work.  Until the pool is shut    *)
(* down, threads are never destroyed, so that they are numbered from 1.    *)
ThreadsOK ==
  /\ \A t \in Active : client[t] \in handled
  /\ \A t, u \in Active : client[t] = client[u] => t = u
  /\ \A t \in Thread \ Active : queue[t] = <<>>
  /\ phase = "running" =>
       Active \cup Members(available) = 1 .. Cardinality(Active) + Len(available)

(* A client that is not registered has nothing queued, nor has one whose   *)
(* owner is about to leave, and that one gets no new Messages.             *)
ClientsOK ==
  /\ \A c \in Client : owner[c] = "out" => c \notin registered
  /\ \A c \in waiting \cup notified : owner[c] = "waits"
  /\ \A c \in Client : owner[c] = "leaving" \/ c \in notified =>
                       ~ Outstanding(c, handled, pending, deferred)
  /\ \A c \in Client \ registered : pending[c] = <<>> /\ deferred[c] = <<>>
  /\ \A c \in handled : pending[c] = <<>>
  /\ \A c \in Client \ handled : deferred[c] = <<>>

(* What is pending, or else being handled and deferred, are the Messages   *)
(* that were sent and not handled.  Only in a pool that is being shut down *)
(* is there no thread for a client that is marked as being handled.        *)
QueuesOK ==
  /\ \A c \in registered \ handled : Run(pending[c], done[c], sent[c])
  /\ \A t \in Active :
       LET c == client[t]   m == done[c] + Len(queue[t]) IN
       Run(queue[t], done[c], m) /\ Run(deferred[c], m, sent[c])
  /\ \A c \in handled :
       (\A t \in Active : client[t] # c) => Run(deferred[c], done[c], sent[c])

PoolInv == PoolTypeOK /\ ThreadsOK /\ ClientsOK /\ QueuesOK

-----------------------------------------------------------------------------
(* Facts about sequences without repetitions *)

LEMMA CountMembers ==
  ASSUME NEW T, NEW q \in Seq(T), NoRepeats(q)
  PROVE  IsFiniteSet(Members(q)) /\ Cardinality(Members(q)) = Len(q)
<1> DEFINE f == [i \in 1 .. Len(q) |-> q[i]]
<1>1. f \in Bijection(1 .. Len(q), Members(q))
  BY DEF Bijection, Injection, Surjection, IsInjective, NoRepeats, Members
<1>2. ExistsBijection(1 .. Len(q), Members(q))
  BY <1>1 DEF ExistsBijection
<1> QED
  BY <1>2, FS_CountingElements, FS_NatBijection

(* What is left of q without its first k entries                           *)
LEMMA DropFacts ==
  ASSUME NEW T, NEW q \in Seq(T), NoRepeats(q), NEW k \in 0 .. Len(q)
  PROVE  LET d == SubSeq(q, k + 1, Len(q)) IN
         /\ d \in Seq(T) /\ Len(d) = Len(q) - k /\ NoRepeats(d)
         /\ Members(d) = Members(q) \ {q[i] : i \in 1 .. k}
<1> DEFINE d == SubSeq(q, k + 1, Len(q))
<1>1. /\ d \in Seq(T) /\ Len(d) = Len(q) - k /\ \A i \in 1 .. Len(q) - k : d[i] = q[k + i]
      /\ Len(q) \in Nat
  OBVIOUS
<1> HIDE DEF d
<1>2. NoRepeats(d)
  <2>1. SUFFICES ASSUME NEW i \in 1 .. Len(q) - k, NEW j \in 1 .. Len(q) - k, d[i] = d[j]
                 PROVE  i = j
    BY <1>1 DEF NoRepeats
  <2>2. k + i \in 1 .. Len(q) /\ k + j \in 1 .. Len(q) /\ q[k + i] = q[k + j]
    BY <1>1, <2>1
  <2>3. k + i = k + j
    BY <2>2 DEF NoRepeats
  <2> QED
    BY <2>3
<1>3. Members(d) = Members(q) \ {q[i] : i \in 1 .. k}
  <2>1. ASSUME NEW i \in 1 .. Len(q) - k
        PROVE  d[i] \in Members(q) /\ \A j \in 1 .. k : d[i] # q[j]
    <3>1. k + i \in 1 .. Len(q) /\ d[i] = q[k + i] /\ \A j \in 1 .. k : j \in 1 .. Len(q) /\ j # k + i
      BY <1>1
    <3> QED
      BY <3>1 DEF Members, NoRepeats
  <2>2. ASSUME NEW i \in 1 .. Len(q), \A j \in 1 .. k : q[i] # q[j]
        PROVE  q[i] \in Members(d)
    <3>1. i > k
      BY <2>2
    <3>2. i - k \in 1 .. Len(d) /\ d[i - k] = q[i]
      BY <1>1, <3>1
    <3> QED
      BY <3>2 DEF Members
  <2>3. Members(d) \subseteq Members(q) \ {q[i] : i \in 1 .. k}
    BY <1>1, <2>1 DEF Members
  <2>4. ASSUME NEW x \in Members(q), x \notin {q[i] : i \in 1 .. k}
        PROVE  x \in Members(d)
    <3>1. PICK i \in 1 .. Len(q) : x = q[i]
      BY DEF Members
    <3> QED
      BY <2>2, <2>4, <3>1
  <2> QED
    BY <2>3, <2>4
<1> QED
  BY <1>1, <1>2, <1>3 DEF d

LEMMA AppendFacts ==
  ASSUME NEW T, NEW q \in Seq(T), NoRepeats(q), NEW e \in T, e \notin Members(q)
  PROVE  LET a == Append(q, e) IN
         /\ a \in Seq(T) /\ Len(a) = Len(q) + 1 /\ NoRepeats(a)
         /\ Members(a) = Members(q) \cup {e}
<1> DEFINE a == Append(q, e)
<1>1. /\ a \in Seq(T) /\ Len(a) = Len(q) + 1 /\ a[Len(q) + 1] = e /\ Len(q) \in Nat
      /\ \A i \in 1 .. Len(q) : a[i] = q[i]
  OBVIOUS
<1> HIDE DEF a
<1>2. NoRepeats(a)
  BY <1>1 DEF NoRepeats, Members
<1>3. Members(a) = Members(q) \cup {e}
  BY <1>1 DEF Members
<1> QED
  BY <1>1, <1>2, <1>3 DEF a

-----------------------------------------------------------------------------
(* DispatchPendingMessagesUnsafe *)

(* What it needs: the idle threads, in avail, and the active ones, act,    *)
(* are all there are.                                                      *)
Dispatchable(ord, pend, avail, act) ==
  /\ ord \in Seq(Client) /\ NoRepeats(ord)
  /\ pend \in [Client -> Seq(1 .. MaxSent)]
  /\ avail \in Seq(Thread) /\ NoRepeats(avail)
  /\ act \subseteq Active /\ act \cap Members(avail) = {}
  /\ phase = "running" => act \cup Members(avail) = 1 .. Cardinality(act) + Len(avail)

LEMMA ThreadSets ==
  ASSUME NEW act \in SUBSET Thread
  PROVE  IsFiniteSet(act) /\ Cardinality(act) \in 0 .. MaxThreads
<1>1. IsFiniteSet(Thread) /\ Cardinality(Thread) = MaxThreads
  BY FS_Interval, PoolAssumption DEF Thread
<1>2. IsFiniteSet(act) /\ Cardinality(act) <= MaxThreads
  BY <1>1, FS_Subset
<1> QED
  BY <1>2, FS_CardinalityType, PoolAssumption

(* The number of clients it can serve                                      *)
LEMMA CountFacts ==
  ASSUME NEW ord \in Seq(Client), NEW avail \in Seq(Thread), NEW act \in SUBSET Thread,
         NEW k \in DispatchCounts(ord, avail, act)
  PROVE  /\ k \in 0 .. Len(ord) /\ k \in 0 .. MaxThreads - Cardinality(act)
         /\ phase # "running" => k = 0
         /\ phase = "running" =>
              \/ k = Len(ord) \/ k = MaxThreads - Cardinality(act)
              \/ /\ failures < MaxFailures
                 /\ \E j \in DispatchCounts(ord, avail, act) : j > k
<1>1. Cardinality(act) \in 0 .. MaxThreads /\ MaxThreads \in Nat
  BY ThreadSets, PoolAssumption
<1>2. Len(ord) \in Nat /\ Len(avail) \in Nat
  OBVIOUS
<1> DEFINE room == MaxThreads - Cardinality(act)
           all == IF Len(ord) < room THEN Len(ord) ELSE room
<1>3. DispatchCounts(ord, avail, act) =
        IF phase # "running" THEN {0}
        ELSE {all} \cup {j \in Len(avail) .. all - 1 : failures < MaxFailures}
  BY DEF DispatchCounts
<1>4. room \in Nat /\ all \in 0 .. room /\ all \in 0 .. Len(ord) /\ (all = Len(ord) \/ all = room)
  BY <1>1, <1>2
<1> HIDE DEF all
<1>5. CASE phase # "running"
  BY <1>2, <1>3, <1>4, <1>5
<1>6. CASE phase = "running" /\ k = all
  BY <1>4, <1>6
<1>7. CASE phase = "running" /\ k # all
  <2>1. k \in Len(avail) .. all - 1 /\ failures < MaxFailures /\ all \in DispatchCounts(ord, avail, act)
    BY <1>3, <1>7
  <2> QED
    BY <1>2, <1>4, <1>7, <2>1
<1> QED
  BY <1>5, <1>6, <1>7

(* It uses a different thread, that is not active, for each client.        *)
LEMMA ThreadForFacts ==
  ASSUME NEW ord, NEW pend, NEW avail, NEW act, Dispatchable(ord, pend, avail, act),
         phase = "running", NEW k \in 0 .. MaxThreads - Cardinality(act)
  PROVE  /\ \A i \in 1 .. k : ThreadFor(avail, act, i) \in Thread \ act
         /\ \A i, j \in 1 .. k :
              ThreadFor(avail, act, i) = ThreadFor(avail, act, j) => i = j
<1> DEFINE a == Cardinality(act)
           n == Len(avail)
           F(i) == ThreadFor(avail, act, i)
<1>1. a \in 0 .. MaxThreads /\ n \in Nat /\ MaxThreads \in Nat /\ act \subseteq Thread
  BY ThreadSets, PoolAssumption DEF Dispatchable, Active
<1>2. /\ act \cup Members(avail) = 1 .. a + n /\ act \cap Members(avail) = {}
      /\ avail \in Seq(Thread) /\ NoRepeats(avail)
  BY DEF Dispatchable
<1> HIDE DEF a
<1>3. ASSUME NEW i \in 1 .. k, i <= n
      PROVE  F(i) \in Members(avail) /\ F(i) = avail[n + 1 - i] /\ n + 1 - i \in 1 .. n
  BY <1>1, <1>3 DEF ThreadFor, Members
<1>4. ASSUME NEW i \in 1 .. k, ~ (i <= n)
      PROVE  F(i) = a + i /\ a + i \in Thread /\ a + i \notin 1 .. a + n
  BY <1>1, <1>4 DEF ThreadFor, Thread, a
<1>5. Members(avail) \subseteq Thread
  BY <1>2 DEF Members
<1>6. \A i \in 1 .. k : F(i) \in Thread \ act
  BY <1>2, <1>3, <1>4, <1>5
<1>7. ASSUME NEW i \in 1 .. k, NEW j \in 1 .. k, F(i) = F(j)
      PROVE  i = j
  <2>1. CASE i <= n /\ j <= n
    <3>1. n + 1 - i = n + 1 - j
      BY <1>2, <1>3, <1>7, <2>1 DEF NoRepeats
    <3> QED
      BY <1>1, <3>1
  <2>2. CASE ~ (i <= n) /\ ~ (j <= n)
    BY <1>1, <1>4, <1>7, <2>2
  <2>3. CASE (i <= n) # (j <= n)
    BY <1>2, <1>3, <1>4, <1>7, <2>3
  <2> QED
    BY <2>1, <2>2, <2>3
<1> QED
  BY <1>6, <1>7

(* The threads it uses for k clients                                       *)
UsedFor(avail, act, k) == {ThreadFor(avail, act, i) : i \in 1 .. k}

(* The idle threads afterwards, and how many threads there are then        *)
LEMMA LeftOver ==
  ASSUME NEW ord, NEW pend, NEW avail, NEW act, Dispatchable(ord, pend, avail, act),
         phase = "running", NEW k \in 0 .. MaxThreads - Cardinality(act),
         NEW rest, rest = StillAvailable(avail, k),
         NEW used, used = UsedFor(avail, act, k)
  PROVE  /\ rest \in Seq(Thread) /\ NoRepeats(rest) /\ Members(rest) \cap (act \cup used) = {}
         /\ Cardinality(act \cup used) = Cardinality(act) + k
         /\ act \cup used \cup Members(rest) = 1 .. Cardinality(act \cup used) + Len(rest)
<1> DEFINE F(i) == ThreadFor(avail, act, i)
           a == Cardinality(act)
           n == Len(avail)
           f == [i \in 1 .. k |-> F(i)]
<1>1. a \in 0 .. MaxThreads /\ n \in Nat /\ MaxThreads \in Nat /\ act \subseteq Thread
      /\ IsFiniteSet(act)
  BY ThreadSets, PoolAssumption DEF Dispatchable, Active
<1>2. /\ act \cup Members(avail) = 1 .. a + n /\ act \cap Members(avail) = {}
      /\ avail \in Seq(Thread) /\ NoRepeats(avail)
  BY DEF Dispatchable
<1>3. /\ \A i \in 1 .. k : F(i) \in Thread \ act
      /\ \A i, j \in 1 .. k : F(i) = F(j) => i = j
  BY ThreadForFacts
<1>4. /\ \A i \in 1 .. k : i <= n => F(i) = avail[n + 1 - i]
      /\ \A i \in 1 .. k : ~ (i <= n) => F(i) = a + i
  BY DEF ThreadFor
<1>5. rest = IF k < n THEN SubSeq(avail, 1, n - k) ELSE <<>>
  BY DEF StillAvailable
<1>0. used = {F(i) : i \in 1 .. k}
  BY DEF UsedFor
<1> HIDE DEF a, n, F
<1>6. k \in Nat /\ IsFiniteSet(used) /\ Cardinality(used) = k
  <2>1. k \in Nat
    BY <1>1
  <2>2. f \in Bijection(1 .. k, used)
    BY <1>0, <1>3 DEF Bijection, Injection, Surjection, IsInjective
  <2>3. ExistsBijection(1 .. k, used)
    BY <2>2 DEF ExistsBijection
  <2> QED
    BY <2>1, <2>3, FS_CountingElements, FS_NatBijection
<1>7. Cardinality(act \cup used) = a + k
  <2>1. act \cap used = {}
    BY <1>0, <1>3
  <2>2. Cardinality(act \cup used) = Cardinality(act) + Cardinality(used) - Cardinality({})
    BY <1>1, <1>6, <2>1, FS_Union
  <2> QED
    BY <1>1, <1>6, <2>2, FS_EmptySet DEF a
<1>8. CASE k < n
  <2>1. rest \in Seq(Thread) /\ Len(rest) = n - k /\ \A i \in 1 .. n - k : rest[i] = avail[i]
    BY <1>1, <1>2, <1>5, <1>6, <1>8 DEF n
  <2>2. NoRepeats(rest)
    BY <1>1, <1>2, <1>6, <2>1 DEF NoRepeats, n
  <2>3. used = {avail[i] : i \in n - k + 1 .. n}
    <3>1. ASSUME NEW i \in 1 .. k
          PROVE  F(i) = avail[n + 1 - i] /\ n + 1 - i \in n - k + 1 .. n
      BY <1>1, <1>4, <1>6, <1>8
    <3>2. ASSUME NEW i \in n - k + 1 .. n
          PROVE  n + 1 - i \in 1 .. k /\ F(n + 1 - i) = avail[i]
      <4>1. n + 1 - i \in 1 .. k /\ n + 1 - (n + 1 - i) = i /\ n + 1 - i <= n
        BY <1>1, <1>6, <1>8
      <4> QED
        BY <1>4, <4>1
    <3> QED
      BY <1>0, <3>1, <3>2
  <2>4. Members(rest) = {avail[i] : i \in 1 .. n - k}
    BY <2>1 DEF Members
  <2>5. Members(avail) = {avail[i] : i \in 1 .. n}
    BY DEF Members, n
  <2>6. Members(rest) \cup used = Members(avail)
    <3>1. 1 .. n = (1 .. n - k) \cup (n - k + 1 .. n)
      BY <1>1, <1>6, <1>8
    <3> QED
      BY <2>3, <2>4, <2>5, <3>1
  <2>7. Members(rest) \cap used = {}
    <3>1. ASSUME NEW i \in 1 .. n - k, NEW j \in n - k + 1 .. n PROVE avail[i] # avail[j]
      <4>1. i \in 1 .. n /\ j \in 1 .. n /\ i # j
        BY <1>1, <1>6, <1>8
      <4> QED
        BY <1>2, <4>1 DEF NoRepeats, n
    <3> QED
      BY <2>3, <2>4, <3>1
  <2>8. act \cup used \cup Members(rest) = 1 .. (a + k) + Len(rest)
    <3>1. (a + k) + Len(rest) = a + n
      BY <1>1, <1>6, <2>1
    <3> QED
      BY <1>2, <2>6, <3>1
  <2>9. Members(rest) \cap (act \cup used) = {}
    BY <1>2, <2>6, <2>7
  <2> QED
    BY <1>7, <2>1, <2>2, <2>8, <2>9 DEF a
<1>9. CASE ~ (k < n)
  <2>1. /\ rest = <<>> /\ rest \in Seq(Thread) /\ Len(rest) = 0 /\ NoRepeats(rest)
        /\ Members(rest) = {}
    BY <1>5, <1>9 DEF NoRepeats, Members
  <2>2. act \cup used = 1 .. a + k
    <3>1. ASSUME NEW t \in 1 .. a + k PROVE t \in act \cup used
      <4>1. CASE t \in Members(avail)
        <5>1. PICK i \in 1 .. n : t = avail[i]
          BY <4>1 DEF Members, n
        <5>2. n + 1 - i \in 1 .. k /\ n + 1 - i <= n /\ n + 1 - (n + 1 - i) = i
          BY <1>1, <1>6, <1>9
        <5>3. F(n + 1 - i) = t
          BY <1>4, <5>1, <5>2
        <5> QED
          BY <1>0, <5>2, <5>3
      <4>2. CASE t > a + n
        <5>1. t - a \in 1 .. k /\ ~ (t - a <= n) /\ a + (t - a) = t
          BY <1>1, <1>6, <4>2
        <5>2. F(t - a) = t
          BY <1>4, <5>1
        <5> QED
          BY <1>0, <5>1, <5>2
      <4>3. CASE t \in act
        BY <4>3
      <4> QED
        BY <1>1, <1>2, <1>6, <4>1, <4>2, <4>3
    <3>2. act \subseteq 1 .. a + k
      BY <1>1, <1>2, <1>6, <1>9
    <3>3. ASSUME NEW i \in 1 .. k PROVE F(i) \in 1 .. a + k
      <4>1. CASE i <= n
        <5>1. n + 1 - i \in 1 .. n
          BY <1>1, <1>6, <4>1
        <5>2. F(i) \in 1 .. a + n
          BY <1>2, <1>4, <4>1, <5>1 DEF Members, n
        <5> QED
          BY <1>1, <1>6, <1>9, <5>2
      <4>2. CASE ~ (i <= n)
        BY <1>1, <1>4, <1>6, <4>2
      <4> QED
        BY <4>1, <4>2
    <3> QED
      BY <1>0, <3>1, <3>2, <3>3
  <2>3. act \cup used \cup Members(rest) = 1 .. (a + k) + Len(rest)
    BY <1>1, <1>6, <2>1, <2>2
  <2> QED
    BY <1>7, <2>1, <2>3 DEF a
<1> QED
  BY <1>1, <1>6, <1>8, <1>9

(* What it leaves behind: the clients in srv, each with its own thread,    *)
(* which were pending and are not, and the threads in act as they were     *)
Dispatched(ord, pend, hnd, act, srv) ==
  /\ srv \subseteq Members(ord)
  /\ order' \in Seq(Client) /\ NoRepeats(order') /\ Members(order') = Members(ord) \ srv
  /\ pending' = [c \in Client |-> IF c \in srv THEN <<>> ELSE pend[c]]
  /\ handled' = hnd \cup srv
  /\ available' \in Seq(Thread) /\ NoRepeats(available')
  /\ Members(available') \cap Active' = {}
  /\ client' \in [Thread -> Client \cup {None}] /\ queue' \in [Thread -> Seq(1 .. MaxSent)]
  /\ \A t \in act : client'[t] = client[t] /\ queue'[t] = queue[t]
  /\ \A t \in Thread \ act :
       \/ client'[t] = None /\ queue'[t] = <<>>
       \/ client'[t] \in srv /\ queue'[t] = pend[client'[t]]
  /\ \A t, u \in Thread \ act : client'[t] # None /\ client'[t] = client'[u] => t = u
  /\ \A c \in srv : \E t \in Thread \ act : client'[t] = c
  /\ failures' \in 0 .. MaxFailures
  /\ phase = "running" =>
       Active' \cup Members(available') = 1 .. Cardinality(Active') + Len(available')
  /\ phase = "running" /\ failures' = 0 /\ order' # <<>> =>
       Cardinality(Active') = MaxThreads

LEMMA DispatchFacts ==
  ASSUME NEW ord, NEW pend, NEW hnd, NEW avail, NEW act,
         Dispatchable(ord, pend, avail, act), DispatchTo(ord, pend, hnd, avail, act),
         client \in [Thread -> Client \cup {None}], queue \in [Thread -> Seq(1 .. MaxSent)],
         \A t \in Thread \ act : queue[t] = <<>>, failures \in 0 .. MaxFailures
  PROVE  \E srv : Dispatched(ord, pend, hnd, act, srv)
<1>1. PICK k \in DispatchCounts(ord, avail, act) :
        LET served == {ord[i] : i \in 1 .. k}
            used   == {ThreadFor(avail, act, i) : i \in 1 .. k}
            for(t) == ord[CHOOSE i \in 1 .. k : ThreadFor(avail, act, i) = t] IN
        /\ order' = SubSeq(ord, k + 1, Len(ord))
        /\ pending' = [c \in Client |-> IF c \in served THEN <<>> ELSE pend[c]]
        /\ handled' = hnd \cup served
        /\ available' = StillAvailable(avail, k)
        /\ client' = [t \in Thread |-> IF t \in used THEN for(t)
                                       ELSE IF t \in act THEN client[t] ELSE None]
        /\ queue' = [t \in Thread |-> IF t \in used THEN pend[for(t)] ELSE queue[t]]
        /\ failures' = IF \E j \in DispatchCounts(ord, avail, act) : j > k
                       THEN failures + 1 ELSE failures
  BY DEF DispatchTo
<1> DEFINE F(i) == ThreadFor(avail, act, i)
           served == {ord[i] : i \in 1 .. k}
           used == {F(i) : i \in 1 .. k}
           for(t) == ord[CHOOSE i \in 1 .. k : F(i) = t]
<1>2. /\ ord \in Seq(Client) /\ NoRepeats(ord) /\ pend \in [Client -> Seq(1 .. MaxSent)]
      /\ avail \in Seq(Thread) /\ NoRepeats(avail) /\ act \subseteq Active /\ act \subseteq Thread
      /\ act \cap Members(avail) = {}
  BY DEF Dispatchable, Active
<1>3. /\ k \in 0 .. Len(ord) /\ k \in 0 .. MaxThreads - Cardinality(act)
      /\ phase # "running" => k = 0
      /\ phase = "running" =>
           \/ k = Len(ord) \/ k = MaxThreads - Cardinality(act)
           \/ /\ failures < MaxFailures
              /\ \E j \in DispatchCounts(ord, avail, act) : j > k
  BY <1>2, CountFacts
<1>4. /\ \A i \in 1 .. k : F(i) \in Thread \ act
      /\ \A i, j \in 1 .. k : F(i) = F(j) => i = j
  <2>1. CASE phase = "running"
    BY <1>3, <2>1, ThreadForFacts
  <2>2. CASE phase # "running"
    BY <1>3, <2>2
  <2> QED
    BY <2>1, <2>2
<1>5. /\ client' = [t \in Thread |-> IF t \in used THEN for(t)
                                     ELSE IF t \in act THEN client[t] ELSE None]
      /\ queue' = [t \in Thread |-> IF t \in used THEN pend[for(t)] ELSE queue[t]]
      /\ available' = StillAvailable(avail, k)
      /\ order' = SubSeq(ord, k + 1, Len(ord))
      /\ pending' = [c \in Client |-> IF c \in served THEN <<>> ELSE pend[c]]
      /\ handled' = hnd \cup served
  BY <1>1
<1> HIDE DEF F
<1>6. \A i \in 1 .. k : for(F(i)) = ord[i]
  BY <1>4
<1>7. ASSUME NEW i \in 1 .. k PROVE ord[i] \in Client /\ ord[i] \in Members(ord) /\ i \in 1 .. Len(ord)
  BY <1>2, <1>3 DEF Members
<1>8. \A i \in 1 .. k : client'[F(i)] = ord[i] /\ queue'[F(i)] = pend[ord[i]]
  BY <1>4, <1>5, <1>6
<1>9. \A t \in Thread \ used :
        /\ client'[t] = IF t \in act THEN client[t] ELSE None
        /\ queue'[t] = queue[t]
  BY <1>5
<1> HIDE DEF for
<1>10. /\ client' \in [Thread -> Client \cup {None}] /\ queue' \in [Thread -> Seq(1 .. MaxSent)]
  <2>1. ASSUME NEW t \in Thread
        PROVE  client'[t] \in Client \cup {None} /\ queue'[t] \in Seq(1 .. MaxSent)
    <3>1. CASE t \in used
      <4>1. PICK i \in 1 .. k : t = F(i)
        BY <3>1
      <4>2. client'[t] = ord[i] /\ queue'[t] = pend[ord[i]] /\ ord[i] \in Client
        BY <1>7, <1>8, <4>1
      <4> QED
        BY <1>2, <4>2
    <3>2. CASE t \notin used
      BY <1>9, <3>2
    <3> QED
      BY <3>1, <3>2
  <2> QED
    BY <1>5, <2>1
<1>11. Active' = act \cup used
  <2>1. ASSUME NEW t \in Thread PROVE client'[t] # None <=> t \in act \cup used
    <3>1. CASE t \in used
      BY <1>7, <1>8, <3>1, PoolAssumption
    <3>2. CASE t \notin used
      BY <1>2, <1>9, <3>2 DEF Active
    <3> QED
      BY <3>1, <3>2
  <2>2. act \cup used \subseteq Thread
    BY <1>2, <1>4
  <2> QED
    BY <2>1, <2>2 DEF Active
<1>12. /\ order' \in Seq(Client) /\ Len(order') = Len(ord) - k /\ NoRepeats(order')
       /\ Members(order') = Members(ord) \ served
  BY <1>2, <1>3, <1>5, DropFacts
<1>13. /\ available' \in Seq(Thread) /\ NoRepeats(available')
       /\ Members(available') \cap Active' = {}
       /\ phase = "running" =>
            /\ Cardinality(Active') = Cardinality(act) + k
            /\ Active' \cup Members(available') = 1 .. Cardinality(Active') + Len(available')
  <2>1. CASE phase = "running"
    <3> DEFINE U == UsedFor(avail, act, k)
               R == StillAvailable(avail, k)
    <3>1. /\ R \in Seq(Thread) /\ NoRepeats(R) /\ Members(R) \cap (act \cup U) = {}
          /\ Cardinality(act \cup U) = Cardinality(act) + k
          /\ act \cup U \cup Members(R) = 1 .. Cardinality(act \cup U) + Len(R)
      <4>1. k \in 0 .. MaxThreads - Cardinality(act)
        BY <1>3
      <4> HIDE DEF U, R
      <4>2. R = StillAvailable(avail, k) /\ U = UsedFor(avail, act, k)
        BY DEF U, R
      <4>3. Cardinality(act \cup U) = Cardinality(act) + k
        BY <2>1, <4>1, <4>2, LeftOver
      <4>4. /\ R \in Seq(Thread) /\ NoRepeats(R) /\ Members(R) \cap (act \cup U) = {}
            /\ act \cup U \cup Members(R) = 1 .. Cardinality(act \cup U) + Len(R)
        BY <2>1, <4>1, <4>2, <4>3, LeftOver
      <4> QED
        BY <4>3, <4>4
    <3>2. U = used
      BY DEF F, UsedFor
    <3> HIDE DEF U, R, used
    <3>3. available' = R /\ Active' = act \cup U
      BY <1>5, <1>11, <3>2 DEF R
    <3> QED
      BY <3>1, <3>3
  <2>2. CASE phase # "running"
    <3>1. k = 0 /\ used = {}
      BY <1>3, <2>2
    <3>2. available' = avail
      BY <1>2, <1>5, <3>1 DEF StillAvailable
    <3> QED
      BY <1>2, <1>11, <2>2, <3>1, <3>2
  <2> QED
    BY <2>1, <2>2
<1>14. \A t \in act : client'[t] = client[t] /\ queue'[t] = queue[t]
  BY <1>2, <1>4, <1>9
<1>15. ASSUME NEW t \in Thread \ act
       PROVE  \/ client'[t] = None /\ queue'[t] = <<>>
              \/ client'[t] \in served /\ queue'[t] = pend[client'[t]]
  <2>1. CASE t \in used
    BY <1>8, <2>1
  <2>2. CASE t \notin used
    BY <1>9, <2>2
  <2> QED
    BY <2>1, <2>2
<1>16. ASSUME NEW t \in Thread \ act, NEW u \in Thread \ act,
              client'[t] # None, client'[t] = client'[u]
       PROVE  t = u
  <2>1. t \in used /\ u \in used
    BY <1>9, <1>16
  <2>2. PICK i \in 1 .. k : t = F(i)
    BY <2>1
  <2>3. PICK j \in 1 .. k : u = F(j)
    BY <2>1
  <2>4. ord[i] = ord[j]
    BY <1>8, <1>16, <2>2, <2>3
  <2>5. i = j
    BY <1>2, <1>7, <2>4 DEF NoRepeats
  <2> QED
    BY <2>2, <2>3, <2>5
<1>17. \A c \in served : \E t \in Thread \ act : client'[t] = c
  BY <1>4, <1>8
<1>18. failures' \in 0 .. MaxFailures
  <2>1. (\E j \in DispatchCounts(ord, avail, act) : j > k) => failures < MaxFailures
    <3>1. ASSUME NEW j \in DispatchCounts(ord, avail, act), j > k PROVE failures < MaxFailures
      <4>1. phase = "running"
        BY <1>3, <3>1 DEF DispatchCounts
      <4>2. j \in 0 .. Len(ord) /\ j \in 0 .. MaxThreads - Cardinality(act)
        BY <1>2, CountFacts
      <4>3. k # Len(ord) /\ k # MaxThreads - Cardinality(act)
        BY <1>2, <1>3, <3>1, <4>2, ThreadSets, PoolAssumption
      <4> QED
        BY <1>3, <4>1, <4>3
    <3> QED
      BY <3>1
  <2> QED
    BY <1>1, <2>1, PoolAssumption
<1>19. phase = "running" /\ failures' = 0 /\ order' # <<>> => Cardinality(Active') = MaxThreads
  <2>1. SUFFICES ASSUME phase = "running", failures' = 0, order' # <<>>
                 PROVE  Cardinality(Active') = MaxThreads
    OBVIOUS
  <2>2. ~ \E j \in DispatchCounts(ord, avail, act) : j > k
    BY <1>1, <2>1
  <2>3. k # Len(ord)
    BY <1>2, <1>12, <2>1
  <2>4. k = MaxThreads - Cardinality(act)
    BY <1>3, <2>1, <2>2, <2>3
  <2>5. Cardinality(act) \in 0 .. MaxThreads /\ MaxThreads \in Nat
    BY <1>2, ThreadSets, PoolAssumption
  <2>6. Cardinality(Active') = Cardinality(act) + k
    BY <1>13, <2>1
  <2> QED
    BY <2>4, <2>5, <2>6
<1>20. served \subseteq Members(ord)
  BY <1>7
<1>21. Dispatched(ord, pend, hnd, act, served)
  <2> HIDE DEF served, used
  <2> QED
    BY <1>5, <1>10, <1>12, <1>13, <1>14, <1>15, <1>16, <1>17, <1>18, <1>19, <1>20
      DEF Dispatched
<1> QED
  BY <1>21

-----------------------------------------------------------------------------
(* Messages in a row *)

LEMMA RunFacts ==
  ASSUME NEW q \in Seq(Nat), NEW a \in Nat, NEW b \in Nat, Run(q, a, b)
  PROVE  /\ Run(Append(q, b + 1), a, b + 1)
         /\ q # <<>> => Run(Tail(q), a + 1, b) /\ a < b
         /\ q = <<>> => a = b
         /\ Len(q) \in Nat /\ a + Len(q) = b
<1>1. Len(q) \in Nat /\ a + Len(q) = b /\ Len(q) = b - a
  BY DEF Run
<1>2. q = <<>> => a = b
  BY <1>1
<1>3. Run(Append(q, b + 1), a, b + 1)
  <2> DEFINE p == Append(q, b + 1)
  <2>1. Len(p) = Len(q) + 1 /\ p[Len(q) + 1] = b + 1 /\ \A i \in 1 .. Len(q) : p[i] = q[i]
    OBVIOUS
  <2> HIDE DEF p
  <2>2. ASSUME NEW i \in 1 .. Len(p) PROVE p[i] = a + i
    <3>1. CASE i \in 1 .. Len(q)
      BY <2>1, <3>1 DEF Run
    <3>2. CASE i = Len(q) + 1
      BY <1>1, <2>1, <3>2
    <3> QED
      BY <1>1, <2>1, <3>1, <3>2
  <2> QED
    BY <1>1, <2>1, <2>2 DEF Run, p
<1>4. q # <<>> => Run(Tail(q), a + 1, b) /\ a < b
  <2>1. SUFFICES ASSUME q # <<>> PROVE Run(Tail(q), a + 1, b) /\ a < b
    OBVIOUS
  <2> DEFINE p == Tail(q)
  <2>2. Len(q) >= 1 /\ Len(p) = Len(q) - 1 /\ \A i \in 1 .. Len(q) - 1 : p[i] = q[i + 1]
    BY <2>1
  <2> HIDE DEF p
  <2>3. ASSUME NEW i \in 1 .. Len(q) - 1 PROVE p[i] = a + 1 + i
    <3>1. i + 1 \in 1 .. Len(q) /\ p[i] = q[i + 1]
      BY <1>1, <2>2
    <3> QED
      BY <3>1 DEF Run
  <2> QED
    BY <1>1, <2>2, <2>3 DEF Run, p
<1> QED
  BY <1>1, <1>2, <1>3, <1>4

LEMMA EmptyRun ==
  ASSUME NEW a \in Nat
  PROVE  Run(<<>>, a, a)
  BY DEF Run

(* The types, in terms of the operators used here                          *)
LEMMA TypeFacts ==
  ASSUME PoolTypeOK
  PROVE  /\ NoRepeats(available) /\ NoRepeats(order) /\ Members(available) \cap Active = {}
         /\ \A c \in Client : pending[c] # <<>> <=> c \in Members(order)
         /\ \A c \in Client : pending[c] \in Seq(Nat) /\ deferred[c] \in Seq(Nat)
                              /\ sent[c] \in Nat /\ done[c] \in Nat
         /\ \A t \in Thread : queue[t] \in Seq(Nat)
<1>1. NoRepeats(available) /\ NoRepeats(order)
  BY DEF PoolTypeOK, NoRepeats
<1>2. Members(available) \cap Active = {}
  BY DEF PoolTypeOK, Members
<1>3. \A c \in Client : pending[c] # <<>> <=> c \in Members(order)
  <2>1. \A c \in Client : pending[c] # <<>> <=> \E i \in 1 .. Len(order) : order[i] = c
    BY DEF PoolTypeOK
  <2> QED
    BY <2>1 DEF Members
<1>4. \A q \in Seq(1 .. MaxSent) : q \in Seq(Nat)
  BY PoolAssumption
<1>5. \A c \in Client : pending[c] \in Seq(Nat) /\ deferred[c] \in Seq(Nat)
                        /\ sent[c] \in Nat /\ done[c] \in Nat
  BY <1>4, PoolAssumption DEF PoolTypeOK
<1>6. \A t \in Thread : queue[t] \in Seq(Nat)
  BY <1>4 DEF PoolTypeOK
<1> QED
  BY <1>1, <1>2, <1>3, <1>5, <1>6

LEMMA PlainTypes ==
  ASSUME PoolTypeOK
  PROVE  /\ registered \subseteq Client /\ handled \subseteq registered /\ handled \subseteq Client
         /\ pending \in [Client -> Seq(1 .. MaxSent)] /\ deferred \in [Client -> Seq(1 .. MaxSent)]
         /\ client \in [Thread -> Client \cup {None}] /\ queue \in [Thread -> Seq(1 .. MaxSent)]
         /\ sent \in [Client -> 0 .. MaxSent] /\ done \in [Client -> 0 .. MaxSent]
         /\ order \in Seq(Client) /\ available \in Seq(Thread)
         /\ failures \in 0 .. MaxFailures
  BY DEF PoolTypeOK

-----------------------------------------------------------------------------
(* What a step that ends with the dispatcher has prepared                  *)
Prepared(ord, pend, hnd, avail, act) ==
  /\ Dispatchable(ord, pend, avail, act) /\ DispatchTo(ord, pend, hnd, avail, act)
  /\ UNCHANGED <<registered, phase, owner, done>>
  /\ waiting' \subseteq Client /\ notified' \subseteq Client
  /\ deferred' \in [Client -> Seq(1 .. MaxSent)] /\ sent' \in [Client -> 0 .. MaxSent]
  /\ hnd \subseteq registered
  /\ \A c \in Client : pend[c] # <<>> <=> c \in Members(ord)
  /\ Members(ord) \subseteq registered \ hnd
  /\ \A t \in act : client[t] \in hnd
  /\ \A t \in Thread \ act : queue[t] = <<>>
  /\ \A c \in Client \ hnd : deferred'[c] = <<>>
  /\ \A c \in registered \ hnd : Run(pend[c], done[c], sent'[c])
  /\ \A t \in act : LET m == done[client[t]] + Len(queue[t]) IN
                    Run(deferred'[client[t]], m, sent'[client[t]])
  /\ \A c \in hnd : (\A t \in act : client[t] # c) => Run(deferred'[c], done[c], sent'[c])

(* ... and what it establishes.                                            *)
Established(pend, hnd) ==
  /\ PoolTypeOK' /\ ThreadsOK' /\ QueuesOK'
  /\ \A c \in handled' : pending'[c] = <<>>
  /\ \A c \in Client \ handled' : deferred'[c] = <<>>
  /\ \A c \in Client \ registered : pending'[c] = <<>> /\ deferred'[c] = <<>>
  /\ \A c \in Client : ~ Outstanding(c, hnd, pend, deferred') =>
                       ~ Outstanding(c, handled', pending', deferred')
  /\ phase = "running" /\ failures' = 0 /\ order' # <<>> =>
       Cardinality(Active') = MaxThreads

LEMMA DispatchKeeps ==
  ASSUME PoolInv, NEW ord, NEW pend, NEW hnd, NEW avail, NEW act,
         Prepared(ord, pend, hnd, avail, act)
  PROVE  Established(pend, hnd)
<1>0. /\ Dispatchable(ord, pend, avail, act) /\ DispatchTo(ord, pend, hnd, avail, act)
      /\ UNCHANGED <<registered, phase, owner, done>>
      /\ waiting' \subseteq Client /\ notified' \subseteq Client
      /\ deferred' \in [Client -> Seq(1 .. MaxSent)] /\ sent' \in [Client -> 0 .. MaxSent]
      /\ hnd \subseteq registered
      /\ \A c \in Client : pend[c] # <<>> <=> c \in Members(ord)
      /\ Members(ord) \subseteq registered \ hnd
      /\ \A t \in act : client[t] \in hnd
      /\ \A t \in Thread \ act : queue[t] = <<>>
      /\ \A c \in Client \ hnd : deferred'[c] = <<>>
      /\ \A c \in registered \ hnd : Run(pend[c], done[c], sent'[c])
      /\ \A t \in act : LET m == done[client[t]] + Len(queue[t]) IN
                        Run(deferred'[client[t]], m, sent'[client[t]])
      /\ \A c \in hnd : (\A t \in act : client[t] # c) => Run(deferred'[c], done[c], sent'[c])
  BY DEF Prepared
<1> USE <1>0
<1> USE DEF PoolInv
<1>1. PICK srv : Dispatched(ord, pend, hnd, act, srv)
  BY DispatchFacts DEF PoolTypeOK
<1>2. /\ srv \subseteq Members(ord) /\ srv \subseteq registered /\ srv \cap hnd = {}
      /\ srv \subseteq Client /\ hnd \subseteq Client /\ act \subseteq Active
      /\ Members(ord) \subseteq Client
  BY <1>1 DEF Dispatched, PoolTypeOK, Dispatchable
<1>3. /\ pending' = [c \in Client |-> IF c \in srv THEN <<>> ELSE pend[c]]
      /\ handled' = hnd \cup srv
      /\ Members(order') = Members(ord) \ srv
  BY <1>1 DEF Dispatched
<1>4. \A t \in act : client'[t] = client[t] /\ queue'[t] = queue[t]
  BY <1>1 DEF Dispatched
<1>5. \A t \in Thread \ act :
        \/ client'[t] = None /\ queue'[t] = <<>>
        \/ client'[t] \in srv /\ queue'[t] = pend[client'[t]]
  BY <1>1 DEF Dispatched
<1>6. PoolTypeOK'
  <2>1. handled' \subseteq registered /\ registered \subseteq Client
    BY <1>2, <1>3 DEF PoolTypeOK
  <2>2. pending' \in [Client -> Seq(1 .. MaxSent)]
    BY <1>3 DEF Dispatchable
  <2>3. \A c \in Client : pending'[c] # <<>> <=> c \in Members(order')
    BY <1>2, <1>3
  <2>4. \A c \in Client : pending'[c] # <<>> <=> \E i \in 1 .. Len(order') : order'[i] = c
    BY <2>3 DEF Members
  <2>5. /\ \A i, j \in 1 .. Len(available') : available'[i] = available'[j] => i = j
        /\ \A i, j \in 1 .. Len(order') : order'[i] = order'[j] => i = j
        /\ \A i \in 1 .. Len(available') : available'[i] \notin Active'
    BY <1>1 DEF Dispatched, NoRepeats, Members
  <2>6. /\ order' \in Seq(Client) /\ available' \in Seq(Thread)
        /\ client' \in [Thread -> Client \cup {None}] /\ queue' \in [Thread -> Seq(1 .. MaxSent)]
        /\ failures' \in 0 .. MaxFailures
    BY <1>1 DEF Dispatched
  <2> QED
    BY <2>1, <2>2, <2>4, <2>5, <2>6 DEF PoolTypeOK
<1>7. \A t \in Active' : (t \in act /\ client'[t] \in hnd) \/ (t \notin act /\ client'[t] \in srv)
  BY <1>4, <1>5 DEF Active
<1>8. ThreadsOK'
  <2>1. \A t \in Active' : client'[t] \in handled'
    BY <1>3, <1>7
  <2>2. ASSUME NEW t \in Active', NEW u \in Active', client'[t] = client'[u] PROVE t = u
    <3>1. CASE t \in act /\ u \in act
      BY <1>2, <1>4, <2>2, <3>1 DEF ThreadsOK
    <3>2. CASE t \notin act /\ u \notin act
      <4>1. /\ \A v, w \in Thread \ act : client'[v] # None /\ client'[v] = client'[w] => v = w
        BY <1>1 DEF Dispatched
      <4> QED
        BY <2>2, <3>2, <4>1 DEF Active
    <3> QED
      BY <1>2, <1>7, <2>2, <3>1, <3>2
  <2>3. \A t \in Thread \ Active' : queue'[t] = <<>>
    <3>1. ASSUME NEW t \in Thread \ Active' PROVE queue'[t] = <<>>
      <4>1. client'[t] = None /\ None \notin Client
        BY PoolAssumption DEF Active
      <4>2. t \notin act
        BY <1>2, <1>4, <4>1 DEF Active
      <4> QED
        BY <1>2, <1>5, <4>1, <4>2
    <3> QED
      BY <3>1
  <2>4. phase = "running" =>
          Active' \cup Members(available') = 1 .. Cardinality(Active') + Len(available')
    BY <1>1 DEF Dispatched
  <2> QED
    BY <2>1, <2>2, <2>3, <2>4 DEF ThreadsOK, Members
<1>9. QueuesOK'
  <2>1. \A c \in registered' \ handled' : Run(pending'[c], done'[c], sent'[c])
    BY <1>3 DEF PoolTypeOK
  <2>2. ASSUME NEW t \in Active'
        PROVE  LET c == client'[t]   m == done'[c] + Len(queue'[t]) IN
               Run(queue'[t], done'[c], m) /\ Run(deferred'[c], m, sent'[c])
    <3>1. CASE t \in act
      BY <1>2, <1>4, <3>1 DEF QueuesOK
    <3>2. CASE t \notin act
      <4> DEFINE c == client'[t]
      <4>1. c \in srv /\ queue'[t] = pend[c] /\ deferred'[c] = <<>> /\ c \in registered \ hnd
        BY <1>2, <1>5, <1>7, <3>2 DEF Active
      <4>2. pend[c] \in Seq(Nat) /\ done[c] \in Nat /\ sent'[c] \in Nat
        <5>1. \A q \in Seq(1 .. MaxSent) : q \in Seq(Nat)
          BY PoolAssumption
        <5> QED
          BY <1>2, <4>1, <5>1, PoolAssumption DEF Dispatchable, PoolTypeOK
      <4>3. Run(pend[c], done[c], sent'[c])
        BY <4>1
      <4>4. done[c] + Len(pend[c]) = sent'[c]
        BY <4>2, <4>3, RunFacts
      <4>5. Run(<<>>, sent'[c], sent'[c])
        BY <4>2, EmptyRun
      <4> QED
        BY <4>1, <4>3, <4>4, <4>5
    <3> QED
      BY <3>1, <3>2
  <2>3. ASSUME NEW c \in handled', \A t \in Active' : client'[t] # c
        PROVE  Run(deferred'[c], done'[c], sent'[c])
    <3>1. c \notin srv
      <4>1. \A d \in srv : \E t \in Thread \ act : client'[t] = d
        BY <1>1 DEF Dispatched
      <4> QED
        BY <1>2, <2>3, <4>1, PoolAssumption DEF Active
    <3>2. c \in hnd
      BY <1>3, <3>1
    <3>3. \A t \in act : client[t] # c
      <4>1. \A t \in act : t \in Active'
        BY <1>2, <1>4 DEF Active
      <4> QED
        BY <1>4, <2>3, <4>1
    <3> QED
      BY <3>2, <3>3
  <2> QED
    BY <2>1, <2>2, <2>3 DEF QueuesOK
<1>10. \A c \in handled' : pending'[c] = <<>>
  BY <1>2, <1>3
<1>11. /\ \A c \in Client \ handled' : deferred'[c] = <<>>
       /\ \A c \in Client \ registered : pending'[c] = <<>> /\ deferred'[c] = <<>>
  BY <1>2, <1>3
<1>12. \A c \in Client : ~ Outstanding(c, hnd, pend, deferred') =>
                         ~ Outstanding(c, handled', pending', deferred')
  BY <1>2, <1>3 DEF Outstanding
<1>13. phase = "running" /\ failures' = 0 /\ order' # <<>> => Cardinality(Active') = MaxThreads
  BY <1>1 DEF Dispatched
<1> QED
  BY <1>6, <1>8, <1>9, <1>10, <1>11, <1>12, <1>13 DEF Established

-----------------------------------------------------------------------------
(* The actions *)

(* The steps that leave the threads and the tables of Messages alone       *)
LEMMA QuietTypes ==
  ASSUME PoolInv, UNCHANGED <<order, pending, deferred, available, client, queue, failures>>,
         handled' = handled, handled \subseteq registered', registered' \subseteq Client,
         waiting' \subseteq Client, notified' \subseteq Client,
         phase' \in {"running", "stopping", "stopped"}, phase' = "running" => phase = "running",
         owner' \in [Client -> {"out", "in", "waits", "leaving"}],
         sent' \in [Client -> 0 .. MaxSent], done' \in [Client -> 0 .. MaxSent]
  PROVE  PoolTypeOK' /\ ThreadsOK' /\ Active' = Active
<1>1. Active' = Active
  BY DEF Active
<1>2. PoolTypeOK'
  BY <1>1 DEF PoolInv, PoolTypeOK
<1>3. ThreadsOK'
  BY <1>1 DEF PoolInv, ThreadsOK, Members
<1> QED
  BY <1>1, <1>2, <1>3

LEMMA RegisterSteps ==
  ASSUME PoolInv, NoIdleWhilePending, NEW c \in Client, RegisterClient(c)
  PROVE  PoolInv' /\ NoIdleWhilePending'
<1>1. /\ c \notin registered /\ c \notin handled /\ pending[c] = <<>> /\ deferred[c] = <<>>
      /\ c \notin notified /\ c \notin waiting
  BY DEF PoolInv, ClientsOK, RegisterClient, PoolTypeOK
<1>2. /\ handled' = handled /\ registered' = registered \cup {c}
      /\ UNCHANGED <<order, pending, deferred, available, client, queue, waiting,
                     notified, phase, failures>>
      /\ owner' = [owner EXCEPT ![c] = "in"]
      /\ sent' = [sent EXCEPT ![c] = 0] /\ done' = [done EXCEPT ![c] = 0]
  BY <1>1 DEF RegisterClient
<1>3. PoolTypeOK' /\ ThreadsOK' /\ Active' = Active
  <2>1. /\ sent' \in [Client -> 0 .. MaxSent] /\ done' \in [Client -> 0 .. MaxSent]
        /\ owner' \in [Client -> {"out", "in", "waits", "leaving"}]
    BY <1>2, PoolAssumption DEF PoolInv, PoolTypeOK
  <2> QED
    BY <1>2, <2>1, QuietTypes DEF PoolInv, PoolTypeOK
<1>4. /\ owner'[c] = "in" /\ sent'[c] = 0 /\ done'[c] = 0
      /\ \A d \in Client \ {c} : /\ owner'[d] = owner[d] /\ sent'[d] = sent[d]
                                 /\ done'[d] = done[d]
  BY <1>2 DEF PoolInv, PoolTypeOK
<1>5. handled \subseteq Client \ {c} /\ registered \subseteq Client /\ waiting \cup notified \subseteq Client
  BY <1>1 DEF PoolInv, PoolTypeOK
<1>6. ClientsOK'
  BY <1>1, <1>2, <1>4, <1>5 DEF PoolInv, ClientsOK, Outstanding
<1>7. QueuesOK'
  <2>1. Run(pending'[c], done'[c], sent'[c])
    BY <1>1, <1>2, <1>4, EmptyRun
  <2>2. \A d \in registered' \ handled' : Run(pending'[d], done'[d], sent'[d])
    BY <1>2, <1>4, <1>5, <2>1 DEF PoolInv, QueuesOK
  <2>3. \A t \in Active : client[t] \in Client \ {c}
    BY <1>5 DEF PoolInv, ThreadsOK
  <2> QED
    BY <1>2, <1>3, <1>4, <1>5, <2>2, <2>3 DEF PoolInv, QueuesOK
<1> QED
  BY <1>2, <1>3, <1>6, <1>7 DEF PoolInv, NoIdleWhilePending

LEMMA UnregisterSteps ==
  ASSUME PoolInv, NoIdleWhilePending, NEW c \in Client, UnregisterClient(c)
  PROVE  PoolInv' /\ NoIdleWhilePending'
<1>1. /\ owner[c] = "in" /\ owner' \in [Client -> {"out", "in", "waits", "leaving"}]
      /\ \A d \in Client \ {c} : owner'[d] = owner[d]
      /\ UNCHANGED <<registered, handled, order, pending, deferred, available,
                     client, queue, notified, phase, sent, done, failures>>
      /\ \/ owner'[c] = "waits" /\ waiting' = waiting \cup {c}
         \/ /\ owner'[c] = "leaving" /\ waiting' = waiting
            /\ ~ Outstanding(c, handled, pending, deferred)
  BY DEF PoolInv, PoolTypeOK, UnregisterClient
<1>2. PoolTypeOK' /\ ThreadsOK' /\ Active' = Active
  <2>1. waiting' \subseteq Client
    BY <1>1 DEF PoolInv, PoolTypeOK
  <2> QED
    BY <1>1, <2>1, QuietTypes DEF PoolInv, PoolTypeOK
<1>3. c \notin waiting /\ c \notin notified /\ waiting \cup notified \subseteq Client
  BY <1>1 DEF PoolInv, ClientsOK, PoolTypeOK
<1>4. ClientsOK'
  BY <1>1, <1>3 DEF PoolInv, ClientsOK, Outstanding
<1>5. QueuesOK'
  BY <1>1, <1>2 DEF PoolInv, QueuesOK
<1> QED
  BY <1>1, <1>2, <1>4, <1>5 DEF PoolInv, NoIdleWhilePending

LEMMA UnregisterEndsSteps ==
  ASSUME PoolInv, NoIdleWhilePending, NEW c \in Client, UnregisterEnds(c)
  PROVE  PoolInv' /\ NoIdleWhilePending'
<1>1. ~ Outstanding(c, handled, pending, deferred)
  BY DEF PoolInv, ClientsOK, UnregisterEnds
<1>2. c \notin handled /\ pending[c] = <<>> /\ deferred[c] = <<>>
  BY <1>1 DEF Outstanding
<1>3. order' = order
  <2>1. {i \in DOMAIN order : order[i] = c} = {}
    <3>1. c \notin Members(order)
      BY <1>2, TypeFacts DEF PoolInv
    <3>2. DOMAIN order = 1 .. Len(order)
      BY DEF PoolInv, PoolTypeOK
    <3> QED
      BY <3>1, <3>2 DEF Members
  <2> QED
    BY <2>1 DEF UnregisterEnds, Dequeue
<1>4. /\ handled' = handled /\ pending' = pending /\ deferred' = deferred
      /\ registered' = registered \ {c} /\ waiting' = waiting \ {c}
      /\ notified' = notified \ {c} /\ UNCHANGED <<available, client, queue, phase, failures>>
      /\ owner' = [owner EXCEPT ![c] = "out"]
      /\ sent' = [sent EXCEPT ![c] = 0] /\ done' = [done EXCEPT ![c] = 0]
  BY <1>2 DEF UnregisterEnds, PoolInv, PoolTypeOK
<1>5. PoolTypeOK' /\ ThreadsOK' /\ Active' = Active
  <2>1. /\ sent' \in [Client -> 0 .. MaxSent] /\ done' \in [Client -> 0 .. MaxSent]
        /\ owner' \in [Client -> {"out", "in", "waits", "leaving"}]
    BY <1>4, PoolAssumption DEF PoolInv, PoolTypeOK
  <2>2. /\ handled \subseteq registered' /\ registered' \subseteq Client
        /\ waiting' \subseteq Client /\ notified' \subseteq Client
    BY <1>2, <1>4 DEF PoolInv, PoolTypeOK
  <2> QED
    BY <1>3, <1>4, <2>1, <2>2, QuietTypes DEF PoolInv, PoolTypeOK
<1>6. /\ owner'[c] = "out"
      /\ \A d \in Client \ {c} : /\ owner'[d] = owner[d] /\ sent'[d] = sent[d]
                                 /\ done'[d] = done[d]
  BY <1>4 DEF PoolInv, PoolTypeOK
<1>7. handled \subseteq Client \ {c} /\ registered \subseteq Client /\ waiting \cup notified \subseteq Client
  BY <1>2 DEF PoolInv, PoolTypeOK
<1>8. ClientsOK'
  BY <1>2, <1>4, <1>6, <1>7 DEF PoolInv, ClientsOK, Outstanding
<1>9. QueuesOK'
  <2>1. \A t \in Active : client[t] \in Client \ {c}
    BY <1>7 DEF PoolInv, ThreadsOK
  <2> QED
    BY <1>4, <1>5, <1>6, <1>7, <2>1 DEF PoolInv, QueuesOK
<1> QED
  BY <1>3, <1>4, <1>5, <1>8, <1>9 DEF PoolInv, NoIdleWhilePending

LEMMA ShutdownSteps ==
  ASSUME PoolInv, NoIdleWhilePending, Shutdown \/ ShutdownEnds
  PROVE  PoolInv' /\ NoIdleWhilePending'
<1>1. CASE Shutdown
  <2>1. /\ phase' = "stopping"
        /\ UNCHANGED <<registered, handled, order, pending, deferred, available,
                       client, queue, waiting, notified, owner, sent, done, failures>>
    BY <1>1 DEF Shutdown
  <2>2. PoolTypeOK' /\ ThreadsOK' /\ Active' = Active
    BY <2>1, QuietTypes DEF PoolInv, PoolTypeOK
  <2> QED
    BY <2>1, <2>2 DEF PoolInv, ClientsOK, Outstanding, QueuesOK, NoIdleWhilePending
<1>2. CASE ShutdownEnds
  <2>1. /\ Active = {} /\ phase' = "stopped" /\ registered' = {} /\ handled' = {}
        /\ order' = <<>> /\ available' = <<>> /\ waiting' = {}
        /\ pending' = [c \in Client |-> <<>>] /\ deferred' = [c \in Client |-> <<>>]
        /\ notified' = notified \cup waiting
        /\ owner' = [c \in Client |-> IF owner[c] = "in" THEN "out" ELSE owner[c]]
        /\ UNCHANGED <<client, queue, sent, done, failures>>
    BY <1>2 DEF ShutdownEnds
  <2>2. Active' = {}
    BY <2>1 DEF Active
  <2>3. PoolTypeOK'
    <3>1. /\ pending' \in [Client -> Seq(1 .. MaxSent)] /\ deferred' \in [Client -> Seq(1 .. MaxSent)]
          /\ owner' \in [Client -> {"out", "in", "waits", "leaving"}]
      BY <2>1 DEF PoolInv, PoolTypeOK
    <3>2. /\ order' \in Seq(Client) /\ available' \in Seq(Thread)
          /\ Len(order') = 0 /\ Len(available') = 0
      BY <2>1
    <3>3. \A c \in Client : pending'[c] = <<>>
      BY <2>1
    <3> QED
      BY <2>1, <2>2, <3>1, <3>2, <3>3 DEF PoolInv, PoolTypeOK
  <2>4. ThreadsOK'
    BY <2>1, <2>2 DEF PoolInv, ThreadsOK
  <2>5. ClientsOK'
    BY <2>1 DEF PoolInv, ClientsOK, PoolTypeOK, Outstanding
  <2>6. QueuesOK'
    BY <2>1, <2>2 DEF QueuesOK
  <2> QED
    BY <2>1, <2>3, <2>4, <2>5, <2>6 DEF PoolInv, NoIdleWhilePending
<1> QED
  BY <1>1, <1>2

(* A Message is handled: the next one of the thread's queue.               *)
LEMMA HandledSteps ==
  ASSUME PoolInv, NoIdleWhilePending, NEW t \in Thread, MessageHandled(t)
  PROVE  PoolInv' /\ NoIdleWhilePending'
<1> DEFINE c == client[t]
<1>1. /\ queue[t] # <<>> /\ queue' = [queue EXCEPT ![t] = Tail(queue[t])]
      /\ done' = [done EXCEPT ![c] = done[c] + 1]
      /\ UNCHANGED <<registered, handled, order, pending, deferred, available,
                     client, waiting, notified, phase, owner, sent, failures>>
  BY DEF MessageHandled
<1>2. t \in Active /\ c \in handled /\ handled \subseteq registered /\ registered \subseteq Client
  BY <1>1 DEF PoolInv, ThreadsOK, PoolTypeOK
<1>3. /\ Run(queue[t], done[c], done[c] + Len(queue[t]))
      /\ Run(deferred[c], done[c] + Len(queue[t]), sent[c])
  BY <1>2 DEF PoolInv, QueuesOK
<1>4. /\ queue[t] \in Seq(1 .. MaxSent) /\ queue[t] \in Seq(Nat) /\ deferred[c] \in Seq(Nat)
      /\ done[c] \in Nat /\ sent[c] \in 0 .. MaxSent /\ sent[c] \in Nat /\ Len(queue[t]) \in Nat
      /\ done \in [Client -> 0 .. MaxSent] /\ queue \in [Thread -> Seq(1 .. MaxSent)]
  <2>1. done \in [Client -> 0 .. MaxSent] /\ queue \in [Thread -> Seq(1 .. MaxSent)]
        /\ sent \in [Client -> 0 .. MaxSent] /\ c \in Client
    BY <1>2, PlainTypes DEF PoolInv
  <2>2. /\ queue[t] \in Seq(Nat) /\ deferred[c] \in Seq(Nat) /\ done[c] \in Nat
        /\ sent[c] \in Nat
    BY <2>1, TypeFacts DEF PoolInv
  <2> QED
    BY <2>1, <2>2
<1> DEFINE m == done[c] + Len(queue[t])
<1>5. /\ m \in Nat /\ Run(Tail(queue[t]), done[c] + 1, m) /\ done[c] < m /\ m <= sent[c]
  <2>1. m \in Nat
    BY <1>4
  <2>2. Run(Tail(queue[t]), done[c] + 1, m) /\ done[c] < m
    BY <1>1, <1>3, <1>4, <2>1, RunFacts
  <2>3. Len(deferred[c]) \in Nat /\ m + Len(deferred[c]) = sent[c]
    <3>1. Run(deferred[c], m, sent[c]) /\ deferred[c] \in Seq(Nat) /\ sent[c] \in Nat
      BY <1>3, <1>4
    <3> HIDE DEF m
    <3> QED
      BY <3>1, <2>1, RunFacts
  <2>4. m <= sent[c]
    <3>1. sent[c] \in Nat
      BY <1>4
    <3> HIDE DEF m
    <3> QED
      BY <3>1, <2>1, <2>3
  <2> QED
    BY <2>1, <2>2, <2>4
<1>6. /\ Tail(queue[t]) \in Seq(1 .. MaxSent) /\ Len(Tail(queue[t])) = Len(queue[t]) - 1
      /\ (done[c] + 1) + Len(Tail(queue[t])) = m
  <2>1. Tail(queue[t]) \in Seq(1 .. MaxSent) /\ Len(Tail(queue[t])) = Len(queue[t]) - 1
    BY <1>1, <1>4
  <2> QED
    BY <1>4, <2>1
<1>7. /\ queue' \in [Thread -> Seq(1 .. MaxSent)] /\ queue'[t] = Tail(queue[t])
      /\ \A u \in Thread \ {t} : queue'[u] = queue[u]
  BY <1>1, <1>4, <1>6
<1>8. /\ done' \in [Client -> 0 .. MaxSent] /\ done'[c] = done[c] + 1
      /\ \A d \in Client \ {c} : done'[d] = done[d]
  BY <1>1, <1>2, <1>4, <1>5, PoolAssumption
<1>9. Active' = Active
  BY <1>1 DEF Active
<1>10. PoolTypeOK'
  BY <1>1, <1>7, <1>8, <1>9 DEF PoolInv, PoolTypeOK
<1>11. ThreadsOK'
  BY <1>1, <1>2, <1>7, <1>9 DEF PoolInv, ThreadsOK, Members
<1>12. ClientsOK'
  BY <1>1 DEF PoolInv, ClientsOK, Outstanding
<1>13. QueuesOK'
  <2>1. \A d \in registered' \ handled' : Run(pending'[d], done'[d], sent'[d])
    BY <1>1, <1>2, <1>8 DEF PoolInv, QueuesOK
  <2>2. ASSUME NEW u \in Active'
        PROVE  LET d == client'[u]   n == done'[d] + Len(queue'[u]) IN
               Run(queue'[u], done'[d], n) /\ Run(deferred'[d], n, sent'[d])
    <3>1. CASE u = t
      BY <1>1, <1>3, <1>5, <1>6, <1>7, <1>8, <3>1
    <3>2. CASE u # t
      <4>1. client[u] # c /\ client[u] \in Client /\ u \in Active /\ u \in Thread
        BY <1>2, <1>9, <3>2 DEF PoolInv, ThreadsOK, Active
      <4> QED
        BY <1>1, <1>7, <1>8, <3>2, <4>1 DEF PoolInv, QueuesOK
    <3> QED
      BY <3>1, <3>2
  <2>3. \A d \in handled' : (\A u \in Active' : client'[u] # d) =>
                            Run(deferred'[d], done'[d], sent'[d])
    BY <1>1, <1>2, <1>8, <1>9 DEF PoolInv, QueuesOK
  <2> QED
    BY <2>1, <2>2, <2>3 DEF QueuesOK
<1> QED
  BY <1>1, <1>9, <1>10, <1>11, <1>12, <1>13 DEF PoolInv, NoIdleWhilePending

(* A Message is sent to a client that is being handled, or that is pending *)
(* already.                                                                *)
LEMMA QueuedSteps ==
  ASSUME PoolInv, NoIdleWhilePending, NEW c \in Client, CanSend(c),
         sent' = [sent EXCEPT ![c] = sent[c] + 1],
         UNCHANGED <<order, handled, available, client, queue, failures,
                     registered, waiting, notified, phase, owner, done>>,
         \/ /\ c \in handled /\ pending' = pending
            /\ deferred' = [deferred EXCEPT ![c] = Append(deferred[c], sent[c] + 1)]
         \/ /\ c \notin handled /\ pending[c] # <<>> /\ deferred' = deferred
            /\ pending' = [pending EXCEPT ![c] = Append(pending[c], sent[c] + 1)]
  PROVE  PoolInv' /\ NoIdleWhilePending'
<1> DEFINE n == sent[c] + 1
<1>1. /\ c \in registered /\ n \in 1 .. MaxSent /\ sent[c] \in Nat /\ done[c] \in Nat
      /\ pending[c] \in Seq(1 .. MaxSent) /\ deferred[c] \in Seq(1 .. MaxSent)
      /\ pending[c] \in Seq(Nat) /\ deferred[c] \in Seq(Nat)
      /\ handled \subseteq Client /\ registered \subseteq Client
  <2>1. /\ pending[c] \in Seq(Nat) /\ deferred[c] \in Seq(Nat)
        /\ sent[c] \in Nat /\ done[c] \in Nat
    BY TypeFacts DEF PoolInv
  <2>2. /\ pending[c] \in Seq(1 .. MaxSent) /\ deferred[c] \in Seq(1 .. MaxSent)
        /\ handled \subseteq Client /\ registered \subseteq Client
    BY PlainTypes DEF PoolInv
  <2>3. c \in registered /\ sent[c] < MaxSent
    BY DEF CanSend
  <2> QED
    BY <2>1, <2>2, <2>3, PoolAssumption
<1>2. /\ sent' \in [Client -> 0 .. MaxSent] /\ sent'[c] = n
      /\ \A d \in Client \ {c} : sent'[d] = sent[d]
  <2>1. sent \in [Client -> 0 .. MaxSent] /\ n \in 0 .. MaxSent
    BY <1>1, PlainTypes, PoolAssumption DEF PoolInv
  <2> HIDE DEF n
  <2> QED
    BY <2>1 DEF n
<1>3. Active' = Active
  BY DEF Active
<1>4. /\ Append(pending[c], n) \in Seq(1 .. MaxSent) /\ Append(pending[c], n) # <<>>
      /\ Append(deferred[c], n) \in Seq(1 .. MaxSent)
  <2> HIDE DEF n
  <2>1. /\ Append(pending[c], n) \in Seq(1 .. MaxSent)
        /\ Append(deferred[c], n) \in Seq(1 .. MaxSent)
        /\ Len(Append(pending[c], n)) = Len(pending[c]) + 1 /\ Len(pending[c]) \in Nat
    BY <1>1
  <2> QED
    BY <2>1, Len(<<>>) = 0
<1> HIDE DEF n
<1>5. ThreadsOK'
  BY <1>3 DEF PoolInv, ThreadsOK, Members
<1>6. /\ \A d \in Client \ {c} : pending'[d] = pending[d] /\ deferred'[d] = deferred[d]
      /\ pending' \in [Client -> Seq(1 .. MaxSent)] /\ deferred' \in [Client -> Seq(1 .. MaxSent)]
      /\ c \in handled => pending'[c] = pending[c] /\ deferred'[c] = Append(deferred[c], n)
      /\ c \notin handled => pending'[c] = Append(pending[c], n) /\ deferred'[c] = deferred[c]
                             /\ pending[c] # <<>>
  <2>1. pending \in [Client -> Seq(1 .. MaxSent)] /\ deferred \in [Client -> Seq(1 .. MaxSent)]
    BY PlainTypes DEF PoolInv
  <2>2. CASE c \in handled
    <3>1. pending' = pending /\ deferred' = [deferred EXCEPT ![c] = Append(deferred[c], n)]
      BY <2>2 DEF n
    <3> QED
      BY <1>4, <2>1, <2>2, <3>1
  <2>3. CASE c \notin handled
    <3>1. /\ pending[c] # <<>> /\ deferred' = deferred
          /\ pending' = [pending EXCEPT ![c] = Append(pending[c], n)]
      BY <2>3 DEF n
    <3> QED
      BY <1>4, <2>1, <2>3, <3>1
  <2> QED
    BY <2>2, <2>3
<1>7. PoolTypeOK'
  <2>1. \A d \in Client : pending'[d] # <<>> <=> pending[d] # <<>>
    BY <1>4, <1>6
  <2>2. /\ registered' = registered /\ handled' = handled /\ waiting' = waiting
        /\ notified' = notified /\ order' = order /\ available' = available
        /\ client' = client /\ queue' = queue /\ phase' = phase /\ owner' = owner
        /\ done' = done /\ failures' = failures
    OBVIOUS
  <2> QED
    BY ONLY PoolInv, <1>2, <1>3, <1>6, <2>1, <2>2 DEF PoolInv, PoolTypeOK
<1>8. Outstanding(c, handled, pending, deferred)
  BY <1>6 DEF Outstanding
<1>9. ClientsOK'
  <2>1. owner[c] # "leaving" /\ c \notin notified
    BY <1>8 DEF PoolInv, ClientsOK
  <2>2. \A d \in Client : owner'[d] = "leaving" \/ d \in notified' =>
                          ~ Outstanding(d, handled', pending', deferred')
    BY <1>6, <2>1 DEF PoolInv, ClientsOK, Outstanding
  <2> QED
    BY <1>1, <1>6, <2>2 DEF PoolInv, ClientsOK
<1>10. QueuesOK'
  <2>1. ASSUME NEW d \in registered' \ handled' PROVE Run(pending'[d], done'[d], sent'[d])
    <3>1. CASE d = c
      <4>1. Run(pending[c], done[c], sent[c])
        BY <2>1, <3>1 DEF PoolInv, QueuesOK
      <4>2. Run(Append(pending[c], n), done[c], n)
        BY <1>1, <4>1, RunFacts DEF n
      <4> QED
        BY <1>2, <1>6, <2>1, <3>1, <4>2
    <3>2. CASE d # c
      BY <1>1, <1>2, <1>6, <2>1, <3>2 DEF PoolInv, QueuesOK
    <3> QED
      BY <3>1, <3>2
  <2>2. ASSUME NEW u \in Active'
        PROVE  LET d == client'[u]   m == done'[d] + Len(queue'[u]) IN
               Run(queue'[u], done'[d], m) /\ Run(deferred'[d], m, sent'[d])
    <3>1. client[u] \in handled /\ u \in Active /\ u \in Thread
      BY <1>3 DEF PoolInv, ThreadsOK, Active
    <3>2. CASE client[u] = c
      <4> DEFINE m == done[c] + Len(queue[u])
      <4>1. Run(queue[u], done[c], m) /\ Run(deferred[c], m, sent[c])
        BY <3>1, <3>2 DEF PoolInv, QueuesOK
      <4>2. m \in Nat
        BY <1>1, <3>1, TypeFacts DEF PoolInv
      <4>3. Run(Append(deferred[c], n), m, n)
        BY <1>1, <4>1, <4>2, RunFacts DEF n
      <4> QED
        BY <1>2, <1>6, <3>1, <3>2, <4>1, <4>3
    <3>3. CASE client[u] # c
      <4>1. client[u] \in Client \ {c}
        BY <1>1, <3>1, <3>3
      <4>2. /\ Run(queue[u], done[client[u]], done[client[u]] + Len(queue[u]))
            /\ Run(deferred[client[u]], done[client[u]] + Len(queue[u]), sent[client[u]])
        BY <3>1 DEF PoolInv, QueuesOK
      <4> QED
        BY <1>2, <1>6, <4>1, <4>2
    <3> QED
      BY <3>2, <3>3
  <2>3. ASSUME NEW d \in handled', \A u \in Active' : client'[u] # d
        PROVE  Run(deferred'[d], done'[d], sent'[d])
    <3>1. Run(deferred[d], done[d], sent[d])
      BY <1>3, <2>3 DEF PoolInv, QueuesOK
    <3>2. CASE d = c
      <4>1. Run(Append(deferred[c], n), done[c], n)
        BY <1>1, <3>1, <3>2, RunFacts DEF n
      <4> QED
        BY <1>2, <1>6, <2>3, <3>2, <4>1
    <3>3. CASE d # c
      BY <1>1, <1>2, <1>6, <3>1, <3>3
    <3> QED
      BY <3>2, <3>3
  <2> QED
    BY <2>1, <2>2, <2>3 DEF QueuesOK
<1> QED
  BY <1>3, <1>5, <1>7, <1>9, <1>10 DEF PoolInv, NoIdleWhilePending

LEMMA SendSteps ==
  ASSUME PoolInv, NoIdleWhilePending, NEW c \in Client, SendMessageToThreadPool(c)
  PROVE  PoolInv' /\ NoIdleWhilePending'
<1>1. /\ CanSend(c) /\ sent' = [sent EXCEPT ![c] = sent[c] + 1]
      /\ UNCHANGED <<registered, waiting, notified, phase, owner, done>>
  BY DEF SendMessageToThreadPool
<1>2. CASE /\ c \in handled
           /\ deferred' = [deferred EXCEPT ![c] = Append(deferred[c], sent[c] + 1)]
           /\ UNCHANGED <<order, pending, handled, available, client, queue, failures>>
  BY <1>1, <1>2, QueuedSteps
<1>3. CASE /\ c \notin handled /\ pending[c] # <<>>
           /\ pending' = [pending EXCEPT ![c] = Append(pending[c], sent[c] + 1)]
           /\ UNCHANGED <<order, deferred, handled, available, client, queue, failures>>
  BY <1>1, <1>3, QueuedSteps
<1>4. CASE /\ c \notin handled /\ pending[c] = <<>> /\ deferred' = deferred
           /\ DispatchTo(Enqueue(order, c), [pending EXCEPT ![c] = <<sent[c] + 1>>],
                         handled, available, Active)
  <2> DEFINE n == sent[c] + 1
             ord == Append(order, c)
             pend == [pending EXCEPT ![c] = <<n>>]
  <2>1. DispatchTo(ord, pend, handled, available, Active)
    BY <1>4 DEF Enqueue
  <2>2. /\ c \in registered /\ n \in 1 .. MaxSent /\ sent[c] \in Nat /\ done[c] \in Nat
    <3>1. sent[c] \in Nat /\ done[c] \in Nat
      BY TypeFacts DEF PoolInv
    <3> QED
      BY <1>1, <3>1, PoolAssumption DEF CanSend
  <2>3. /\ NoRepeats(available) /\ NoRepeats(order) /\ Members(available) \cap Active = {}
        /\ \A d \in Client : pending[d] # <<>> <=> d \in Members(order)
    BY TypeFacts DEF PoolInv
  <2>4. /\ registered \subseteq Client /\ handled \subseteq registered
        /\ pending \in [Client -> Seq(1 .. MaxSent)] /\ deferred \in [Client -> Seq(1 .. MaxSent)]
        /\ sent \in [Client -> 0 .. MaxSent]
        /\ order \in Seq(Client) /\ available \in Seq(Thread)
    BY PlainTypes DEF PoolInv
  <2>5. /\ ord \in Seq(Client) /\ NoRepeats(ord) /\ Members(ord) = Members(order) \cup {c}
    BY <1>4, <2>3, <2>4, AppendFacts
  <2>6. <<n>> \in Seq(1 .. MaxSent) /\ <<n>> # <<>> /\ Run(<<n>>, done[c], n)
    <3>1. Run(pending[c], done[c], sent[c]) /\ pending[c] \in Seq(Nat)
      BY <1>4, <2>2, TypeFacts DEF PoolInv, QueuesOK
    <3>2. done[c] = sent[c]
      BY <1>4, <2>2, <3>1, RunFacts
    <3> HIDE DEF n
    <3>3. <<n>> \in Seq(1 .. MaxSent) /\ <<n>> # <<>> /\ Len(<<n>>) = 1 /\ <<n>>[1] = n
      BY <2>2
    <3> QED
      BY <2>2, <3>2, <3>3 DEF Run, n
  <2>7. sent' \in [Client -> 0 .. MaxSent] /\ sent'[c] = n
        /\ \A d \in Client \ {c} : sent'[d] = sent[d]
    <3>1. n \in 0 .. MaxSent
      BY <2>2
    <3> QED
      BY <1>1, <2>4, <3>1
  <2> HIDE DEF n
  <2>8. /\ pend \in [Client -> Seq(1 .. MaxSent)] /\ pend[c] = <<n>>
        /\ \A d \in Client \ {c} : pend[d] = pending[d]
    BY <2>4, <2>6
  <2> HIDE DEF ord, pend
  <2>9. Dispatchable(ord, pend, available, Active)
    BY <2>3, <2>4, <2>5, <2>8 DEF Dispatchable, PoolInv, ThreadsOK
  <2>10. \A d \in Client : pend[d] # <<>> <=> d \in Members(ord)
    BY <2>3, <2>5, <2>6, <2>8
  <2>11. Members(ord) \subseteq registered \ handled
    <3>1. \A d \in Members(order) : d \in Client /\ pending[d] # <<>>
      BY <2>3, <2>4 DEF Members
    <3> QED
      BY <1>4, <2>2, <2>5, <3>1 DEF PoolInv, ClientsOK
  <2>12. \A d \in registered \ handled : Run(pend[d], done[d], sent'[d])
    BY <2>4, <2>6, <2>7, <2>8 DEF PoolInv, QueuesOK
  <2>13. \A t \in Active : client[t] \in handled /\ client[t] \in Client \ {c}
    BY <1>4, <2>4 DEF PoolInv, ThreadsOK
  <2>14. \A t \in Active : LET m == done[client[t]] + Len(queue[t]) IN
                           Run(deferred'[client[t]], m, sent'[client[t]])
    BY <1>4, <2>7, <2>13 DEF PoolInv, QueuesOK
  <2>15. \A d \in handled : (\A t \in Active : client[t] # d) =>
                            Run(deferred'[d], done[d], sent'[d])
    BY <1>4, <2>4, <2>7 DEF PoolInv, QueuesOK
  <2>16. /\ \A t \in Thread \ Active : queue[t] = <<>>
         /\ \A d \in Client \ handled : deferred'[d] = <<>>
    BY <1>4 DEF PoolInv, ThreadsOK, ClientsOK
  <2>17. /\ waiting' \subseteq Client /\ notified' \subseteq Client
         /\ deferred' \in [Client -> Seq(1 .. MaxSent)]
    BY <1>1, <1>4, <2>4 DEF PoolInv, PoolTypeOK
  <2>18. Prepared(ord, pend, handled, available, Active)
    BY <1>1, <2>1, <2>4, <2>7, <2>9, <2>10, <2>11, <2>12, <2>13, <2>14, <2>15, <2>16, <2>17
      DEF Prepared
  <2>21. Established(pend, handled)
    BY <2>18, DispatchKeeps
  <2>19. owner[c] = "in"
    BY <1>1, <1>4, <2>13 DEF CanSend, Active, PoolInv, ThreadsOK, PoolTypeOK
  <2>20. ClientsOK'
    <3>1. ASSUME NEW d \in Client, owner[d] = "leaving" \/ d \in notified
          PROVE  ~ Outstanding(d, handled', pending', deferred')
      <4>1. d # c
        BY <2>19, <3>1 DEF PoolInv, ClientsOK
      <4>2. ~ Outstanding(d, handled, pending, deferred)
        BY <3>1 DEF PoolInv, ClientsOK
      <4>3. ~ Outstanding(d, handled, pend, deferred')
        BY <1>4, <2>8, <4>1, <4>2 DEF Outstanding
      <4> QED
        BY <2>21, <4>3 DEF Established
    <3> QED
      BY <1>1, <2>21, <3>1 DEF PoolInv, ClientsOK, Established
  <2> QED
    BY <1>1, <2>20, <2>21 DEF PoolInv, NoIdleWhilePending, Established
<1> QED
  BY <1>2, <1>3, <1>4 DEF SendMessageToThreadPool

(* A thread has finished with its client.                                  *)
LEMMA FinishedSteps ==
  ASSUME PoolInv, NoIdleWhilePending, NEW t \in Thread, ThreadFinished(t)
  PROVE  PoolInv' /\ NoIdleWhilePending'
<1> DEFINE c == client[t]
           act == Active \ {t}
<1>1. /\ c # None /\ queue[t] = <<>> /\ UNCHANGED <<registered, phase, owner, sent, done>>
  BY DEF ThreadFinished
<1>2. /\ registered \subseteq Client /\ handled \subseteq registered /\ handled \subseteq Client
      /\ pending \in [Client -> Seq(1 .. MaxSent)] /\ deferred \in [Client -> Seq(1 .. MaxSent)]
      /\ client \in [Thread -> Client \cup {None}] /\ sent \in [Client -> 0 .. MaxSent]
      /\ order \in Seq(Client) /\ available \in Seq(Thread)
  BY PlainTypes DEF PoolInv
<1>3. t \in Active /\ c \in handled /\ c \in Client /\ c \in registered
  BY <1>1, <1>2 DEF Active, PoolInv, ThreadsOK
<1>4. Run(deferred[c], done[c], sent[c]) /\ pending[c] = <<>>
  <2>1. Run(deferred[c], done[c] + Len(queue[t]), sent[c]) /\ pending[c] = <<>>
    BY <1>3 DEF PoolInv, QueuesOK, ClientsOK
  <2>2. done[c] + Len(queue[t]) = done[c]
    BY <1>1, <1>3, TypeFacts, Len(<<>>) = 0 DEF PoolInv
  <2> QED
    BY <2>1, <2>2
<1>5. \A u \in act : u \in Active /\ u # t /\ client[u] # c /\ client[u] \in handled \ {c}
  BY <1>3 DEF PoolInv, ThreadsOK
<1>6. \A u \in Thread \ act : queue[u] = <<>>
  BY <1>1 DEF PoolInv, ThreadsOK
<1>7. CASE /\ phase # "running" /\ client' = [client EXCEPT ![t] = None]
           /\ UNCHANGED <<handled, order, pending, deferred, available, queue,
                          waiting, notified, failures>>
  <2>1. /\ client' \in [Thread -> Client \cup {None}] /\ client'[t] = None
        /\ \A u \in Thread \ {t} : client'[u] = client[u]
    BY <1>2, <1>7
  <2>2. Active' = act
    BY <2>1 DEF Active
  <2>3. PoolTypeOK'
    BY <1>1, <1>7, <2>1, <2>2 DEF PoolInv, PoolTypeOK
  <2>4. \A u \in act : client'[u] = client[u]
    BY <2>1 DEF Active
  <2> HIDE DEF act, c
  <2>5. ThreadsOK'
    BY <1>1, <1>5, <1>6, <1>7, <2>2, <2>4 DEF PoolInv, ThreadsOK
  <2>6. ClientsOK'
    BY <1>1, <1>7 DEF PoolInv, ClientsOK, Outstanding
  <2>7. QueuesOK'
    <3>1. \A d \in registered' \ handled' : Run(pending'[d], done'[d], sent'[d])
      BY <1>1, <1>7 DEF PoolInv, QueuesOK
    <3>2. \A u \in Active' : LET d == client'[u]   m == done'[d] + Len(queue'[u]) IN
                             Run(queue'[u], done'[d], m) /\ Run(deferred'[d], m, sent'[d])
      BY <1>1, <1>5, <1>7, <2>2, <2>4 DEF PoolInv, QueuesOK
    <3>3. ASSUME NEW d \in handled', \A u \in Active' : client'[u] # d
          PROVE  Run(deferred'[d], done'[d], sent'[d])
      <4>1. CASE d = c
        BY <1>1, <1>4, <1>7, <4>1
      <4>2. CASE d # c
        <5>1. \A u \in Active : client[u] # d
          BY <2>2, <2>4, <3>3, <4>2 DEF act, c
        <5> QED
          BY <1>1, <1>7, <3>3, <5>1 DEF PoolInv, QueuesOK
      <4> QED
        BY <4>1, <4>2
    <3> QED
      BY <3>1, <3>2, <3>3 DEF QueuesOK
  <2> QED
    BY <1>1, <1>7, <2>3, <2>5, <2>6, <2>7 DEF PoolInv, NoIdleWhilePending
<1>8. ASSUME phase = "running", NEW ord, NEW pend, NEW avail,
             ord = IF deferred[c] # <<>> THEN Append(order, c) ELSE order,
             pend = [pending EXCEPT ![c] = deferred[c]], avail = Append(available, t),
             DispatchTo(ord, pend, handled \ {c}, avail, act), deferred' = SwappedOut(c),
             WakeOwner(c, handled', pending', deferred')
      PROVE  PoolInv' /\ NoIdleWhilePending'
  <2> DEFINE hnd == handled \ {c}
  <2>1. /\ NoRepeats(available) /\ NoRepeats(order) /\ Members(available) \cap Active = {}
        /\ \A d \in Client : pending[d] # <<>> <=> d \in Members(order)
    BY TypeFacts DEF PoolInv
  <2>2. /\ deferred' \in [Client -> Seq(1 .. MaxSent)] /\ deferred'[c] = <<>>
        /\ \A d \in Client \ {c} : deferred'[d] = deferred[d]
    <3>1. deferred' = [deferred EXCEPT ![c] = <<>>] /\ <<>> \in Seq(1 .. MaxSent)
      BY <1>8 DEF SwappedOut
    <3> HIDE DEF c
    <3> QED
      BY <1>2, <1>3, <3>1
  <2>3. /\ pend \in [Client -> Seq(1 .. MaxSent)] /\ pend[c] = deferred[c]
        /\ \A d \in Client \ {c} : pend[d] = pending[d]
    <3> HIDE DEF c
    <3> QED
      BY <1>2, <1>3, <1>8
  <2>4. c \notin Members(order)
    BY <1>3, <1>4, <2>1
  <2>5. /\ ord \in Seq(Client) /\ NoRepeats(ord)
        /\ deferred[c] # <<>> => Members(ord) = Members(order) \cup {c}
        /\ deferred[c] = <<>> => Members(ord) = Members(order)
    <3>1. /\ Append(order, c) \in Seq(Client) /\ NoRepeats(Append(order, c))
          /\ Members(Append(order, c)) = Members(order) \cup {c}
      BY <1>2, <1>3, <2>1, <2>4, AppendFacts
    <3> QED
      BY <1>2, <1>8, <2>1, <3>1
  <2>6. /\ avail \in Seq(Thread) /\ Len(avail) = Len(available) + 1 /\ NoRepeats(avail)
        /\ Members(avail) = Members(available) \cup {t}
    <3>1. t \notin Members(available)
      BY <1>3, <2>1
    <3> QED
      BY <1>2, <1>8, <2>1, <3>1, AppendFacts
  <2>7. Dispatchable(ord, pend, avail, act)
    <3>1. Active \subseteq Thread
      BY DEF Active
    <3>2. IsFiniteSet(Active) /\ Cardinality(Active) \in Nat
      BY <3>1, ThreadSets, FS_CardinalityType
    <3>3. Cardinality(act) = Cardinality(Active) - 1
      BY <1>3, <3>2, FS_RemoveElement
    <3>4. Cardinality(act) + Len(avail) = Cardinality(Active) + Len(available)
      BY <1>2, <2>6, <3>2, <3>3
    <3>5. Active \cup Members(available) = 1 .. Cardinality(Active) + Len(available)
      BY <1>8 DEF PoolInv, ThreadsOK
    <3>6. act \cup Members(avail) = Active \cup Members(available)
      BY <1>3, <2>6
    <3>7. act \subseteq Active /\ act \cap Members(avail) = {}
      BY <2>1, <2>6
    <3> QED
      BY <2>3, <2>5, <2>6, <3>4, <3>5, <3>6, <3>7 DEF Dispatchable
  <2>8. \A d \in Client : pend[d] # <<>> <=> d \in Members(ord)
    BY <2>1, <2>3, <2>4, <2>5
  <2>9. Members(ord) \subseteq registered \ hnd
    <3>1. \A d \in Members(order) : d \in Client /\ pending[d] # <<>>
      BY <1>2, <2>1 DEF Members
    <3>2. Members(order) \subseteq registered \ handled
      BY <3>1 DEF PoolInv, ClientsOK
    <3> QED
      BY <1>3, <2>5, <3>2
  <2>10. \A d \in registered \ hnd : Run(pend[d], done[d], sent'[d])
    <3> HIDE DEF c
    <3>1. \A d \in registered \ handled : Run(pending[d], done[d], sent[d]) /\ d \in Client \ {c}
      BY <1>2, <1>3 DEF PoolInv, QueuesOK
    <3> QED
      BY <1>1, <1>4, <2>3, <3>1
  <2>11. \A u \in act : LET m == done[client[u]] + Len(queue[u]) IN
                        Run(deferred'[client[u]], m, sent'[client[u]])
    <3>1. \A u \in act : client[u] \in Client \ {c} /\ u \in Active
      BY <1>2, <1>5
    <3> HIDE DEF act, c
    <3> QED
      BY <1>1, <2>2, <3>1 DEF PoolInv, QueuesOK
  <2>12. \A d \in hnd : (\A u \in act : client[u] # d) => Run(deferred'[d], done[d], sent'[d])
    <3>1. SUFFICES ASSUME NEW d \in hnd, \A u \in act : client[u] # d
                   PROVE  Run(deferred'[d], done[d], sent'[d])
      OBVIOUS
    <3>2. \A u \in Active : client[u] # d
      BY <3>1
    <3>3. Run(deferred[d], done[d], sent[d]) /\ d \in Client \ {c}
      BY <1>2, <3>1, <3>2 DEF PoolInv, QueuesOK
    <3> QED
      BY <1>1, <2>2, <3>3
  <2>13. \A d \in Client \ hnd : deferred'[d] = <<>>
    BY <2>2 DEF PoolInv, ClientsOK
  <2>14. /\ waiting' \subseteq waiting /\ notified' \subseteq notified \cup (waiting \cap {c})
         /\ waiting \subseteq Client /\ notified \subseteq Client
         /\ c \in notified' /\ c \notin notified => ~ Outstanding(c, handled', pending', deferred')
    <3> HIDE DEF c
    <3> QED
      BY <1>8 DEF WakeOwner, PoolInv, PoolTypeOK
  <2>15. /\ hnd \subseteq registered /\ \A u \in act : client[u] \in hnd
         /\ waiting' \subseteq Client /\ notified' \subseteq Client
         /\ sent' \in [Client -> 0 .. MaxSent]
    BY <1>1, <1>2, <1>5, <2>14
  <2>16. DispatchTo(ord, pend, hnd, avail, act) /\ UNCHANGED <<registered, phase, owner, done>>
    BY <1>1, <1>8
  <2> HIDE DEF hnd, act, c
  <2>17. Prepared(ord, pend, hnd, avail, act)
    BY <1>6, <2>2, <2>7, <2>8, <2>9, <2>10, <2>11, <2>12, <2>13, <2>15, <2>16 DEF Prepared
  <2>18. Established(pend, hnd)
    BY <2>17, DispatchKeeps
  <2>19. ClientsOK'
    <3>1. ASSUME NEW d \in Client, owner[d] = "leaving" \/ d \in notified'
          PROVE  ~ Outstanding(d, handled', pending', deferred')
      <4>1. CASE owner[d] = "leaving" \/ d \in notified
        <5>1. ~ Outstanding(d, handled, pending, deferred)
          BY <4>1 DEF PoolInv, ClientsOK
        <5>2. d # c
          BY <1>3, <5>1 DEF Outstanding
        <5>3. ~ Outstanding(d, hnd, pend, deferred')
          BY <2>2, <2>3, <5>1, <5>2 DEF Outstanding, hnd
        <5> QED
          BY <2>18, <5>3 DEF Established
      <4>2. CASE ~ (owner[d] = "leaving" \/ d \in notified)
        <5>1. d = c /\ c \in notified' /\ c \notin notified
          BY <2>14, <3>1, <4>2
        <5> QED
          BY <2>14, <5>1
      <4> QED
        BY <4>1, <4>2
    <3>2. \A d \in waiting' \cup notified' : owner[d] = "waits"
      BY <2>14 DEF PoolInv, ClientsOK
    <3>3. \A d \in Client : owner[d] = "out" => d \notin registered
      BY DEF PoolInv, ClientsOK
    <3> QED
      BY <1>1, <2>18, <3>1, <3>2, <3>3 DEF ClientsOK, Established
  <2> QED
    BY <1>1, <2>18, <2>19 DEF PoolInv, NoIdleWhilePending, Established
<1>9. \/ /\ phase # "running" /\ client' = [client EXCEPT ![t] = None]
         /\ UNCHANGED <<handled, order, pending, deferred, available, queue,
                        waiting, notified, failures>>
      \/ /\ phase = "running"
         /\ DispatchTo(IF deferred[c] # <<>> THEN Append(order, c) ELSE order,
                       [pending EXCEPT ![c] = deferred[c]],
                       handled \ {c}, Append(available, t), act)
         /\ deferred' = SwappedOut(c)
         /\ WakeOwner(c, handled', pending', deferred')
  BY DEF ThreadFinished, Enqueue
<1> QED
  BY <1>7, <1>8, <1>9

-----------------------------------------------------------------------------
(* The theorems *)

LEMMA PoolStarts ==
  ASSUME Init
  PROVE  PoolInv /\ NoIdleWhilePending
<1>1. Active = {}
  BY DEF Init, Active
<1>2. /\ <<>> \in Seq(Client) /\ <<>> \in Seq(Thread) /\ <<>> \in Seq(1 .. MaxSent)
      /\ Len(<<>>) = 0 /\ MaxSent \in Nat /\ MaxFailures \in Nat
  BY PoolAssumption
<1>3. PoolTypeOK
  <2>1. /\ registered = {} /\ handled = {} /\ waiting = {} /\ notified = {}
        /\ order = <<>> /\ available = <<>> /\ phase = "running" /\ failures = 0
    BY DEF Init
  <2>2. /\ pending \in [Client -> Seq(1 .. MaxSent)] /\ \A c \in Client : pending[c] = <<>>
        /\ deferred \in [Client -> Seq(1 .. MaxSent)] /\ queue \in [Thread -> Seq(1 .. MaxSent)]
        /\ client \in [Thread -> Client \cup {None}]
        /\ owner \in [Client -> {"out", "in", "waits", "leaving"}]
        /\ sent \in [Client -> 0 .. MaxSent] /\ done \in [Client -> 0 .. MaxSent]
    BY <1>2 DEF Init
  <2> QED
    BY <1>2, <2>1, <2>2 DEF PoolTypeOK
<1>4. ThreadsOK
  <2>1. Members(available) = {} /\ Len(available) = 0 /\ Cardinality(Active) = 0
    BY <1>1, FS_EmptySet DEF Init, Members
  <2>2. Active \cup Members(available) = 1 .. Cardinality(Active) + Len(available)
    BY <1>1, <2>1
  <2>3. \A t \in Thread : queue[t] = <<>>
    BY DEF Init
  <2> QED
    BY <1>1, <2>2, <2>3 DEF ThreadsOK
<1>5. ClientsOK
  BY DEF Init, ClientsOK, Outstanding
<1>6. QueuesOK
  BY <1>1 DEF Init, QueuesOK
<1> QED
  BY <1>3, <1>4, <1>5, <1>6 DEF PoolInv, Init, NoIdleWhilePending

LEMMA PoolSteps ==
  ASSUME PoolInv, NoIdleWhilePending, [Next]_poolVars
  PROVE  PoolInv' /\ NoIdleWhilePending'
<1>1. ASSUME NEW c \in Client, RegisterClient(c) PROVE PoolInv' /\ NoIdleWhilePending'
  BY <1>1, RegisterSteps
<1>2. ASSUME NEW c \in Client, SendMessageToThreadPool(c) PROVE PoolInv' /\ NoIdleWhilePending'
  BY <1>2, SendSteps
<1>3. ASSUME NEW c \in Client, UnregisterClient(c) PROVE PoolInv' /\ NoIdleWhilePending'
  BY <1>3, UnregisterSteps
<1>4. ASSUME NEW c \in Client, UnregisterEnds(c) PROVE PoolInv' /\ NoIdleWhilePending'
  BY <1>4, UnregisterEndsSteps
<1>5. ASSUME NEW t \in Thread, MessageHandled(t) PROVE PoolInv' /\ NoIdleWhilePending'
  BY <1>5, HandledSteps
<1>6. ASSUME NEW t \in Thread, ThreadFinished(t) PROVE PoolInv' /\ NoIdleWhilePending'
  BY <1>6, FinishedSteps
<1>7. CASE Shutdown \/ ShutdownEnds
  BY <1>7, ShutdownSteps
<1>8. CASE UNCHANGED poolVars
  <2>1. Active' = Active
    BY <1>8 DEF poolVars, Active
  <2>2. PoolTypeOK'
    BY <1>8, <2>1 DEF poolVars, PoolInv, PoolTypeOK
  <2>3. ThreadsOK' /\ ClientsOK' /\ QueuesOK'
    BY <1>8, <2>1 DEF poolVars, PoolInv, ThreadsOK, ClientsOK, QueuesOK, Outstanding
  <2> QED
    BY <1>8, <2>1, <2>2, <2>3 DEF poolVars, PoolInv, NoIdleWhilePending
<1> QED
  BY <1>1, <1>2, <1>3, <1>4, <1>5, <1>6, <1>7, <1>8 DEF Next

(* Whatever clients, handlers and pool threads do, and whenever a thread   *)
(* cannot be started or the pool is shut down: the pool's tables keep      *)
(* agreeing.  Nobody waits for a thread while one is idle or could be made *)
(* is part of the induction.                                               *)
THEOREM PoolInvariant == Spec => [](PoolInv /\ NoIdleWhilePending)
<1>1. Init => PoolInv /\ NoIdleWhilePending
  BY PoolStarts
<1>2. (PoolInv /\ NoIdleWhilePending) /\ [Next]_poolVars => (PoolInv /\ NoIdleWhilePending)'
  BY PoolSteps
<1> QED
  BY <1>1, <1>2, PTL DEF Spec

(* DispatchPendingMessagesUnsafe() is called often enough: a client waits  *)
(* only while every thread is busy, unless a thread could not be started.  *)
THEOREM NobodyWaitsForIdle == Spec => []NoIdleWhilePending
  BY PoolInvariant, PTL

(* The assertions of ThreadPool.cpp never fail.                            *)
THEOREM AssertionsHold == Spec => []PoolAssertionsHold
<1>1. PoolInv /\ NoIdleWhilePending => PoolAssertionsHold
  <2>1. SUFFICES ASSUME PoolInv PROVE PoolAssertionsHold
    OBVIOUS
  <2>2. \A c \in Client : pending[c] # <<>> => c \notin handled
    BY <2>1 DEF PoolInv, ClientsOK
  <2>3. \A t \in Active : client[t] \in handled /\ pending[client[t]] = <<>>
    BY <2>1 DEF PoolInv, ThreadsOK, ClientsOK
  <2> QED
    BY <2>1, <2>2, <2>3 DEF PoolInv, ThreadsOK, PoolAssertionsHold
<1> QED
  BY <1>1, PoolInvariant, PTL

(* A client that has left UnregisterClient(), or that Shutdown() has let   *)
(* go, is never called again: it can be destroyed.                         *)
THEOREM UnregisteredUntouched == Spec => []UnregisteredIsUntouched
<1>1. PoolInv /\ NoIdleWhilePending => UnregisteredIsUntouched
  <2>1. SUFFICES ASSUME PoolInv, NEW c \in Client, owner[c] = "out",
                        NEW t \in Thread, client[t] = c
                 PROVE  FALSE
    BY DEF UnregisteredIsUntouched
  <2>2. t \in Active
    BY <2>1, PoolAssumption DEF Active
  <2>3. c \in registered
    BY <2>1, <2>2, PlainTypes DEF PoolInv, ThreadsOK
  <2> QED
    BY <2>1, <2>3 DEF PoolInv, ClientsOK
<1> QED
  BY <1>1, PoolInvariant, PTL

(* The numbers after a, up to b                                            *)
Numbers(a, b) == [i \in 1 .. b - a |-> a + i]
Joined(q, r) == q \o r

LEMMA JoinRuns ==
  ASSUME NEW q \in Seq(Nat), NEW r \in Seq(Nat), NEW a \in Nat, NEW m \in Nat, NEW b \in Nat,
         Run(q, a, m), Run(r, m, b)
  PROVE  Joined(q, r) = Numbers(a, b)
<1> DEFINE s == q \o r
<1>1. /\ Len(q) \in Nat /\ Len(r) \in Nat /\ a + Len(q) = m /\ m + Len(r) = b
  BY RunFacts
<1>2. s \in Seq(Nat) /\ Len(s) = Len(q) + Len(r)
      /\ \A i \in 1 .. Len(q) + Len(r) : s[i] = IF i <= Len(q) THEN q[i] ELSE r[i - Len(q)]
  BY ConcatProperties
<1> HIDE DEF s
<1>3. Len(s) = b - a
  BY <1>1, <1>2
<1>4. ASSUME NEW i \in 1 .. b - a PROVE s[i] = a + i
  <2>1. i \in 1 .. Len(q) + Len(r)
    BY <1>1
  <2>2. CASE i <= Len(q)
    <3>1. i \in 1 .. Len(q) /\ s[i] = q[i]
      BY <1>1, <1>2, <2>1, <2>2
    <3>2. q[i] = a + i
      BY <3>1 DEF Run
    <3> QED
      BY <3>1, <3>2
  <2>3. CASE ~ (i <= Len(q))
    <3>1. i - Len(q) \in 1 .. Len(r) /\ s[i] = r[i - Len(q)]
      BY <1>1, <1>2, <2>1, <2>3
    <3>2. r[i - Len(q)] = m + (i - Len(q))
      BY <3>1 DEF Run
    <3>3. m + (i - Len(q)) = a + i
      BY <1>1
    <3> QED
      BY <3>1, <3>2, <3>3
  <2> QED
    BY <2>2, <2>3
<1>5. s = [i \in 1 .. Len(s) |-> s[i]]
  BY <1>2
<1> QED
  BY <1>3, <1>4, <1>5 DEF s, Joined, Numbers

(* The Messages of a client are handled in the order they were sent, none  *)
(* lost and none twice, by one thread at a time.                           *)
THEOREM HandledInOrder == Spec => []MessagesInOrder
<1>1. ASSUME PoolInv, NEW c \in registered
      PROVE  LET doing == {t \in Thread : client[t] = c}
                 work  == IF doing = {} THEN <<>> ELSE queue[CHOOSE t \in doing : TRUE]
                 todo  == work \o pending[c] \o deferred[c] IN
             /\ Cardinality(doing) <= 1
             /\ todo = [i \in 1 .. sent[c] - done[c] |-> done[c] + i]
  <2> DEFINE doing == {t \in Thread : client[t] = c}
             work == IF doing = {} THEN <<>> ELSE queue[CHOOSE t \in doing : TRUE]
  <2>1. c \in Client /\ c # None
    BY <1>1, PlainTypes, PoolAssumption DEF PoolInv
  <2>2. /\ pending[c] \in Seq(Nat) /\ deferred[c] \in Seq(Nat) /\ done[c] \in Nat
        /\ sent[c] \in Nat
    BY <1>1, <2>1, TypeFacts DEF PoolInv
  <2>3. \A t \in doing : t \in Active /\ t \in Thread /\ client[t] = c
    BY <2>1 DEF Active
  <2>4. Run(<<>>, done[c], done[c]) /\ <<>> \in Seq(Nat)
    BY <2>2, EmptyRun
  <2>5. CASE doing = {}
    <3>1. Cardinality(doing) <= 1
      BY <2>5, FS_EmptySet
    <3>2. work = <<>>
      BY <2>5
    <3> HIDE DEF work
    <3>3. \A t \in Active : client[t] # c
      BY <2>5 DEF Active
    <3> HIDE DEF doing
    <3>4. CASE c \notin handled
      <4>1. Run(pending[c], done[c], sent[c]) /\ deferred[c] = <<>>
        BY <1>1, <2>1, <3>4 DEF PoolInv, QueuesOK, ClientsOK
      <4>2. Joined(<<>>, pending[c]) = Numbers(done[c], sent[c])
        BY <2>2, <2>4, <4>1, JoinRuns
      <4>3. <<>> \o pending[c] = pending[c] /\ pending[c] \o <<>> = pending[c]
        BY <2>2
      <4> QED
        BY <3>1, <3>2, <4>1, <4>2, <4>3 DEF Joined, Numbers, doing, work
    <3>5. CASE c \in handled
      <4>1. Run(deferred[c], done[c], sent[c]) /\ pending[c] = <<>>
        BY <1>1, <3>3, <3>5 DEF PoolInv, QueuesOK, ClientsOK
      <4>2. Joined(<<>>, deferred[c]) = Numbers(done[c], sent[c])
        BY <2>2, <2>4, <4>1, JoinRuns
      <4>3. <<>> \o <<>> = <<>>
        OBVIOUS
      <4> QED
        BY <3>1, <3>2, <4>1, <4>2, <4>3 DEF Joined, Numbers, doing, work
    <3> QED
      BY <3>4, <3>5
  <2>6. CASE doing # {}
    <3>1. PICK t \in doing : TRUE
      BY <2>6
    <3>2. t \in Active /\ t \in Thread /\ client[t] = c
      BY <2>3, <3>1
    <3>3. doing = {t}
      BY <1>1, <2>3, <3>1 DEF PoolInv, ThreadsOK
    <3>4. Cardinality(doing) <= 1
      <4>1. Cardinality({t}) = 1
        BY FS_Singleton
      <4> HIDE DEF doing
      <4> QED
        BY <3>3, <4>1
    <3>5. work = queue[t]
      BY <3>3
    <3> DEFINE k == done[c] + Len(queue[t])
    <3>6. /\ Run(queue[t], done[c], k) /\ Run(deferred[c], k, sent[c]) /\ c \in handled
      BY <1>1, <3>2 DEF PoolInv, QueuesOK, ThreadsOK
    <3>7. pending[c] = <<>> /\ queue[t] \in Seq(Nat)
      BY <1>1, <3>2, <3>6, TypeFacts DEF PoolInv, ClientsOK
    <3>8. k \in Nat
      BY <2>2, <3>7
    <3>9. Joined(queue[t], deferred[c]) = Numbers(done[c], sent[c])
      <4> HIDE DEF k
      <4> QED
        BY <2>2, <3>6, <3>7, <3>8, JoinRuns
    <3>10. queue[t] \o <<>> = queue[t]
      BY <3>7
    <3> HIDE DEF doing, work
    <3> QED
      BY <3>4, <3>5, <3>7, <3>9, <3>10 DEF Joined, Numbers, doing, work
  <2> QED
    BY <2>5, <2>6
<1>2. PoolInv /\ NoIdleWhilePending => MessagesInOrder
  BY <1>1 DEF MessagesInOrder
<1> QED
  BY <1>2, PoolInvariant, PTL
=============================================================================
