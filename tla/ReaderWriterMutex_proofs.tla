----------------------- MODULE ReaderWriterMutex_proofs ----------------------
(***************************************************************************)
(* The reader/writer lock excludes and loses no wakeup, for any number of  *)
(* threads, any depth of recursion, both values of _preferWriters.         *)
(***************************************************************************)
EXTENDS ReaderWriterMutex, TLAPS

ReaderPlaces == {"waitR", "wokeR", "lateR"}
WriterPlaces == {"waitW", "wokeW", "lateW"}

(* What an upgrading thread has given up and still holds                   *)
Upgrading ==
  \A t \in Thread :
    /\ pc[t] \in {"unlock", "lockW", "relock"} => back[t] > 0
    /\ pc[t] = "unlock" => rw[t] = 0

(* The inductive invariant                                                 *)
MutexInv ==
  /\ TypeOK
  /\ MutualExclusion
  /\ TotalIsSum
  /\ TablesMatchCalls
  /\ Upgrading
  /\ NoLostWakeup

-----------------------------------------------------------------------------
Entries(ws) == {ws[i] : i \in 1 .. Len(ws)}
Distinct(ws) == \A i, j \in 1 .. Len(ws) : ws[i] = ws[j] => i = j

(* Taking the one entry of t out of a table leaves the others, in order.   *)
LEMMA WithoutFacts ==
  ASSUME NEW ws \in Seq(Thread), NEW t \in Entries(ws), Distinct(ws)
  PROVE  /\ Without(ws, t) \in Seq(Thread)
         /\ Entries(Without(ws, t)) = Entries(ws) \ {t}
         /\ Distinct(Without(ws, t))
<1> USE DEF Entries, Distinct
<1> DEFINE n == Len(ws)
           i0 == CHOOSE k \in 1 .. Len(ws) : ws[k] = t
           w == [j \in 1 .. Len(ws) - 1 |-> IF j < i0 THEN ws[j] ELSE ws[j + 1]]
<1>1. Without(ws, t) = w
  BY DEF Without
<1>2. n \in Nat /\ n > 0 /\ i0 \in 1 .. n /\ ws[i0] = t
  OBVIOUS
<1> HIDE DEF i0
<1>3. \A j \in 1 .. n : ws[j] \in Thread
  OBVIOUS
<1>4. w \in Seq(Thread) /\ Len(w) = n - 1
  BY <1>2, <1>3
<1>5. \A j \in 1 .. (n - 1) : w[j] = IF j < i0 THEN ws[j] ELSE ws[j + 1]
  OBVIOUS
<1> HIDE DEF w
<1>6. \A j \in 1 .. (n - 1) : w[j] \in {ws[i] : i \in 1 .. n} \ {t}
  <2> TAKE j \in 1 .. (n - 1)
  <2>1. CASE j < i0
    BY <2>1, <1>2, <1>5
  <2>2. CASE ~(j < i0)
    <3>1. j + 1 \in 1 .. n /\ j + 1 # i0 /\ w[j] = ws[j + 1]
      BY <2>2, <1>2, <1>5
    <3> QED
      BY <3>1, <1>2
  <2> QED
    BY <2>1, <2>2
<1>7. \A i \in 1 .. n : ws[i] # t => \E j \in 1 .. (n - 1) : w[j] = ws[i]
  <2> SUFFICES ASSUME NEW i \in 1 .. n, ws[i] # t
               PROVE  \E j \in 1 .. (n - 1) : w[j] = ws[i]
    OBVIOUS
  <2>1. CASE i < i0
    <3>1. i \in 1 .. (n - 1) /\ w[i] = ws[i]
      BY <2>1, <1>2, <1>5
    <3> QED
      BY <3>1
  <2>2. CASE i > i0
    <3>1. i - 1 \in 1 .. (n - 1) /\ ~(i - 1 < i0) /\ (i - 1) + 1 = i
      BY <2>2, <1>2
    <3>2. w[i - 1] = ws[i]
      BY <3>1, <1>5
    <3> QED
      BY <3>1, <3>2
  <2> QED
    BY <2>1, <2>2, <1>2
<1>8. {w[i] : i \in 1 .. (n - 1)} = {ws[i] : i \in 1 .. n} \ {t}
  <2>1. \A x \in {w[i] : i \in 1 .. (n - 1)} : x \in {ws[i] : i \in 1 .. n} \ {t}
    BY <1>6
  <2>2. \A x \in {ws[i] : i \in 1 .. n} \ {t} : x \in {w[i] : i \in 1 .. (n - 1)}
    BY <1>7
  <2> QED
    BY <2>1, <2>2
<1>9. ASSUME NEW i \in 1 .. (n - 1), NEW j \in 1 .. (n - 1), w[i] = w[j]
      PROVE  i = j
  <2> DEFINE at(k) == IF k < i0 THEN k ELSE k + 1
  <2>1. at(i) \in 1 .. n /\ at(j) \in 1 .. n
    BY <1>2
  <2>2. ws[at(i)] = ws[at(j)]
    BY <1>9, <1>5
  <2>3. at(i) = at(j)
    BY <2>1, <2>2
  <2> QED
    BY <2>3, <1>2
<1>10. Without(ws, t) \in Seq(Thread)
  BY <1>1, <1>4
<1>11. Entries(w) = Entries(ws) \ {t}
  BY <1>4, <1>8
<1>12. Distinct(w)
  BY <1>4, <1>9
<1> HIDE DEF Entries, Distinct
<1> QED
  BY <1>1, <1>10, <1>11, <1>12

(* A thread that is not in a table yet is put at its end.                  *)
LEMMA AppendFacts ==
  ASSUME NEW ws \in Seq(Thread), NEW t \in Thread, t \notin Entries(ws), Distinct(ws)
  PROVE  /\ Append(ws, t) \in Seq(Thread)
         /\ Append(ws, t) # <<>>
         /\ Entries(Append(ws, t)) = Entries(ws) \cup {t}
         /\ Distinct(Append(ws, t))
         /\ ws # <<>> => Head(Append(ws, t)) = Head(ws)
<1> DEFINE w == Append(ws, t)
           n == Len(ws)
<1>1. w \in Seq(Thread) /\ Len(w) = n + 1 /\ n \in Nat /\ w # <<>>
  OBVIOUS
<1>2. w[n + 1] = t /\ \A i \in 1 .. n : w[i] = ws[i]
  OBVIOUS
<1> HIDE DEF w
<1>3. Entries(w) = Entries(ws) \cup {t}
  <2>1. \A x \in Entries(w) : x \in Entries(ws) \cup {t}
    BY <1>1, <1>2 DEF Entries
  <2>2. \A x \in Entries(ws) \cup {t} : x \in Entries(w)
    BY <1>1, <1>2 DEF Entries
  <2> QED
    BY <2>1, <2>2
<1>4. Distinct(w)
  BY <1>1, <1>2 DEF Entries, Distinct
<1>5. ws # <<>> => Head(w) = Head(ws)
  BY <1>1, <1>2
<1> QED
  BY <1>1, <1>3, <1>4, <1>5 DEF w

(* The first entry of a table is an entry of it.                           *)
LEMMA HeadIsEntry ==
  ASSUME NEW ws \in Seq(Thread), ws # <<>>
  PROVE  Head(ws) \in Entries(ws) /\ Head(ws) \in Thread
BY DEF Entries

-----------------------------------------------------------------------------
(* The counts, their types and what they say together                      *)
Counts ==
  /\ ro \in [Thread -> Nat] /\ rw \in [Thread -> Nat] /\ total \in Nat
  /\ MutualExclusion
  /\ TotalIsSum

(* A thread that executes already, or finds no writer, may read.           *)
LEMMA Reads ==
  ASSUME Counts, NEW t \in Thread, NEW k \in Nat,
         t \in Executing \/ total = 0,
         ro' = [ro EXCEPT ![t] = k], rw' = rw, total' = total
  PROVE  Counts'
BY DEF Counts, MutualExclusion, TotalIsSum, Executing

(* A thread that executes alone, or finds nobody executing, may write.     *)
LEMMA Writes ==
  ASSUME Counts, NEW t \in Thread,
         rw[t] > 0 \/ Executing \subseteq {t},
         rw' = [rw EXCEPT ![t] = rw[t] + 1], ro' = ro, total' = total + 1
  PROVE  Counts'
BY DEF Counts, MutualExclusion, TotalIsSum, Executing

(* LockReadOnlyAux() leaves the counts in order.                           *)
LEMMA LockReadOnlyAuxCounts ==
  ASSUME Counts, NEW t \in Thread, NEW deadline, NEW next, LockReadOnlyAux(t, deadline, next)
  PROVE  Counts'
<1>1. CASE ro' = ro
  BY <1>1 DEF LockReadOnlyAux, Counts, MutualExclusion, TotalIsSum
<1>2. CASE ro' # ro
  <2>1. (t \in Executing \/ total = 0) /\ ro' = [ro EXCEPT ![t] = ro[t] + 1] /\ rw' = rw /\ total' = total
    BY <1>2 DEF LockReadOnlyAux, ReadersOkay
  <2>2. ro[t] + 1 \in Nat
    BY DEF Counts
  <2> QED
    BY <2>1, <2>2, Reads
<1> QED
  BY <1>1, <1>2

(* LockReadWriteAux() leaves the counts in order.                          *)
LEMMA LockReadWriteAuxCounts ==
  ASSUME Counts, NEW t \in Thread, NEW deadline, NEW place, LockReadWriteAux(t, deadline, place)
  PROVE  Counts'
<1>1. CASE WriterOkay(t)
  BY <1>1, Writes DEF LockReadWriteAux, WriterOkay
<1>2. CASE ~WriterOkay(t)
  BY <1>2 DEF LockReadWriteAux, Counts, MutualExclusion, TotalIsSum
<1> QED
  BY <1>1, <1>2

(* No step disturbs the counts.                                            *)
LEMMA CountsStep ==
  ASSUME Counts, Next
  PROVE  Counts'
<1>1. ASSUME NEW t \in Thread, NEW deadline \in Deadlines, LockReadOnly(t, deadline)
      PROVE  Counts'
  BY <1>1, LockReadOnlyAuxCounts DEF LockReadOnly
<1>2. ASSUME NEW t \in Thread, NEW deadline \in Deadlines, LockReadWriteAgain(t, deadline)
      PROVE  Counts'
  BY <1>2, Writes DEF LockReadWriteAgain
<1>3. ASSUME NEW t \in Thread, NEW deadline \in Deadlines, BeginUpgrade(t, deadline)
      PROVE  Counts'
  BY <1>3 DEF BeginUpgrade, Counts, MutualExclusion, TotalIsSum
<1>4. ASSUME NEW t \in Thread, NEW deadline \in Deadlines, LockReadWrite(t, deadline)
      PROVE  Counts'
  BY <1>4, LockReadWriteAuxCounts DEF LockReadWrite
<1>5. ASSUME NEW t \in Thread, ReaderTimesOut(t)
      PROVE  Counts'
  BY <1>5 DEF ReaderTimesOut, Counts, MutualExclusion, TotalIsSum
<1>6. ASSUME NEW t \in Thread, WriterTimesOut(t)
      PROVE  Counts'
  BY <1>6 DEF WriterTimesOut, Counts, MutualExclusion, TotalIsSum
<1>7. ASSUME NEW t \in Thread, UnlockReadOnly(t)
      PROVE  Counts'
  BY <1>7 DEF UnlockReadOnly, UnlockReadOnlyAux, Counts, MutualExclusion, TotalIsSum
<1>8. ASSUME NEW t \in Thread, UnlockReadWrite(t)
      PROVE  Counts'
  BY <1>8 DEF UnlockReadWrite, Counts, MutualExclusion, TotalIsSum
<1>9. ASSUME NEW t \in Thread, ReaderWakes(t)
      PROVE  Counts'
  BY <1>9 DEF ReaderWakes, Counts, MutualExclusion, TotalIsSum
<1>10. ASSUME NEW t \in Thread, ReaderEnters(t)
      PROVE  Counts'
  <2>1. CASE ReadersOkay
    BY <1>10, <2>1, Reads DEF ReaderEnters, ReadersOkay
  <2>2. CASE ~ReadersOkay
    BY <1>10, <2>2 DEF ReaderEnters, Counts, MutualExclusion, TotalIsSum
  <2> QED
    BY <2>1, <2>2
<1>11. ASSUME NEW t \in Thread, ReaderGivesUp(t)
      PROVE  Counts'
  BY <1>11 DEF ReaderGivesUp, Counts, MutualExclusion, TotalIsSum
<1>12. ASSUME NEW t \in Thread, WriterWakes(t)
      PROVE  Counts'
  BY <1>12 DEF WriterWakes, Counts, MutualExclusion, TotalIsSum
<1>13. ASSUME NEW t \in Thread, WriterEnters(t)
      PROVE  Counts'
  <2>1. CASE WriterOkay(t)
    <3>1. Executing = {} /\ rw[t] = 0
      BY <2>1 DEF WriterOkay, Executing, Counts
    <3> QED
      BY <1>13, <2>1, <3>1, Writes DEF WriterEnters
  <2>2. CASE ~WriterOkay(t)
    BY <1>13, <2>2 DEF WriterEnters, Counts, MutualExclusion, TotalIsSum
  <2> QED
    BY <2>1, <2>2
<1>14. ASSUME NEW t \in Thread, WriterGivesUp(t)
      PROVE  Counts'
  BY <1>14 DEF WriterGivesUp, Counts, MutualExclusion, TotalIsSum
<1>15. ASSUME NEW t \in Thread, UpgradeUnlocks(t)
      PROVE  Counts'
  BY <1>15 DEF UpgradeUnlocks, UnlockReadOnlyAux, Counts, MutualExclusion, TotalIsSum
<1>16. ASSUME NEW t \in Thread, UpgradeLocks(t)
      PROVE  Counts'
  BY <1>16, LockReadWriteAuxCounts DEF UpgradeLocks
<1>17. ASSUME NEW t \in Thread, UpgradeRelocks(t)
      PROVE  Counts'
  BY <1>17, LockReadOnlyAuxCounts DEF UpgradeRelocks
<1> QED
  BY <1>1, <1>2, <1>3, <1>4, <1>5, <1>6, <1>7, <1>8, <1>9, <1>10, <1>11, <1>12, <1>13, <1>14, <1>15, <1>16, <1>17 DEF Next, Proceeds

-----------------------------------------------------------------------------
(* Where the threads are, with what is left of their upgrades              *)
Calls ==
  /\ pc \in [Thread -> Places]
  /\ call \in [Thread -> {Never, Finite, Try}]
  /\ back \in [Thread -> Nat]
  /\ stale \in Nat
  /\ Upgrading

(* A WaitCondition is put back or taken.                                   *)
LEMMA StaleFacts ==
  ASSUME stale \in Nat, NEW t \in Thread
  PROVE  /\ TakeWaitCondition(t) => stale' \in Nat
         /\ \A S : LeaveTableAndNotify(t, S) => stale' \in Nat
BY DEF TakeWaitCondition, LeaveTableAndNotify

(* One thread moves.                                                       *)
LEMMA Moves ==
  ASSUME Calls, NEW t \in Thread, NEW place \in Places, NEW b \in Nat,
         place \in {"unlock", "lockW", "relock"} => b > 0,
         place = "unlock" => rw'[t] = 0,
         Goto(t, place), back' = [back EXCEPT ![t] = b],
         call' \in [Thread -> {Never, Finite, Try}], stale' \in Nat,
         \A u \in Thread \ {t} : rw'[u] = rw[u]
  PROVE  Calls'
<1>1. pc' \in [Thread -> Places] /\ back' \in [Thread -> Nat]
  BY DEF Goto, Calls
<1>2. pc'[t] = place /\ back'[t] = b
  BY DEF Goto, Calls
<1>3. \A u \in Thread \ {t} : pc'[u] = pc[u] /\ back'[u] = back[u]
  BY DEF Goto, Calls
<1>4. Upgrading'
  BY <1>2, <1>3 DEF Calls, Upgrading
<1> QED
  BY <1>1, <1>4 DEF Calls

(* Where LockReadOnlyAux() leaves the thread.                              *)
LEMMA LockReadOnlyAuxCalls ==
  ASSUME Calls, NEW t \in Thread, NEW deadline, NEW next, LockReadOnlyAux(t, deadline, next)
  PROVE  /\ Goto(t, next) \/ Goto(t, "waitR")
         /\ t \in Executing \/ ReadersOkay => Goto(t, next)
         /\ ~(t \in Executing \/ ReadersOkay) => Goto(t, "waitR")
         /\ stale' \in Nat
         /\ rw' = rw
BY StaleFacts DEF Calls, LockReadOnlyAux

(* Where LockReadWriteAux() leaves the thread.                             *)
LEMMA LockReadWriteAuxCalls ==
  ASSUME Calls, Counts, NEW t \in Thread, NEW deadline, NEW place, LockReadWriteAux(t, deadline, place)
  PROVE  /\ Goto(t, place) \/ Goto(t, "waitW")
         /\ stale' \in Nat
         /\ \A u \in Thread \ {t} : rw'[u] = rw[u]
BY StaleFacts DEF Calls, Counts, LockReadWriteAux

(* No step disturbs where the threads are.                                 *)
LEMMA CallsStep ==
  ASSUME Calls, Counts, Next
  PROVE  Calls'
<1>b. \A t \in Thread : back[t] \in Nat /\ pc[t] \in Places /\ back = [back EXCEPT ![t] = back[t]]
  BY DEF Calls
<1>1. ASSUME NEW t \in Thread, NEW deadline \in Deadlines, LockReadOnly(t, deadline)
      PROVE  Calls'
  <2>1. Goto(t, "out") \/ Goto(t, "waitR")
    BY <1>1, LockReadOnlyAuxCalls DEF LockReadOnly
  <2>2. rw' = rw /\ back' = back /\ stale' \in Nat /\ call' \in [Thread -> {Never, Finite, Try}]
    BY <1>1, LockReadOnlyAuxCalls, MutexAssumption DEF LockReadOnly, Calls
  <2> QED
    BY <1>b, <2>1, <2>2, Moves DEF Places
<1>2. ASSUME NEW t \in Thread, NEW deadline \in Deadlines, LockReadWriteAgain(t, deadline)
      PROVE  Calls'
  <2>1. pc' = pc /\ pc[t] = "out" /\ back' = back /\ stale' = stale
    BY <1>2 DEF LockReadWriteAgain
  <2>2. Goto(t, "out")
    BY <2>1 DEF Goto, Calls
  <2>3. call' \in [Thread -> {Never, Finite, Try}]
    BY <1>2, MutexAssumption DEF LockReadWriteAgain, Calls
  <2>4. \A u \in Thread \ {t} : rw'[u] = rw[u]
    BY <1>2 DEF LockReadWriteAgain, Counts
  <2> QED
    BY <1>b, <2>1, <2>2, <2>3, <2>4, Moves DEF Places, Calls
<1>3. ASSUME NEW t \in Thread, NEW deadline \in Deadlines, BeginUpgrade(t, deadline)
      PROVE  Calls'
  <2>1. ro[t] \in Nat /\ ro[t] > 0 /\ rw[t] = 0
    BY <1>3 DEF BeginUpgrade, Executing, Counts
  <2>2. rw' = rw /\ stale' = stale /\ back' = [back EXCEPT ![t] = ro[t]] /\ Goto(t, "unlock")
    BY <1>3 DEF BeginUpgrade
  <2>3. call' \in [Thread -> {Never, Finite, Try}]
    BY <1>3, MutexAssumption DEF BeginUpgrade, Calls
  <2> QED
    BY <2>1, <2>2, <2>3, Moves DEF Places, Calls
<1>4. ASSUME NEW t \in Thread, NEW deadline \in Deadlines, LockReadWrite(t, deadline)
      PROVE  Calls'
  <2>1. Goto(t, "out") \/ Goto(t, "waitW")
    BY <1>4, LockReadWriteAuxCalls DEF LockReadWrite
  <2>2. back' = back /\ stale' \in Nat /\ call' \in [Thread -> {Never, Finite, Try}]
    BY <1>4, LockReadWriteAuxCalls, MutexAssumption DEF LockReadWrite, Calls
  <2>3. \A u \in Thread \ {t} : rw'[u] = rw[u]
    BY <1>4, LockReadWriteAuxCalls DEF LockReadWrite
  <2> QED
    BY <1>b, <2>1, <2>2, <2>3, Moves DEF Places
<1>5. ASSUME NEW t \in Thread, ReaderTimesOut(t)
      PROVE  Calls'
  <2>1. \E place \in {"waitR", "waitW", "wokeR", "wokeW", "lateR", "lateW"} : Goto(t, place)
    BY <1>5 DEF ReaderTimesOut
  <2>2. rw' = rw /\ call' = call /\ back' = back /\ stale' = stale
    BY <1>5 DEF ReaderTimesOut
  <2> QED
    BY <1>b, <2>1, <2>2, Moves DEF Calls, Places
<1>6. ASSUME NEW t \in Thread, WriterTimesOut(t)
      PROVE  Calls'
  <2>1. \E place \in {"waitR", "waitW", "wokeR", "wokeW", "lateR", "lateW"} : Goto(t, place)
    BY <1>6 DEF WriterTimesOut
  <2>2. rw' = rw /\ call' = call /\ back' = back /\ stale' = stale
    BY <1>6 DEF WriterTimesOut
  <2> QED
    BY <1>b, <2>1, <2>2, Moves DEF Calls, Places
<1>7. ASSUME NEW t \in Thread, UnlockReadOnly(t)
      PROVE  Calls'
  BY <1>7 DEF UnlockReadOnly, UnlockReadOnlyAux, Calls, Upgrading
<1>8. ASSUME NEW t \in Thread, UnlockReadWrite(t)
      PROVE  Calls'
  <2>1. pc[t] = "out" /\ pc' = pc /\ back' = back /\ stale' = stale /\ call' = call
    BY <1>8 DEF UnlockReadWrite
  <2>2. Goto(t, "out")
    BY <2>1 DEF Goto, Calls
  <2>3. \A u \in Thread \ {t} : rw'[u] = rw[u]
    BY <1>8 DEF UnlockReadWrite, Counts
  <2> QED
    BY <1>b, <2>1, <2>2, <2>3, Moves DEF Places, Calls
<1>9. ASSUME NEW t \in Thread, ReaderWakes(t)
      PROVE  Calls'
  <2>1. \E place \in {"waitR", "waitW", "wokeR", "wokeW", "lateR", "lateW"} : Goto(t, place)
    BY <1>9 DEF ReaderWakes
  <2>2. rw' = rw /\ call' = call /\ back' = back /\ stale' = stale
    BY <1>9 DEF ReaderWakes
  <2> QED
    BY <1>b, <2>1, <2>2, Moves DEF Calls, Places
<1>10. ASSUME NEW t \in Thread, ReaderEnters(t)
      PROVE  Calls'
  <2> DEFINE left == IF back[t] > 0 THEN back[t] - 1 ELSE 0
  <2>1. left \in Nat /\ rw' = rw /\ call' = call
    BY <1>10, <1>b DEF ReaderEnters
  <2>2. stale' \in Nat
    BY <1>10, StaleFacts DEF ReaderEnters, Calls
  <2>3. CASE ReadersOkay
    <3>1. Goto(t, AfterReadLock(t, left)) /\ back' = [back EXCEPT ![t] = left]
      BY <1>10, <2>3 DEF ReaderEnters
    <3>2. AfterReadLock(t, left) \in Places /\ (AfterReadLock(t, left) = "relock" => left > 0)
          /\ AfterReadLock(t, left) \notin {"unlock", "lockW"}
      BY DEF AfterReadLock, Places
    <3> HIDE DEF left
    <3> QED
      BY <2>1, <2>2, <3>1, <3>2, Moves DEF Calls
  <2>4. CASE ~ReadersOkay
    <3>1. Goto(t, "waitR") /\ back' = back
      BY <1>10, <2>4 DEF ReaderEnters
    <3> QED
      BY <1>b, <2>1, <2>2, <3>1, Moves DEF Places, Calls
  <2> QED
    BY <2>3, <2>4
<1>11. ASSUME NEW t \in Thread, ReaderGivesUp(t)
      PROVE  Calls'
  <2>1. Goto(t, "out") /\ rw' = rw /\ call' = call /\ back' = back
    BY <1>11 DEF ReaderGivesUp
  <2>2. stale' \in Nat
    BY <1>11, StaleFacts DEF ReaderGivesUp, Calls
  <2> QED
    BY <1>b, <2>1, <2>2, Moves DEF Calls, Places
<1>12. ASSUME NEW t \in Thread, WriterWakes(t)
      PROVE  Calls'
  <2>1. \E place \in {"waitR", "waitW", "wokeR", "wokeW", "lateR", "lateW"} : Goto(t, place)
    BY <1>12 DEF WriterWakes
  <2>2. rw' = rw /\ call' = call /\ back' = back /\ stale' = stale
    BY <1>12 DEF WriterWakes
  <2> QED
    BY <1>b, <2>1, <2>2, Moves DEF Calls, Places
<1>13. ASSUME NEW t \in Thread, WriterEnters(t)
      PROVE  Calls'
  <2>1. Goto(t, AfterWriteLock(t)) \/ Goto(t, "waitW")
    BY <1>13 DEF WriterEnters
  <2>2. AfterWriteLock(t) \in {"relock", "out"} /\ (AfterWriteLock(t) = "relock" => back[t] > 0)
    BY DEF AfterWriteLock
  <2>3. call' = call /\ back' = back
    BY <1>13 DEF WriterEnters
  <2>4. stale' \in Nat
    BY <1>13, StaleFacts DEF WriterEnters, Calls
  <2>5. \A u \in Thread \ {t} : rw'[u] = rw[u]
    BY <1>13 DEF WriterEnters, Counts
  <2> QED
    BY <1>b, <2>1, <2>2, <2>3, <2>4, <2>5, Moves DEF Calls, Places
<1>14. ASSUME NEW t \in Thread, WriterGivesUp(t)
      PROVE  Calls'
  <2>1. Goto(t, AfterWriteLock(t)) /\ rw' = rw /\ call' = call /\ back' = back
    BY <1>14 DEF WriterGivesUp
  <2>2. AfterWriteLock(t) \in {"relock", "out"} /\ (AfterWriteLock(t) = "relock" => back[t] > 0)
    BY DEF AfterWriteLock
  <2>3. stale' \in Nat
    BY <1>14, StaleFacts DEF WriterGivesUp, Calls
  <2> QED
    BY <1>b, <2>1, <2>2, <2>3, Moves DEF Calls, Places
<1>15. ASSUME NEW t \in Thread, UpgradeUnlocks(t)
      PROVE  Calls'
  <2>1. back[t] > 0 /\ rw[t] = 0
    BY <1>15 DEF UpgradeUnlocks, Calls, Upgrading
  <2>2. Goto(t, "lockW") \/ Goto(t, "unlock")
    BY <1>15 DEF UpgradeUnlocks
  <2>3. rw' = rw /\ call' = call /\ back' = back /\ stale' = stale
    BY <1>15 DEF UpgradeUnlocks, UnlockReadOnlyAux
  <2> QED
    BY <1>b, <2>1, <2>2, <2>3, Moves DEF Calls, Places
<1>16. ASSUME NEW t \in Thread, UpgradeLocks(t)
      PROVE  Calls'
  <2>1. back[t] > 0
    BY <1>16 DEF UpgradeLocks, Calls, Upgrading
  <2>2. Goto(t, "relock") \/ Goto(t, "waitW")
    BY <1>16, LockReadWriteAuxCalls DEF UpgradeLocks
  <2>3. stale' \in Nat /\ call' = call /\ back' = back
    BY <1>16, LockReadWriteAuxCalls DEF UpgradeLocks
  <2>4. \A u \in Thread \ {t} : rw'[u] = rw[u]
    BY <1>16, LockReadWriteAuxCalls DEF UpgradeLocks
  <2> QED
    BY <1>b, <2>1, <2>2, <2>3, <2>4, Moves DEF Calls, Places
<1>17. ASSUME NEW t \in Thread, UpgradeRelocks(t)
      PROVE  Calls'
  <2> DEFINE left == back[t] - 1
  <2>1. left \in Nat
    BY <1>17, <1>b DEF UpgradeRelocks, Calls, Upgrading
  <2>2. rw' = rw /\ stale' \in Nat /\ call' = call
    BY <1>17, LockReadOnlyAuxCalls DEF UpgradeRelocks
  <2>3. CASE t \in Executing \/ ReadersOkay
    <3>1. Goto(t, AfterReadLock(t, left)) /\ back' = [back EXCEPT ![t] = left]
      BY <1>17, <2>3, LockReadOnlyAuxCalls DEF UpgradeRelocks
    <3>2. AfterReadLock(t, left) \in Places /\ (AfterReadLock(t, left) = "relock" => left > 0)
          /\ AfterReadLock(t, left) \notin {"unlock", "lockW"}
      BY DEF AfterReadLock, Places
    <3> HIDE DEF left
    <3> QED
      BY <2>1, <2>2, <3>1, <3>2, Moves DEF Calls
  <2>4. CASE ~(t \in Executing \/ ReadersOkay)
    <3>1. Goto(t, "waitR") /\ back' = [back EXCEPT ![t] = back[t]]
      BY <1>17, <2>4, LockReadOnlyAuxCalls DEF UpgradeRelocks
    <3> QED
      BY <1>b, <2>2, <3>1, Moves DEF Places, Calls
  <2> QED
    BY <2>3, <2>4
<1> QED
  BY <1>1, <1>2, <1>3, <1>4, <1>5, <1>6, <1>7, <1>8, <1>9, <1>10, <1>11, <1>12, <1>13, <1>14, <1>15, <1>16, <1>17 DEF Next, Proceeds

-----------------------------------------------------------------------------
(* The waiting tables                                                      *)
Tables ==
  /\ readers \subseteq Thread
  /\ writers \in Seq(Thread)
  /\ TablesMatchCalls

(* What TablesMatchCalls says, thread by thread                            *)
LEMMA TablesFacts ==
  ASSUME Tables
  PROVE  /\ readers \subseteq Thread
         /\ writers \in Seq(Thread)
         /\ Distinct(writers)
         /\ Entries(writers) \subseteq Thread
         /\ \A t \in Thread :
              /\ t \in readers <=> pc[t] \in ReaderPlaces
              /\ t \in Entries(writers) <=> pc[t] \in WriterPlaces
              /\ pc[t] \in ReaderPlaces \cup WriterPlaces \cup {"lockW"} => ro[t] = 0 /\ rw[t] = 0
BY DEF Tables, TablesMatchCalls, WaitsIn, Distinct, Entries, ReaderPlaces, WriterPlaces

(* Thread t moves to place, and the tables say so.                         *)
LEMMA MovesInTables ==
  ASSUME Tables, Calls, NEW t \in Thread, NEW place, Goto(t, place),
         readers' \ {t} = readers \ {t},
         t \in readers' <=> place \in ReaderPlaces,
         writers' \in Seq(Thread), Distinct(writers'),
         Entries(writers') \ {t} = Entries(writers) \ {t},
         t \in Entries(writers') <=> place \in WriterPlaces,
         \A u \in Thread \ {t} : ro'[u] = ro[u] /\ rw'[u] = rw[u],
         place \in ReaderPlaces \cup WriterPlaces \cup {"lockW"} => ro'[t] = 0 /\ rw'[t] = 0
  PROVE  Tables'
<1>1. pc'[t] = place /\ \A u \in Thread \ {t} : pc'[u] = pc[u]
  BY DEF Goto, Calls
<1>2. \A u \in Thread :
        /\ u \in readers' <=> pc'[u] \in ReaderPlaces
        /\ u \in Entries(writers') <=> pc'[u] \in WriterPlaces
        /\ pc'[u] \in ReaderPlaces \cup WriterPlaces \cup {"lockW"} => ro'[u] = 0 /\ rw'[u] = 0
  BY <1>1, TablesFacts
<1>3. readers' \subseteq Thread /\ Entries(writers') \subseteq Thread
  BY TablesFacts
<1>4. readers' = {u \in Thread : pc'[u] \in ReaderPlaces}
  BY <1>2, <1>3
<1>5. Entries(writers') = {u \in Thread : pc'[u] \in WriterPlaces}
  BY <1>2, <1>3
<1> QED
  BY <1>2, <1>3, <1>4, <1>5
     DEF Tables, TablesMatchCalls, WaitsIn, Distinct, Entries, ReaderPlaces, WriterPlaces

(* ... when it stays in its table, or outside of the tables.               *)
LEMMA StaysInTables ==
  ASSUME Tables, Calls, NEW t \in Thread, NEW place, Goto(t, place),
         readers' = readers, writers' = writers,
         pc[t] \in ReaderPlaces <=> place \in ReaderPlaces,
         pc[t] \in WriterPlaces <=> place \in WriterPlaces,
         \A u \in Thread \ {t} : ro'[u] = ro[u] /\ rw'[u] = rw[u],
         place \in ReaderPlaces \cup WriterPlaces \cup {"lockW"} => ro'[t] = 0 /\ rw'[t] = 0
  PROVE  Tables'
BY TablesFacts, MovesInTables

(* LockReadOnlyAux() puts a thread that waits into its table, and no other.*)
LEMMA LockReadOnlyAuxTables ==
  ASSUME Tables, Calls, Counts, NEW t \in Thread, NEW deadline, NEW next,
         LockReadOnlyAux(t, deadline, next),
         pc[t] \in {"out", "relock"}, next \in {"out", "relock"}
  PROVE  Tables'
<1>0. ~(pc[t] \in ReaderPlaces) /\ ~(pc[t] \in WriterPlaces) /\ ~(next \in ReaderPlaces \cup WriterPlaces \cup {"lockW"})
  BY DEF ReaderPlaces, WriterPlaces
<1>1. CASE t \in Executing \/ ReadersOkay
  <2>1. /\ Goto(t, next) /\ readers' = readers /\ writers' = writers
        /\ \A u \in Thread \ {t} : ro'[u] = ro[u] /\ rw'[u] = rw[u]
    BY <1>1 DEF LockReadOnlyAux, Counts
  <2> QED
    BY <1>0, <2>1, StaysInTables
<1>2. CASE t \notin Executing /\ ~ReadersOkay
  <2>1. /\ Goto(t, "waitR") /\ readers' = readers \cup {t} /\ writers' = writers
        /\ ro' = ro /\ rw' = rw
    BY <1>2 DEF LockReadOnlyAux
  <2>2. ro[t] = 0 /\ rw[t] = 0
    BY <1>2 DEF Executing, Counts
  <2>3. "waitR" \in ReaderPlaces /\ ~("waitR" \in WriterPlaces)
    BY DEF ReaderPlaces, WriterPlaces
  <2>4. Distinct(writers') /\ writers' \in Seq(Thread) /\ t \notin Entries(writers')
    BY <1>0, <2>1, TablesFacts
  <2> QED
    BY <2>1, <2>2, <2>3, <2>4, MovesInTables
<1> QED
  BY <1>1, <1>2

(* LockReadWriteAux() puts a thread that waits at the end of its table.    *)
LEMMA LockReadWriteAuxTables ==
  ASSUME Tables, Calls, Counts, NEW t \in Thread, NEW deadline, NEW place,
         LockReadWriteAux(t, deadline, place),
         t \notin Executing,
         pc[t] \in {"out", "lockW"}, place \in {"out", "relock"}
  PROVE  Tables'
<1>0. ~(pc[t] \in ReaderPlaces) /\ ~(pc[t] \in WriterPlaces) /\ ~(place \in ReaderPlaces \cup WriterPlaces \cup {"lockW"})
  BY DEF ReaderPlaces, WriterPlaces
<1>1. CASE WriterOkay(t) \/ deadline = Try
  <2>1. /\ Goto(t, place) /\ readers' = readers /\ writers' = writers
        /\ \A u \in Thread \ {t} : ro'[u] = ro[u] /\ rw'[u] = rw[u]
    BY <1>1 DEF LockReadWriteAux, Counts
  <2> QED
    BY <1>0, <2>1, StaysInTables
<1>2. CASE ~WriterOkay(t) /\ deadline # Try
  <2>1. /\ Goto(t, "waitW") /\ readers' = readers /\ writers' = Append(writers, t)
        /\ ro' = ro /\ rw' = rw
    BY <1>2 DEF LockReadWriteAux
  <2>2. ro[t] = 0 /\ rw[t] = 0
    BY DEF Executing, Counts
  <2>3. "waitW" \in WriterPlaces /\ ~("waitW" \in ReaderPlaces)
    BY DEF ReaderPlaces, WriterPlaces
  <2>4. t \notin readers /\ t \notin Entries(writers) /\ writers \in Seq(Thread) /\ Distinct(writers)
    BY <1>0, TablesFacts
  <2>5. /\ writers' \in Seq(Thread) /\ Distinct(writers')
        /\ Entries(writers') = Entries(writers) \cup {t}
    BY <2>1, <2>4, AppendFacts
  <2> QED
    BY <2>1, <2>2, <2>3, <2>4, <2>5, MovesInTables
<1> QED
  BY <1>1, <1>2

(* No step disturbs the tables.                                            *)
LEMMA TablesStep ==
  ASSUME Tables, Calls, Counts, Next
  PROVE  Tables'
<1>1. ASSUME NEW t \in Thread, NEW deadline \in Deadlines, LockReadOnly(t, deadline)
      PROVE  Tables'
  BY <1>1, LockReadOnlyAuxTables DEF LockReadOnly
<1>2. ASSUME NEW t \in Thread, NEW deadline \in Deadlines, LockReadWriteAgain(t, deadline)
      PROVE  Tables'
  <2>1. /\ readers' = readers /\ writers' = writers /\ pc' = pc /\ pc[t] = "out"
        /\ \A u \in Thread \ {t} : ro'[u] = ro[u] /\ rw'[u] = rw[u]
    BY <1>2 DEF LockReadWriteAgain, UnlockReadOnlyAux, Counts
  <2>2. Goto(t, "out")
    BY <2>1 DEF Goto, Calls
  <2> QED
    BY <2>1, <2>2, StaysInTables DEF ReaderPlaces, WriterPlaces
<1>3. ASSUME NEW t \in Thread, NEW deadline \in Deadlines, BeginUpgrade(t, deadline)
      PROVE  Tables'
  <2>1. /\ Goto(t, "unlock") /\ readers' = readers /\ writers' = writers
        /\ ro' = ro /\ rw' = rw /\ pc[t] = "out"
    BY <1>3 DEF BeginUpgrade
  <2> QED
    BY <2>1, StaysInTables DEF ReaderPlaces, WriterPlaces
<1>4. ASSUME NEW t \in Thread, NEW deadline \in Deadlines, LockReadWrite(t, deadline)
      PROVE  Tables'
  BY <1>4, LockReadWriteAuxTables DEF LockReadWrite
<1>5. ASSUME NEW t \in Thread, ReaderTimesOut(t)
      PROVE  Tables'
  <2>1. Goto(t, "lateR") /\ readers' = readers /\ writers' = writers /\ ro' = ro /\ rw' = rw
    BY <1>5 DEF ReaderTimesOut
  <2>2. pc[t] \in ReaderPlaces
    BY <1>5 DEF ReaderTimesOut, ReaderPlaces, WriterPlaces
  <2> QED
    BY <2>1, <2>2, TablesFacts, StaysInTables DEF ReaderPlaces, WriterPlaces
<1>6. ASSUME NEW t \in Thread, WriterTimesOut(t)
      PROVE  Tables'
  <2>1. Goto(t, "lateW") /\ readers' = readers /\ writers' = writers /\ ro' = ro /\ rw' = rw
    BY <1>6 DEF WriterTimesOut
  <2>2. pc[t] \in WriterPlaces
    BY <1>6 DEF WriterTimesOut, ReaderPlaces, WriterPlaces
  <2> QED
    BY <2>1, <2>2, TablesFacts, StaysInTables DEF ReaderPlaces, WriterPlaces
<1>7. ASSUME NEW t \in Thread, UnlockReadOnly(t)
      PROVE  Tables'
  <2>1. /\ readers' = readers /\ writers' = writers /\ pc' = pc /\ pc[t] = "out"
        /\ \A u \in Thread \ {t} : ro'[u] = ro[u] /\ rw'[u] = rw[u]
    BY <1>7 DEF UnlockReadOnly, UnlockReadOnlyAux, Counts
  <2>2. Goto(t, "out")
    BY <2>1 DEF Goto, Calls
  <2> QED
    BY <2>1, <2>2, StaysInTables DEF ReaderPlaces, WriterPlaces
<1>8. ASSUME NEW t \in Thread, UnlockReadWrite(t)
      PROVE  Tables'
  <2>1. /\ readers' = readers /\ writers' = writers /\ pc' = pc /\ pc[t] = "out"
        /\ \A u \in Thread \ {t} : ro'[u] = ro[u] /\ rw'[u] = rw[u]
    BY <1>8 DEF UnlockReadWrite, UnlockReadOnlyAux, Counts
  <2>2. Goto(t, "out")
    BY <2>1 DEF Goto, Calls
  <2> QED
    BY <2>1, <2>2, StaysInTables DEF ReaderPlaces, WriterPlaces
<1>9. ASSUME NEW t \in Thread, ReaderWakes(t)
      PROVE  Tables'
  <2>1. Goto(t, "wokeR") /\ readers' = readers /\ writers' = writers /\ ro' = ro /\ rw' = rw
    BY <1>9 DEF ReaderWakes
  <2>2. pc[t] \in ReaderPlaces
    BY <1>9 DEF ReaderWakes, ReaderPlaces, WriterPlaces
  <2> QED
    BY <2>1, <2>2, TablesFacts, StaysInTables DEF ReaderPlaces, WriterPlaces
<1>10. ASSUME NEW t \in Thread, ReaderEnters(t)
      PROVE  Tables'
  <2>1. pc[t] \in ReaderPlaces
    BY <1>10 DEF ReaderEnters, ReaderPlaces
  <2>2. CASE ReadersOkay
    <3>1. PICK place \in {"out", "relock"} : Goto(t, place)
      BY <1>10, <2>2 DEF ReaderEnters, AfterReadLock
    <3>2. /\ readers' = readers \ {t} /\ writers' = writers
          /\ \A u \in Thread \ {t} : ro'[u] = ro[u] /\ rw'[u] = rw[u]
      BY <1>10, <2>2 DEF ReaderEnters, Counts
    <3>3. ~(place \in ReaderPlaces \cup WriterPlaces \cup {"lockW"}) /\ ~(pc[t] \in WriterPlaces)
      BY <2>1 DEF ReaderPlaces, WriterPlaces
    <3> QED
      BY <3>1, <3>2, <3>3, TablesFacts, MovesInTables
  <2>3. CASE ~ReadersOkay
    <3>1. Goto(t, "waitR") /\ readers' = readers /\ writers' = writers /\ ro' = ro /\ rw' = rw
      BY <1>10, <2>3 DEF ReaderEnters
    <3> QED
      BY <2>1, <3>1, TablesFacts, StaysInTables DEF ReaderPlaces, WriterPlaces
  <2> QED
    BY <2>2, <2>3
<1>11. ASSUME NEW t \in Thread, ReaderGivesUp(t)
      PROVE  Tables'
  <2>1. /\ Goto(t, "out") /\ readers' = readers \ {t} /\ writers' = writers
        /\ ro' = ro /\ rw' = rw
    BY <1>11 DEF ReaderGivesUp
  <2>2. ~("out" \in ReaderPlaces \cup WriterPlaces \cup {"lockW"}) /\ ~(pc[t] \in WriterPlaces)
    BY <1>11 DEF ReaderGivesUp, ReaderPlaces, WriterPlaces
  <2> QED
    BY <2>1, <2>2, TablesFacts, MovesInTables
<1>12. ASSUME NEW t \in Thread, WriterWakes(t)
      PROVE  Tables'
  <2>1. Goto(t, "wokeW") /\ readers' = readers /\ writers' = writers /\ ro' = ro /\ rw' = rw
    BY <1>12 DEF WriterWakes
  <2>2. pc[t] \in WriterPlaces
    BY <1>12 DEF WriterWakes, ReaderPlaces, WriterPlaces
  <2> QED
    BY <2>1, <2>2, TablesFacts, StaysInTables DEF ReaderPlaces, WriterPlaces
<1>13. ASSUME NEW t \in Thread, WriterEnters(t)
      PROVE  Tables'
  <2>1. pc[t] \in WriterPlaces /\ ~(pc[t] \in ReaderPlaces)
    BY <1>13 DEF WriterEnters, ReaderPlaces, WriterPlaces
  <2>2. CASE WriterOkay(t)
    <3>1. PICK place \in {"out", "relock"} : Goto(t, place)
      BY <1>13, <2>2 DEF WriterEnters, AfterWriteLock
    <3>2. /\ readers' = readers /\ writers' = Without(writers, t)
          /\ \A u \in Thread \ {t} : ro'[u] = ro[u] /\ rw'[u] = rw[u]
      BY <1>13, <2>2 DEF WriterEnters, Counts
    <3>3. ~(place \in ReaderPlaces \cup WriterPlaces \cup {"lockW"})
      BY DEF ReaderPlaces, WriterPlaces
    <3>4. /\ writers' \in Seq(Thread) /\ Distinct(writers')
          /\ Entries(writers') = Entries(writers) \ {t}
      BY <2>1, <3>2, TablesFacts, WithoutFacts
    <3> QED
      BY <2>1, <3>1, <3>2, <3>3, <3>4, TablesFacts, MovesInTables
  <2>3. CASE ~WriterOkay(t)
    <3>1. Goto(t, "waitW") /\ readers' = readers /\ writers' = writers /\ ro' = ro /\ rw' = rw
      BY <1>13, <2>3 DEF WriterEnters
    <3> QED
      BY <2>1, <3>1, TablesFacts, StaysInTables DEF ReaderPlaces, WriterPlaces
  <2> QED
    BY <2>2, <2>3
<1>14. ASSUME NEW t \in Thread, WriterGivesUp(t)
      PROVE  Tables'
  <2>1. pc[t] \in WriterPlaces /\ ~(pc[t] \in ReaderPlaces)
    BY <1>14 DEF WriterGivesUp, ReaderPlaces, WriterPlaces
  <2>2. PICK place \in {"out", "relock"} : Goto(t, place)
    BY <1>14 DEF WriterGivesUp, AfterWriteLock
  <2>3. readers' = readers /\ writers' = Without(writers, t) /\ ro' = ro /\ rw' = rw
    BY <1>14 DEF WriterGivesUp
  <2>4. ~(place \in ReaderPlaces \cup WriterPlaces \cup {"lockW"})
    BY DEF ReaderPlaces, WriterPlaces
  <2>5. /\ writers' \in Seq(Thread) /\ Distinct(writers')
        /\ Entries(writers') = Entries(writers) \ {t}
    BY <2>1, <2>3, TablesFacts, WithoutFacts
  <2> QED
    BY <2>1, <2>2, <2>3, <2>4, <2>5, TablesFacts, MovesInTables
<1>15. ASSUME NEW t \in Thread, UpgradeUnlocks(t)
      PROVE  Tables'
  <2>1. /\ readers' = readers /\ writers' = writers /\ pc[t] = "unlock"
        /\ \A u \in Thread \ {t} : ro'[u] = ro[u] /\ rw'[u] = rw[u]
    BY <1>15 DEF UpgradeUnlocks, UnlockReadOnlyAux, Counts
  <2>2. CASE ro[t] = 1
    <3>1. Goto(t, "lockW")
      BY <1>15, <2>2 DEF UpgradeUnlocks
    <3>2. ro'[t] = 0 /\ rw'[t] = 0
      BY <1>15, <2>2, <2>1 DEF UpgradeUnlocks, UnlockReadOnlyAux, Counts, Calls, Upgrading
    <3> QED
      BY <2>1, <3>1, <3>2, StaysInTables DEF ReaderPlaces, WriterPlaces
  <2>3. CASE ~(ro[t] = 1)
    <3>1. Goto(t, "unlock")
      BY <1>15, <2>3 DEF UpgradeUnlocks
    <3> QED
      BY <2>1, <3>1, StaysInTables DEF ReaderPlaces, WriterPlaces
  <2> QED
    BY <2>2, <2>3
<1>16. ASSUME NEW t \in Thread, UpgradeLocks(t)
      PROVE  Tables'
  <2>1. t \notin Executing
    BY <1>16, TablesFacts DEF UpgradeLocks, Executing, Counts
  <2> QED
    BY <1>16, <2>1, LockReadWriteAuxTables DEF UpgradeLocks
<1>17. ASSUME NEW t \in Thread, UpgradeRelocks(t)
      PROVE  Tables'
  BY <1>17, LockReadOnlyAuxTables DEF UpgradeRelocks, AfterReadLock
<1> QED
  BY <1>1, <1>2, <1>3, <1>4, <1>5, <1>6, <1>7, <1>8, <1>9, <1>10, <1>11, <1>12, <1>13, <1>14, <1>15, <1>16, <1>17 DEF Next, Proceeds

-----------------------------------------------------------------------------
(* The notifications                                                       *)
Wakeups ==
  /\ notified \subseteq Thread
  /\ NoLostWakeup

(* No total is left when nobody executes.                                  *)
LEMMA NobodyExecutes ==
  ASSUME Counts, Executing = {}
  PROVE  total = 0
BY DEF Counts, TotalIsSum, Executing

(* Only threads are notified.                                              *)
LEMMA SomeWaitingFacts ==
  ASSUME NEW rs \in SUBSET Thread, NEW ws \in Seq(Thread)
  PROVE  SomeWaiting(rs, ws) \subseteq Thread /\ \A exec : MaybeNotify(exec, rs, ws) \subseteq Thread
<1>1. ws # <<>> => Head(ws) \in Thread
  BY HeadIsEntry
<1> QED
  BY <1>1 DEF SomeWaiting, MaybeNotify

(* There is nothing to show while a thread executes.                       *)
LEMMA OneExecutes ==
  ASSUME NEW t \in Thread, ro'[t] + rw'[t] > 0
  PROVE  NoLostWakeup'
BY DEF NoLostWakeup, Executing

(* Those that NotifySomeWaitingThreads() picks are those that may go on.   *)
LEMMA Notifies ==
  ASSUME SomeWaiting(readers', writers') \subseteq notified'
  PROVE  NoLostWakeup'
BY MutexAssumption DEF NoLostWakeup, SomeWaiting, WillLook

(* The same threads wait, and none forgets that it was notified.           *)
LEMMA NoneForgets ==
  ASSUME Tables, NoLostWakeup, readers' = readers, writers' = writers, ro' = ro, rw' = rw,
         \A u \in Thread : WillLook(u) => WillLook(u)'
  PROVE  NoLostWakeup'
<1>1. writers # <<>> => Head(writers) \in Thread
  BY HeadIsEntry DEF Tables
<1>2. Executing' = Executing /\ readers \subseteq Thread
  BY DEF Executing, Tables
<1> QED
  BY <1>1, <1>2 DEF NoLostWakeup

(* Thread t moves and keeps or loses only its own notification.            *)
LEMMA OthersLook ==
  ASSUME Calls, NEW t \in Thread, NEW place, Goto(t, place), notified \ {t} \subseteq notified'
  PROVE  \A u \in Thread \ {t} : WillLook(u) => WillLook(u)'
BY DEF Calls, Goto, WillLook

(* A thread takes a WaitCondition: no notification is lost.                *)
LEMMA TakesWaitCondition ==
  ASSUME Calls, Wakeups, NEW t \in Thread, NEW place, Goto(t, place), TakeWaitCondition(t),
         pc[t] \in {"out", "lockW", "relock"}
  PROVE  /\ notified' \subseteq Thread
         /\ \A u \in Thread : WillLook(u) => WillLook(u)'
<1>1. notified \subseteq notified' /\ notified' \subseteq Thread
  BY DEF TakeWaitCondition, Wakeups
<1>2. WillLook(t) => WillLook(t)'
  BY <1>1 DEF WillLook
<1> QED
  BY <1>1, <1>2, OthersLook

(* A reader that starts to wait has a notified writer before it, if nobody  *)
(* executes.                                                               *)
LEMMA LockReadOnlyAuxWakeups ==
  ASSUME Wakeups, Tables, Calls, Counts, NEW t \in Thread, NEW deadline, NEW next,
         LockReadOnlyAux(t, deadline, next), pc[t] \in {"out", "relock"}
  PROVE  Wakeups'
<1>1. CASE t \in Executing \/ ReadersOkay
  <2>1. ro'[t] + rw'[t] > 0 /\ notified' = notified
    BY <1>1 DEF LockReadOnlyAux, Counts
  <2> QED
    BY <2>1, OneExecutes DEF Wakeups
<1>2. CASE ~(t \in Executing \/ ReadersOkay)
  <2>1. /\ Goto(t, "waitR") /\ TakeWaitCondition(t)
        /\ writers' = writers /\ ro' = ro /\ rw' = rw
    BY <1>2 DEF LockReadOnlyAux
  <2>2. notified' \subseteq Thread /\ \A u \in Thread : WillLook(u) => WillLook(u)'
    BY <2>1, TakesWaitCondition
  <2>3. Executing' = Executing
    BY <2>1 DEF Executing
  <2>4. ASSUME Executing = {}
        PROVE  PreferWriters /\ writers # <<>> /\ WillLook(Head(writers))'
    <3>1. PreferWriters /\ writers # <<>>
      BY <1>2, <2>4, NobodyExecutes DEF ReadersOkay
    <3>2. Head(writers) \in Thread /\ WillLook(Head(writers))
      BY <3>1, <2>4, HeadIsEntry DEF Wakeups, NoLostWakeup, Tables
    <3> QED
      BY <2>2, <2>1, <3>1, <3>2
  <2> QED
    BY <2>1, <2>2, <2>3, <2>4 DEF Wakeups, NoLostWakeup
<1> QED
  BY <1>1, <1>2

(* A writer that starts to wait leaves the notified threads before it.     *)
LEMMA LockReadWriteAuxWakeups ==
  ASSUME Wakeups, Tables, Calls, Counts, NEW t \in Thread, NEW deadline, NEW place,
         LockReadWriteAux(t, deadline, place), pc[t] \in {"out", "lockW"}
  PROVE  Wakeups'
<1>1. CASE WriterOkay(t)
  <2>1. ro'[t] + rw'[t] > 0 /\ notified' = notified
    BY <1>1 DEF LockReadWriteAux, Counts
  <2> QED
    BY <2>1, OneExecutes DEF Wakeups
<1>2. CASE ~WriterOkay(t) /\ deadline = Try
  <2>1. /\ Goto(t, place) /\ notified' = notified
        /\ readers' = readers /\ writers' = writers /\ ro' = ro /\ rw' = rw
    BY <1>2 DEF LockReadWriteAux
  <2>2. WillLook(t) => WillLook(t)'
    BY <2>1 DEF WillLook
  <2> QED
    BY <2>1, <2>2, OthersLook, NoneForgets DEF Wakeups
<1>3. CASE ~WriterOkay(t) /\ deadline # Try
  <2>1. /\ Goto(t, "waitW") /\ TakeWaitCondition(t) /\ writers' = Append(writers, t)
        /\ readers' = readers /\ ro' = ro /\ rw' = rw
    BY <1>3 DEF LockReadWriteAux
  <2>2. notified' \subseteq Thread /\ \A u \in Thread : WillLook(u) => WillLook(u)'
    BY <2>1, TakesWaitCondition
  <2>3. Executing' = Executing /\ readers \subseteq Thread
    BY <2>1 DEF Executing, Tables
  <2>4. t \notin Entries(writers) /\ writers \in Seq(Thread) /\ Distinct(writers)
    BY TablesFacts DEF WriterPlaces
  <2>5. ASSUME Executing = {}
        PROVE  writers # <<>> /\ Head(writers') = Head(writers) /\ Head(writers) \in Thread
    <3>1. writers # <<>>
      BY <1>3, <2>5 DEF WriterOkay
    <3> QED
      BY <2>1, <2>4, <3>1, AppendFacts, HeadIsEntry
  <2>6. ASSUME Executing = {}, PreferWriters \/ readers = {}
        PROVE  WillLook(Head(writers))'
    BY <2>2, <2>5, <2>6 DEF Wakeups, NoLostWakeup
  <2>7. ASSUME Executing = {}, readers # {}, ~PreferWriters
        PROVE  \E u \in readers : WillLook(u)'
    BY <2>2, <2>3, <2>7 DEF Wakeups, NoLostWakeup
  <2>8. writers' # <<>>
    BY <2>1, <2>4, AppendFacts
  <2> QED
    BY <2>1, <2>2, <2>3, <2>6, <2>7, <2>8 DEF Wakeups, NoLostWakeup
<1> QED
  BY <1>1, <1>2, <1>3

(* The last reader to leave notifies those that may go on.                 *)
LEMMA UnlockReadOnlyAuxWakeups ==
  ASSUME Wakeups, Tables, Counts, NEW t \in Thread, UnlockReadOnlyAux(t)
  PROVE  Wakeups'
<1>1. MaybeNotify(Executing \ {t}, readers, writers) \subseteq Thread
  BY SomeWaitingFacts DEF Tables
<1>2. notified' \subseteq Thread
  BY <1>1 DEF UnlockReadOnlyAux, Wakeups
<1>3. ro' = [ro EXCEPT ![t] = ro[t] - 1] /\ rw' = rw /\ readers' = readers /\ writers' = writers
  BY DEF UnlockReadOnlyAux
<1>4. CASE Executing' # {}
  BY <1>2, <1>4 DEF Wakeups, NoLostWakeup
<1>5. CASE Executing' = {}
  <2>1. Executing \ {t} = {} /\ ro[t] = 1 /\ \A u \in Thread : rw[u] = 0
    BY <1>3, <1>5 DEF Executing, UnlockReadOnlyAux, Counts
  <2>2. total = 0
    BY <2>1 DEF Counts, TotalIsSum
  <2>3. MaybeNotify(Executing \ {t}, readers, writers) \subseteq notified'
    BY <2>1 DEF UnlockReadOnlyAux
  <2>4. SomeWaiting(readers, writers) \subseteq notified'
    BY <2>1, <2>2, <2>3 DEF MaybeNotify
  <2> QED
    BY <1>2, <1>3, <2>4, Notifies DEF Wakeups
<1> QED
  BY <1>4, <1>5

(* Thread t gives up, and its notification is passed on.                   *)
LEMMA GivesUp ==
  ASSUME Wakeups, Tables', Counts, NEW t \in Thread, ro' = ro, rw' = rw,
         LeaveTableAndNotify(t, MaybeNotify(Executing, readers', writers'))
  PROVE  Wakeups'
<1>1. Executing' = Executing
  BY DEF Executing
<1>2. notified' \subseteq Thread
  BY SomeWaitingFacts DEF LeaveTableAndNotify, Wakeups, Tables
<1>3. CASE Executing # {}
  BY <1>1, <1>2, <1>3 DEF Wakeups, NoLostWakeup
<1>4. CASE Executing = {}
  <2>1. SomeWaiting(readers', writers') \subseteq notified'
    BY <1>4, NobodyExecutes DEF MaybeNotify, LeaveTableAndNotify
  <2> QED
    BY <1>2, <2>1, Notifies DEF Wakeups
<1> QED
  BY <1>3, <1>4

(* No step loses a wakeup.                                                 *)
LEMMA WakeupsStep ==
  ASSUME Wakeups, Tables, Calls, Counts, Next
  PROVE  Wakeups'
<1>1. ASSUME NEW t \in Thread, NEW deadline \in Deadlines, LockReadOnly(t, deadline)
      PROVE  Wakeups'
  BY <1>1, LockReadOnlyAuxWakeups DEF LockReadOnly
<1>2. ASSUME NEW t \in Thread, NEW deadline \in Deadlines, LockReadWriteAgain(t, deadline)
      PROVE  Wakeups'
  <2>1. ro'[t] + rw'[t] > 0 /\ notified' = notified
    BY <1>2 DEF LockReadWriteAgain, Counts
  <2> QED
    BY <2>1, OneExecutes DEF Wakeups
<1>3. ASSUME NEW t \in Thread, NEW deadline \in Deadlines, BeginUpgrade(t, deadline)
      PROVE  Wakeups'
  <2>1. ro'[t] + rw'[t] > 0 /\ notified' = notified
    BY <1>3 DEF BeginUpgrade, Executing
  <2> QED
    BY <2>1, OneExecutes DEF Wakeups
<1>4. ASSUME NEW t \in Thread, NEW deadline \in Deadlines, LockReadWrite(t, deadline)
      PROVE  Wakeups'
  BY <1>4, LockReadWriteAuxWakeups DEF LockReadWrite
<1>5. ASSUME NEW t \in Thread, ReaderTimesOut(t)
      PROVE  Wakeups'
  <2>1. /\ Goto(t, "lateR") /\ notified \ {t} \subseteq notified' /\ notified' \subseteq notified
        /\ readers' = readers /\ writers' = writers /\ ro' = ro /\ rw' = rw
    BY <1>5 DEF ReaderTimesOut
  <2>2. WillLook(t)'
    BY <2>1 DEF WillLook, Goto, Calls
  <2> QED
    BY <2>1, <2>2, OthersLook, NoneForgets DEF Wakeups
<1>6. ASSUME NEW t \in Thread, WriterTimesOut(t)
      PROVE  Wakeups'
  <2>1. /\ Goto(t, "lateW") /\ notified \ {t} \subseteq notified' /\ notified' \subseteq notified
        /\ readers' = readers /\ writers' = writers /\ ro' = ro /\ rw' = rw
    BY <1>6 DEF WriterTimesOut
  <2>2. WillLook(t)'
    BY <2>1 DEF WillLook, Goto, Calls
  <2> QED
    BY <2>1, <2>2, OthersLook, NoneForgets DEF Wakeups
<1>7. ASSUME NEW t \in Thread, UnlockReadOnly(t)
      PROVE  Wakeups'
  BY <1>7, UnlockReadOnlyAuxWakeups DEF UnlockReadOnly
<1>8. ASSUME NEW t \in Thread, UnlockReadWrite(t)
      PROVE  Wakeups'
  <2>1. SomeWaiting(readers, writers) \subseteq Thread /\ readers \subseteq Thread
    BY SomeWaitingFacts DEF Tables
  <2>2. notified' \subseteq Thread
    BY <1>8, <2>1 DEF UnlockReadWrite, Wakeups
  <2>3. /\ rw' = [rw EXCEPT ![t] = rw[t] - 1] /\ ro' = ro /\ rw[t] > 0
        /\ readers' = readers /\ writers' = writers
    BY <1>8 DEF UnlockReadWrite
  <2>4. total = rw[t]
    BY <2>3 DEF Counts, TotalIsSum
  <2>5. CASE ro'[t] + rw'[t] > 0
    BY <2>2, <2>5, OneExecutes DEF Wakeups
  <2>6. CASE ~(ro'[t] + rw'[t] > 0)
    <3>1. rw[t] = 1 /\ ro[t] = 0 /\ total = 1
      BY <2>3, <2>4, <2>6 DEF Counts
    <3>2. Executing \ {t} = {}
      BY <3>1 DEF Executing, Counts, MutualExclusion
    <3>3. SomeWaiting(readers, writers) \subseteq notified'
      BY <1>8, <3>1, <3>2 DEF UnlockReadWrite
    <3> QED
      BY <2>2, <2>3, <3>3, Notifies DEF Wakeups
  <2> QED
    BY <2>5, <2>6
<1>9. ASSUME NEW t \in Thread, ReaderWakes(t)
      PROVE  Wakeups'
  <2>1. /\ Goto(t, "wokeR") /\ notified \ {t} \subseteq notified' /\ notified' \subseteq notified
        /\ readers' = readers /\ writers' = writers /\ ro' = ro /\ rw' = rw
    BY <1>9 DEF ReaderWakes
  <2>2. WillLook(t)'
    BY <2>1 DEF WillLook, Goto, Calls
  <2> QED
    BY <2>1, <2>2, OthersLook, NoneForgets DEF Wakeups
<1>10. ASSUME NEW t \in Thread, ReaderEnters(t)
      PROVE  Wakeups'
  <2>1. CASE ReadersOkay
    <3>1. ro'[t] + rw'[t] > 0 /\ notified' \subseteq notified
      BY <1>10, <2>1 DEF ReaderEnters, LeaveTableAndNotify, Counts
    <3> QED
      BY <3>1, OneExecutes DEF Wakeups
  <2>2. CASE ~ReadersOkay
    <3>1. /\ Goto(t, "waitR") /\ notified' = notified
          /\ readers' = readers /\ writers' = writers /\ ro' = ro /\ rw' = rw
      BY <1>10, <2>2 DEF ReaderEnters
    <3>2. Executing' = Executing
      BY <3>1 DEF Executing
    <3>3. ASSUME Executing = {}
          PROVE  PreferWriters /\ writers /= <<>> /\ WillLook(Head(writers))'
      <4>1. PreferWriters /\ writers /= <<>>
        BY <2>2, <3>3, NobodyExecutes DEF ReadersOkay
      <4>2. Head(writers) \in Thread /\ Head(writers) \in Entries(writers) /\ WillLook(Head(writers))
        BY <3>3, <4>1, HeadIsEntry DEF Wakeups, NoLostWakeup, Tables
      <4>3. Head(writers) /= t
        BY <1>10, <4>2, TablesFacts DEF ReaderEnters, WriterPlaces
      <4> QED
        BY <3>1, <4>1, <4>2, <4>3, OthersLook
    <3> QED
      BY <3>1, <3>2, <3>3 DEF Wakeups, NoLostWakeup
  <2> QED
    BY <2>1, <2>2
<1>11. ASSUME NEW t \in Thread, ReaderGivesUp(t)
      PROVE  Wakeups'
  <2>1. Tables'
    BY TablesStep
  <2> QED
    BY <1>11, <2>1, GivesUp DEF ReaderGivesUp
<1>12. ASSUME NEW t \in Thread, WriterWakes(t)
      PROVE  Wakeups'
  <2>1. /\ Goto(t, "wokeW") /\ notified \ {t} \subseteq notified' /\ notified' \subseteq notified
        /\ readers' = readers /\ writers' = writers /\ ro' = ro /\ rw' = rw
    BY <1>12 DEF WriterWakes
  <2>2. WillLook(t)'
    BY <2>1 DEF WillLook, Goto, Calls
  <2> QED
    BY <2>1, <2>2, OthersLook, NoneForgets DEF Wakeups
<1>13. ASSUME NEW t \in Thread, WriterEnters(t)
      PROVE  Wakeups'
  <2>1. CASE WriterOkay(t)
    <3>1. ro'[t] + rw'[t] > 0 /\ notified' \subseteq notified
      BY <1>13, <2>1 DEF WriterEnters, LeaveTableAndNotify, Counts
    <3> QED
      BY <3>1, OneExecutes DEF Wakeups
  <2>2. CASE ~WriterOkay(t)
    <3>1. /\ Goto(t, "waitW") /\ notified' = notified
          /\ readers' = readers /\ writers' = writers /\ ro' = ro /\ rw' = rw
      BY <1>13, <2>2 DEF WriterEnters
    <3>2. Executing' = Executing
      BY <3>1 DEF Executing
    <3>3. t \notin readers /\ readers \subseteq Thread
      BY <1>13, TablesFacts DEF WriterEnters, ReaderPlaces
    <3>4. ASSUME Executing = {}
          PROVE  writers /= <<>> /\ Head(writers) /= t /\ Head(writers) \in Thread
      BY <2>2, <3>4, HeadIsEntry DEF WriterOkay, Tables
    <3>5. \A u \in Thread \ {t} : WillLook(u) => WillLook(u)'
      BY <3>1, OthersLook
    <3>6. ASSUME Executing = {}, PreferWriters \/ readers = {}
          PROVE  WillLook(Head(writers))'
      <4>1. WillLook(Head(writers))
        BY <3>4, <3>6 DEF Wakeups, NoLostWakeup
      <4> QED
        BY <3>1, <3>4, <3>5, <3>6, <4>1
    <3>7. ASSUME Executing = {}, ~PreferWriters, readers /= {}
          PROVE  \E u \in readers : WillLook(u)'
      BY <3>3, <3>5, <3>7 DEF Wakeups, NoLostWakeup
    <3> QED
      BY <3>1, <3>2, <3>4, <3>6, <3>7 DEF Wakeups, NoLostWakeup
  <2> QED
    BY <2>1, <2>2
<1>14. ASSUME NEW t \in Thread, WriterGivesUp(t)
      PROVE  Wakeups'
  <2>1. Tables'
    BY TablesStep
  <2> QED
    BY <1>14, <2>1, GivesUp DEF WriterGivesUp
<1>15. ASSUME NEW t \in Thread, UpgradeUnlocks(t)
      PROVE  Wakeups'
  BY <1>15, UnlockReadOnlyAuxWakeups DEF UpgradeUnlocks
<1>16. ASSUME NEW t \in Thread, UpgradeLocks(t)
      PROVE  Wakeups'
  BY <1>16, LockReadWriteAuxWakeups DEF UpgradeLocks
<1>17. ASSUME NEW t \in Thread, UpgradeRelocks(t)
      PROVE  Wakeups'
  BY <1>17, LockReadOnlyAuxWakeups DEF UpgradeRelocks
<1> QED
  BY <1>1, <1>2, <1>3, <1>4, <1>5, <1>6, <1>7, <1>8, <1>9, <1>10, <1>11, <1>12, <1>13, <1>14, <1>15, <1>16, <1>17 DEF Next, Proceeds

-----------------------------------------------------------------------------
(* The parts are all that MutexInv says.                                   *)
LEMMA MutexInvParts ==
  MutexInv <=> Counts /\ Calls /\ Tables /\ Wakeups
BY DEF MutexInv, TypeOK, Counts, Calls, Tables, Wakeups

(* ReaderWriterMutex keeps its invariant through every call, wakeup and    *)
(* timeout, for any set of threads: LockReadOnlyAux() to                   *)
(* UnlockReadWriteAux() of ReaderWriterMutex.cpp.                          *)
THEOREM MutexInvariant == Spec => []MutexInv
<1>1. Init => MutexInv
  <2> SUFFICES ASSUME Init
               PROVE  MutexInv
    OBVIOUS
  <2>1. Executing = {}
    BY DEF Init, Executing
  <2>2. Counts
    BY DEF Init, Counts, MutualExclusion, TotalIsSum
  <2>3. Calls
    BY DEF Init, Calls, Upgrading, Places
  <2>4. Tables
    BY DEF Init, Tables, TablesMatchCalls, WaitsIn
  <2>5. Wakeups
    BY DEF Init, Wakeups, NoLostWakeup
  <2> QED
    BY <2>2, <2>3, <2>4, <2>5, MutexInvParts
<1>2. MutexInv /\ [Next]_vars => MutexInv'
  <2> SUFFICES ASSUME Counts /\ Calls /\ Tables /\ Wakeups, [Next]_vars
               PROVE  (Counts /\ Calls /\ Tables /\ Wakeups)'
    BY MutexInvParts DEF MutexInv, TypeOK, Counts, Calls, Tables, Wakeups
  <2>1. CASE Next
    BY <2>1, CountsStep, CallsStep, TablesStep, WakeupsStep
  <2>2. CASE UNCHANGED vars
    <3>1. Counts'
      BY <2>2 DEF vars, Counts, MutualExclusion, TotalIsSum
    <3>2. Calls'
      BY <2>2 DEF vars, Calls, Upgrading
    <3>3. Tables'
      BY <2>2 DEF vars, Tables, TablesMatchCalls, WaitsIn
    <3>4. \A u \in Thread : WillLook(u) => WillLook(u)'
      BY <2>2 DEF vars, WillLook
    <3>5. Wakeups'
      BY <2>2, <3>4, NoneForgets DEF vars, Wakeups
    <3> QED
      BY <3>1, <3>2, <3>3, <3>5
  <2> QED
    BY <2>1, <2>2
<1> QED
  BY <1>1, <1>2, PTL DEF Spec

(* Only one thread ever holds the read/write lock, and no other thread     *)
(* reads meanwhile.                                                        *)
THEOREM MutexExcludes == Spec => []MutualExclusion
<1>1. MutexInv => MutualExclusion
  BY DEF MutexInv
<1> QED
  BY <1>1, MutexInvariant, PTL

(* Whenever nobody executes, a thread that may go on has been notified:    *)
(* MaybeNotifySomeWaitingThreads() is called wherever it has to be.        *)
THEOREM MutexLosesNoWakeup == Spec => []NoLostWakeup
<1>1. MutexInv => NoLostWakeup
  BY DEF MutexInv
<1> QED
  BY <1>1, MutexInvariant, PTL

(* _totalReadWriteRecurseCount is what the writer holds: the MASSERT of    *)
(* NotifySomeWaitingThreads() and the decisions on who executes are right. *)
THEOREM MutexTotal == Spec => []TotalIsSum
<1>1. MutexInv => TotalIsSum
  BY DEF MutexInv
<1> QED
  BY <1>1, MutexInvariant, PTL

(* The tables say where the threads are: the MASSERTs after Wait() hold.   *)
THEOREM MutexTables == Spec => [](TypeOK /\ TotalIsSum /\ TablesMatchCalls)
<1>1. MutexInv => TypeOK /\ TotalIsSum /\ TablesMatchCalls
  BY DEF MutexInv
<1> QED
  BY <1>1, MutexInvariant, PTL
=============================================================================
