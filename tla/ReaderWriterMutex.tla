------------------------- MODULE ReaderWriterMutex --------------------------
(***************************************************************************)
(* The recursive reader/writer lock of system/ReaderWriterMutex.  Every    *)
(* step is what a thread does while it holds _stateMutex; between two      *)
(* steps any other thread may run.  A thread that may not execute yet      *)
(* enters a waiting table with a WaitCondition from a pool and sleeps;     *)
(* whoever makes it possible to go on notifies it.  WaitCondition::Wait()  *)
(* returns outside of _stateMutex, so being woken (or timed out) and       *)
(* acting on it are two steps.                                             *)
(***************************************************************************)
EXTENDS Integers, Sequences, FiniteSets

CONSTANTS
  Thread,         \* the threads
  PreferWriters,  \* _preferWriters
  Deadlines,      \* the kinds of timeouts that callers pass
  MaxRecurse,     \* bound: how often a thread locks without unlocking
  MaxStale        \* bound: how many stale WaitConditions are told apart

Never  == "never"    \* MUSCLE_TIME_NEVER
Finite == "finite"   \* some later time
Try    == "try"      \* zero: TryLockReadOnly(), TryLockReadWrite()

ASSUME MutexAssumption ==
  /\ PreferWriters \in BOOLEAN
  /\ Deadlines \subseteq {Never, Finite, Try}
  /\ MaxRecurse \in Nat
  /\ MaxStale \in Nat

VARIABLES
  ro,        \* _readOnlyRecurseCount of every thread in _executingThreads
  rw,        \* ... and _readWriteRecurseCount
  total,     \* _totalReadWriteRecurseCount
  readers,   \* _waitingReaderThreads
  writers,   \* _waitingWriterThreads, in the order of the table
  notified,  \* the threads whose WaitCondition has a pending notification
  stale,     \* pooled WaitConditions that still have a pending notification
  pc,        \* where each thread is
  call,      \* the timeout of the thread's current call
  back       \* read-only locks it gave up and has to take again

vars == <<ro, rw, total, readers, writers, notified, stale, pc, call, back>>

Places == {"out",                              \* in no call
           "waitR", "wokeR", "lateR",          \* Wait()ing to read, and after it
           "waitW", "wokeW", "lateW",          \* Wait()ing to write, and after it
           "unlock", "lockW", "relock"}        \* upgrading

Executing == {t \in Thread : ro[t] + rw[t] > 0}

(* Mutant: readers do not wait behind a writer that waits.                 *)
ReadersOkay_NoPreference == total = 0

(* IsOkayForReaderThreadsToExecuteNow, IsOkayForWriterThreadToExecuteNow *)
ReadersOkay == total = 0 /\ (PreferWriters => writers = <<>>)

(* Mutant: a writer does not look at the threads that execute already.     *)
WriterOkay_NoCheck(t) == total = 0 /\ (writers # <<>> => Head(writers) = t)

WriterOkay(t) ==
  Executing = {} /\ (writers # <<>> => Head(writers) = t)

-----------------------------------------------------------------------------
(* Notification *)

(* NotifySomeWaitingThreads: the threads it notifies *)
SomeWaiting(rs, ws) ==
  IF rs # {} /\ (ws = <<>> \/ ~PreferWriters) THEN rs
  ELSE IF ws # <<>> THEN {Head(ws)} ELSE {}

(* Mutant: a call that times out leaves it to others to wake threads up.   *)
MaybeNotify_Never(exec, rs, ws) == {}

(* MaybeNotifySomeWaitingThreads: no total is left when nobody executes    *)
MaybeNotify(exec, rs, ws) ==
  IF total = 0 /\ exec = {} THEN SomeWaiting(rs, ws) ELSE {}

(* GetOrAllocateThreadState takes a WaitCondition from the pool.  Nothing  *)
(* resets one that goes back with a notification that nobody waited for.   *)
TakeWaitCondition(t) ==
  \/ UNCHANGED <<notified, stale>>
  \/ stale > 0 /\ stale' = stale - 1 /\ notified' = notified \cup {t}

(* Thread t leaves its table; the threads in S are notified.               *)
LeaveTableAndNotify(t, S) ==
  /\ notified' = (notified \ {t}) \cup S
  /\ stale' = IF t \in notified /\ stale < MaxStale THEN stale + 1 ELSE stale

(* Mutant: a writer that gives up stays in the table.                      *)
Without_Kept(ws, t) == ws

(* The table ws without the one entry of t                                 *)
Without(ws, t) ==
  LET i == CHOOSE k \in 1 .. Len(ws) : ws[k] = t IN
  [j \in 1 .. Len(ws) - 1 |-> IF j < i THEN ws[j] ELSE ws[j + 1]]

Init ==
  /\ ro = [t \in Thread |-> 0]
  /\ rw = [t \in Thread |-> 0]
  /\ total = 0
  /\ readers = {}
  /\ writers = <<>>
  /\ notified = {}
  /\ stale = 0
  /\ pc = [t \in Thread |-> "out"]
  /\ call = [t \in Thread |-> Never]
  /\ back = [t \in Thread |-> 0]

Goto(t, place) == pc' = [pc EXCEPT ![t] = place]

-----------------------------------------------------------------------------
(* LockReadOnlyAux *)

(* The body of the call, after which the thread is at place next.  A call  *)
(* that gives up at once changes nothing.                                  *)
LockReadOnlyAux(t, deadline, next) ==
  \/ /\ t \in Executing \/ ReadersOkay
     /\ ro' = [ro EXCEPT ![t] = @ + 1]
     /\ Goto(t, next)
     /\ UNCHANGED <<rw, total, readers, writers, notified, stale>>
  \/ /\ t \notin Executing /\ ~ReadersOkay
     /\ deadline # Try
     /\ readers' = readers \cup {t}
     /\ TakeWaitCondition(t)
     /\ Goto(t, "waitR")
     /\ UNCHANGED <<ro, rw, total, writers>>

LockReadOnly(t, deadline) ==
  /\ pc[t] = "out"
  /\ ro[t] < MaxRecurse
  /\ LockReadOnlyAux(t, deadline, "out")
  /\ call' = [call EXCEPT ![t] = deadline]
  /\ UNCHANGED back

(* While it upgrades a thread waits to read without a timeout.             *)
ReadDeadline(t) == IF back[t] > 0 THEN Never ELSE call[t]
AfterReadLock(t, left) == IF left > 0 THEN "relock" ELSE "out"

ReaderWakes(t) ==
  /\ pc[t] = "waitR"
  /\ t \in notified
  /\ notified' = notified \ {t}
  /\ Goto(t, "wokeR")
  /\ UNCHANGED <<ro, rw, total, readers, writers, stale, call, back>>

ReaderTimesOut(t) ==
  /\ pc[t] = "waitR"
  /\ ReadDeadline(t) = Finite
  /\ Goto(t, "lateR")
  /\ UNCHANGED <<ro, rw, total, readers, writers, notified, stale, call, back>>

(* Scooped by another thread, it waits again.                              *)
ReaderEnters(t) ==
  LET left == IF back[t] > 0 THEN back[t] - 1 ELSE 0 IN
  /\ pc[t] = "wokeR"
  /\ \/ /\ ReadersOkay
        /\ ro' = [ro EXCEPT ![t] = 1]
        /\ readers' = readers \ {t}
        /\ LeaveTableAndNotify(t, {})
        /\ back' = [back EXCEPT ![t] = left]
        /\ Goto(t, AfterReadLock(t, left))
        /\ UNCHANGED <<rw, total, writers, call>>
     \/ /\ ~ReadersOkay
        /\ Goto(t, "waitR")
        /\ UNCHANGED <<ro, rw, total, readers, writers, notified, stale, call, back>>

ReaderGivesUp(t) ==
  /\ pc[t] = "lateR"
  /\ readers' = readers \ {t}
  /\ LeaveTableAndNotify(t, MaybeNotify(Executing, readers \ {t}, writers))
  /\ Goto(t, "out")
  /\ UNCHANGED <<ro, rw, total, writers, call, back>>

-----------------------------------------------------------------------------
(* LockReadWriteAux *)

(* The call of a thread that holds no lock.  place is where it is when it  *)
(* has the lock or has given up at once.                                   *)
LockReadWriteAux(t, deadline, place) ==
  \/ /\ WriterOkay(t)
     /\ rw' = [rw EXCEPT ![t] = @ + 1]
     /\ total' = total + 1
     /\ Goto(t, place)
     /\ UNCHANGED <<ro, readers, writers, notified, stale>>
  \/ /\ ~WriterOkay(t)
     /\ IF deadline = Try
        THEN Goto(t, place) /\ UNCHANGED <<writers, notified, stale>>
        ELSE /\ writers' = Append(writers, t)
             /\ TakeWaitCondition(t)
             /\ Goto(t, "waitW")
     /\ UNCHANGED <<ro, rw, total, readers>>

LockReadWrite(t, deadline) ==
  /\ pc[t] = "out"
  /\ rw[t] < MaxRecurse
  /\ t \notin Executing
  /\ LockReadWriteAux(t, deadline, "out")
  /\ call' = [call EXCEPT ![t] = deadline]
  /\ UNCHANGED back

(* Mutant: the total counts the threads that write.                        *)
LockReadWriteAgain_NoTotal(t, deadline) ==
  /\ pc[t] = "out"
  /\ rw[t] < MaxRecurse
  /\ t \in Executing
  /\ rw[t] > 0 \/ Executing = {t}
  /\ rw' = [rw EXCEPT ![t] = @ + 1]
  /\ call' = [call EXCEPT ![t] = deadline]
  /\ UNCHANGED <<ro, total, readers, writers, notified, stale, pc, back>>

(* The easy cases: the thread writes already, or nobody else executes.     *)
LockReadWriteAgain(t, deadline) ==
  /\ pc[t] = "out"
  /\ rw[t] < MaxRecurse
  /\ t \in Executing
  /\ rw[t] > 0 \/ Executing = {t}
  /\ rw' = [rw EXCEPT ![t] = @ + 1]
  /\ total' = total + 1
  /\ call' = [call EXCEPT ![t] = deadline]
  /\ UNCHANGED <<ro, readers, writers, notified, stale, pc, back>>

(* The tricky case: it reads, and so do others.                            *)
BeginUpgrade(t, deadline) ==
  /\ pc[t] = "out"
  /\ rw[t] < MaxRecurse
  /\ t \in Executing
  /\ rw[t] = 0
  /\ Executing # {t}
  /\ back' = [back EXCEPT ![t] = ro[t]]
  /\ call' = [call EXCEPT ![t] = deadline]
  /\ Goto(t, "unlock")
  /\ UNCHANGED <<ro, rw, total, readers, writers, notified, stale>>

AfterWriteLock(t) == IF back[t] > 0 THEN "relock" ELSE "out"

WriterWakes(t) ==
  /\ pc[t] = "waitW"
  /\ t \in notified
  /\ notified' = notified \ {t}
  /\ Goto(t, "wokeW")
  /\ UNCHANGED <<ro, rw, total, readers, writers, stale, call, back>>

WriterTimesOut(t) ==
  /\ pc[t] = "waitW"
  /\ call[t] = Finite
  /\ Goto(t, "lateW")
  /\ UNCHANGED <<ro, rw, total, readers, writers, notified, stale, call, back>>

WriterEnters(t) ==
  /\ pc[t] = "wokeW"
  /\ \/ /\ WriterOkay(t)
        /\ rw' = [rw EXCEPT ![t] = 1]
        /\ total' = total + 1
        /\ writers' = Without(writers, t)
        /\ LeaveTableAndNotify(t, {})
        /\ Goto(t, AfterWriteLock(t))
        /\ UNCHANGED <<ro, readers, call, back>>
     \/ /\ ~WriterOkay(t)
        /\ Goto(t, "waitW")
        /\ UNCHANGED <<ro, rw, total, readers, writers, notified, stale, call, back>>

WriterGivesUp(t) ==
  /\ pc[t] = "lateW"
  /\ writers' = Without(writers, t)
  /\ LeaveTableAndNotify(t, MaybeNotify(Executing, readers, Without(writers, t)))
  /\ Goto(t, AfterWriteLock(t))
  /\ UNCHANGED <<ro, rw, total, readers, call, back>>

-----------------------------------------------------------------------------
(* UnlockReadOnlyAux, UnlockReadWriteAux *)

UnlockReadOnlyAux(t) ==
  /\ ro[t] > 0
  /\ ro' = [ro EXCEPT ![t] = @ - 1]
  /\ notified' = notified \cup
       (IF ro[t] = 1 /\ rw[t] = 0
        THEN MaybeNotify(Executing \ {t}, readers, writers) ELSE {})
  /\ UNCHANGED <<rw, total, readers, writers, stale>>

UnlockReadOnly(t) ==
  /\ pc[t] = "out"
  /\ UnlockReadOnlyAux(t)
  /\ UNCHANGED <<pc, call, back>>

(* A writer that goes on reading lets the other readers in.                *)
UnlockReadWrite(t) ==
  LET exec == IF rw[t] = 1 /\ ro[t] = 0 THEN Executing \ {t} ELSE Executing IN
  /\ pc[t] = "out"
  /\ rw[t] > 0
  /\ rw' = [rw EXCEPT ![t] = @ - 1]
  /\ total' = total - 1
  /\ notified' = notified \cup
       (CASE total = 1 /\ ro[t] > 0 -> readers
          [] total = 1 /\ ro[t] = 0 /\ exec = {} -> SomeWaiting(readers, writers)
          [] OTHER -> {})
  /\ UNCHANGED <<ro, readers, writers, stale, pc, call, back>>

-----------------------------------------------------------------------------
(* The upgrade gives up all read-only locks, takes the read/write lock and *)
(* then, whether it got that one or not, the read-only locks again.        *)
UpgradeUnlocks(t) ==
  /\ pc[t] = "unlock"
  /\ UnlockReadOnlyAux(t)
  /\ Goto(t, IF ro[t] = 1 THEN "lockW" ELSE "unlock")
  /\ UNCHANGED <<call, back>>

UpgradeLocks(t) ==
  /\ pc[t] = "lockW"
  /\ LockReadWriteAux(t, call[t], "relock")
  /\ UNCHANGED <<call, back>>

UpgradeRelocks(t) ==
  /\ pc[t] = "relock"
  /\ LockReadOnlyAux(t, Never, AfterReadLock(t, back[t] - 1))
  /\ back' = [back EXCEPT ![t] = IF t \in Executing \/ ReadersOkay THEN @ - 1 ELSE @]
  /\ UNCHANGED call

(* The steps that a thread takes without anyone asking for them *)
Proceeds(t) ==
  \/ ReaderWakes(t) \/ ReaderEnters(t) \/ ReaderGivesUp(t)
  \/ WriterWakes(t) \/ WriterEnters(t) \/ WriterGivesUp(t)
  \/ UpgradeUnlocks(t) \/ UpgradeLocks(t) \/ UpgradeRelocks(t)

Next ==
  \E t \in Thread :
    \/ \E deadline \in Deadlines :
         \/ LockReadOnly(t, deadline)
         \/ LockReadWrite(t, deadline)
         \/ LockReadWriteAgain(t, deadline)
         \/ BeginUpgrade(t, deadline)
    \/ ReaderTimesOut(t)
    \/ WriterTimesOut(t)
    \/ UnlockReadOnly(t)
    \/ UnlockReadWrite(t)
    \/ Proceeds(t)

Spec == Init /\ [][Next]_vars

(* A thread that can go on does; one that holds locks unlocks them, and    *)
(* one that could unlock its last one again and again does in the end.     *)
Unlock(t) == UnlockReadOnly(t) \/ UnlockReadWrite(t)
LastUnlock(t) == ro[t] + rw[t] = 1 /\ Unlock(t)

FairSpec ==
  /\ Spec
  /\ \A t \in Thread :
       WF_vars(Proceeds(t)) /\ WF_vars(Unlock(t)) /\ SF_vars(LastUnlock(t))

-----------------------------------------------------------------------------
(* The types of the counts and tables: no recursion count is unlocked below*)
(* zero (the B_LOCK_FAILED checks), not even through an upgrade.           *)
TypeOK ==
  /\ ro \in [Thread -> Nat] /\ rw \in [Thread -> Nat] /\ back \in [Thread -> Nat]
  /\ total \in Nat /\ stale \in Nat
  /\ readers \subseteq Thread /\ notified \subseteq Thread
  /\ writers \in Seq(Thread)
  /\ pc \in [Thread -> Places]
  /\ call \in [Thread -> {Never, Finite, Try}]

(* "only one thread can hold the read/write lock at any given time, and no *)
(* read-only threads will hold any lock while a thread holds the           *)
(* read/write lock", through every upgrade, wakeup and timeout.            *)
MutualExclusion ==
  \A t, u \in Thread : rw[t] > 0 /\ u # t => ro[u] = 0 /\ rw[u] = 0

(* The MASSERT of NotifySomeWaitingThreads() and the decisions on who may  *)
(* execute rely on the total being the sum of the counts.                  *)
TotalIsSum ==
  /\ \A t \in Thread : rw[t] > 0 => total = rw[t]
  /\ total > 0 => \E t \in Thread : rw[t] > 0

WaitsIn(table) == {t \in Thread : pc[t] \in table}

(* A thread is in a waiting table while its call waits, once, and holds no *)
(* lock (MASSERT "My ThreadState has disappeared while I was waiting!").   *)
TablesMatchCalls ==
  /\ readers = WaitsIn({"waitR", "wokeR", "lateR"})
  /\ {writers[i] : i \in 1 .. Len(writers)} = WaitsIn({"waitW", "wokeW", "lateW"})
  /\ \A i, j \in 1 .. Len(writers) : writers[i] = writers[j] => i = j
  /\ \A t \in Thread : pc[t] \in {"waitR", "wokeR", "lateR", "waitW", "wokeW", "lateW", "lockW"}
                         => ro[t] = 0 /\ rw[t] = 0

(* Thread t has been told to look again, or is about to.                   *)
WillLook(t) == t \in notified \/ pc[t] \in {"wokeR", "wokeW", "lateR", "lateW"}

(* No wakeup is lost: when the lock is free and threads wait for it, one   *)
(* that may take it now (or is giving up and will pass the notification    *)
(* on) has been notified, whatever timeouts and scooping came in between.  *)
NoLostWakeup ==
  Executing = {} =>
    /\ writers # <<>> /\ (PreferWriters \/ readers = {}) => WillLook(Head(writers))
    /\ readers # {} /\ (~PreferWriters \/ writers = <<>>) => \E t \in readers : WillLook(t)

(* With writers preferred, a thread that asks for the read/write lock      *)
(* without a timeout gets it, however many others want it or read again:   *)
(* _waitingWriterThreads is served in order, and no reader enters before.  *)
WritersGetIn ==
  \A t \in Thread :
    pc[t] \in {"unlock", "lockW", "waitW"} ~> pc[t] = "out" /\ rw[t] > 0

=============================================================================
