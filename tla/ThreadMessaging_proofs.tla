----------------------- MODULE ThreadMessaging_proofs -----------------------
(***************************************************************************)
(* The queues of a Thread object lose no Message and no wakeup, however    *)
(* many Messages are sent and however often the internal thread is shut    *)
(* down, quits and is started again.                                       *)
(***************************************************************************)
EXTENDS ThreadMessaging, TLAPS

(* Both ends of the socket pair are open as long as the internal thread is *)
(* there, so that a signal is not lost on the way.                         *)
SocketsOpen == pc["internal"] # "none" /\ useSockets => socket = Side

(* The inductive invariant, but for the order of the Messages              *)
WakeupInv == MessagingTypeOK /\ SocketsOpen /\ NoLostWakeup

-----------------------------------------------------------------------------
(* Facts about sequences                                                   *)
LEMMA AppendFacts ==
  ASSUME NEW T, NEW s \in Seq(T), NEW e \in T
  PROVE  /\ Append(s, e) \in Seq(T)
         /\ Append(s, e) # <<>>
         /\ Len(Append(s, e)) = Len(s) + 1
         /\ Append(s, e)[Len(s) + 1] = e
         /\ \A i \in 1 .. Len(s) : Append(s, e)[i] = s[i]
<1>1. Append(s, e) \in Seq(T) /\ Len(Append(s, e)) = Len(s) + 1
  OBVIOUS
<1>2. Append(s, e) # <<>>
  BY <1>1, Len(<<>>) = 0, Len(s) \in Nat
<1> QED
  BY <1>1, <1>2

LEMMA TailFacts ==
  ASSUME NEW T, NEW s \in Seq(T), s # <<>>
  PROVE  /\ Tail(s) \in Seq(T) /\ Head(s) \in T /\ Head(s) = s[1]
         /\ Len(s) >= 1 /\ Len(Tail(s)) = Len(s) - 1
         /\ \A i \in 1 .. Len(Tail(s)) : Tail(s)[i] = s[i + 1]
  OBVIOUS

(* What Enqueue, by thread p for side s, leaves behind                     *)
LEMMA EnqueueFacts ==
  ASSUME MessagingTypeOK, NEW p \in Proc, NEW s \in Side,
         NEW m \in Message \cup {Null}, NEW next, Enqueue(p, s, m, next)
  PROVE  /\ queue' \in [Side -> Seq(Message \cup {Null})]
         /\ queue'[s] = Append(queue[s], m)
         /\ queue'[s] # <<>>
         /\ \A r \in Side \ {s} : queue'[r] = queue[r]
         /\ \A o \in Proc \ {p} : pc'[o] = pc[o]
         /\ pc'[p] = IF queue[s] = <<>> THEN "signal" ELSE next
<1> DEFINE T == Message \cup {Null}
<1>1. queue \in [Side -> Seq(T)] /\ queue' = [queue EXCEPT ![s] = Append(@, m)]
  BY DEF Enqueue, MessagingTypeOK
<1>2. pc \in [Proc -> Place] /\ pc' = [pc EXCEPT ![p] = IF queue[s] = <<>> THEN "signal" ELSE next]
  BY DEF Enqueue, MessagingTypeOK, Goto, Notifies
<1> HIDE DEF T
<1>3. queue[s] \in Seq(T) /\ m \in T
  BY <1>1 DEF T
<1>4. Append(queue[s], m) \in Seq(T) /\ Append(queue[s], m) # <<>>
  BY <1>3, AppendFacts
<1>5. queue'[s] = Append(queue[s], m) /\ \A r \in Side \ {s} : queue'[r] = queue[r]
  BY <1>1
<1>6. queue' \in [Side -> Seq(T)]
  BY <1>1, <1>4
<1> QED
  BY <1>2, <1>4, <1>5, <1>6 DEF T

LEMMA InitWakeup == Init => WakeupInv
<1> SUFFICES ASSUME Init PROVE WakeupInv
  OBVIOUS
<1>1. queue \in [Side -> Seq(Message \cup {Null})] /\ handled \in Seq(Message)
  BY DEF Init
<1>2. /\ pc \in [Proc -> Place] /\ pc["internal"] = "none"
      /\ pc["owner"] = "idle" /\ pc["helper"] = "idle"
  BY DEF Init, Proc, Place
<1>3. sent \in 0 .. MaxSent
  BY MessagingAssumption DEF Init
<1> QED
  BY <1>1, <1>2, <1>3
  DEF Init, WakeupInv, MessagingTypeOK, SocketsOpen, NoLostWakeup, Null
(* Every step keeps the invariant: a signal is discarded only by a thread  *)
(* that looks into its queue afterwards.                                   *)
LEMMA NextWakeup == WakeupInv /\ [Next]_vars => WakeupInv'
<1> SUFFICES ASSUME WakeupInv, [Next]_vars PROVE WakeupInv'
  OBVIOUS
<1>1. CASE OwnerSignals
  BY <1>1 DEF OwnerSignals, Goto, Signalled, WakeupInv, MessagingTypeOK, SocketsOpen, NoLostWakeup, Readable,
      Proc, Side, Place
<1>2. CASE StartInternalThread
  BY <1>2 DEF StartInternalThread, Goto, WakeupInv, MessagingTypeOK, SocketsOpen, NoLostWakeup, Readable,
      Proc, Side, Place
<1>3. CASE GetWakeupSocket
  BY <1>3 DEF GetWakeupSocket, Goto, WakeupInv, MessagingTypeOK, SocketsOpen, NoLostWakeup, Readable,
      Proc, Side, Place
<1>4. CASE WaitForInternalThreadToExit
  BY <1>4 DEF WaitForInternalThreadToExit, Goto, WakeupInv, MessagingTypeOK, SocketsOpen, NoLostWakeup, Readable,
      Proc, Side, Place
<1>5. CASE Joins
  BY <1>5 DEF Joins, Goto, WakeupInv, MessagingTypeOK, SocketsOpen, NoLostWakeup, Readable,
      Proc, Side, Place
<1>6. CASE OwnerTimesOut
  BY <1>6 DEF OwnerTimesOut, Goto, WakeupInv, MessagingTypeOK, SocketsOpen, NoLostWakeup, Readable,
      Proc, Side, Place
<1>7. CASE Absorb("owner")
  BY <1>7 DEF Absorb, Goto, WakeupInv, MessagingTypeOK, SocketsOpen, NoLostWakeup, Readable,
      Proc, Side, Place
<1>8. CASE PopNothing("owner")
  BY <1>8 DEF PopNothing, Goto, WakeupInv, MessagingTypeOK, SocketsOpen, NoLostWakeup, Readable,
      Proc, Side, Place
<1>9. CASE Wakes("owner")
  BY <1>9 DEF Wakes, Goto, WakeupInv, MessagingTypeOK, SocketsOpen, NoLostWakeup, Readable,
      Proc, Side, Place
<1>10. CASE Absorb("internal")
  BY <1>10 DEF Absorb, Goto, WakeupInv, MessagingTypeOK, SocketsOpen, NoLostWakeup, Readable,
      Proc, Side, Place
<1>11. CASE PopNothing("internal")
  BY <1>11 DEF PopNothing, Goto, WakeupInv, MessagingTypeOK, SocketsOpen, NoLostWakeup, Readable,
      Proc, Side, Place
<1>12. CASE Wakes("internal")
  BY <1>12 DEF Wakes, Goto, WakeupInv, MessagingTypeOK, SocketsOpen, NoLostWakeup, Readable,
      Proc, Side, Place
<1>13. CASE InternalThreadEntry
  BY <1>13 DEF InternalThreadEntry, Goto, Signalled, WakeupInv, MessagingTypeOK, SocketsOpen, NoLostWakeup, Readable,
      Proc, Side, Place
<1>14. CASE Handles
  BY <1>14 DEF Handles, Goto, WakeupInv, MessagingTypeOK, SocketsOpen, NoLostWakeup, Readable,
      Proc, Side, Place
<1>15. CASE InternalSignals
  BY <1>15 DEF InternalSignals, Goto, Signalled, WakeupInv, MessagingTypeOK, SocketsOpen, NoLostWakeup, Readable,
      Proc, Side, Place
<1>16. CASE Exits
  BY <1>16 DEF Exits, Goto, WakeupInv, MessagingTypeOK, SocketsOpen, NoLostWakeup, Readable,
      Proc, Side, Place
<1>17. CASE HelperSignals
  BY <1>17 DEF HelperSignals, Goto, Signalled, WakeupInv, MessagingTypeOK, SocketsOpen, NoLostWakeup, Readable,
      Proc, Side, Place
<1>18. CASE \E how \in {"poll", "block"} : GetNextReply(how)
  BY <1>18 DEF GetNextReply, Goto, WakeupInv, MessagingTypeOK, SocketsOpen, NoLostWakeup, Readable,
      Proc, Side, Place
<1>19. CASE UNCHANGED vars
  BY <1>19 DEF vars, WakeupInv, MessagingTypeOK, SocketsOpen, NoLostWakeup, Readable,
      Proc, Side, Place
<1>20. CASE OwnerSends
  <2>1. sent + 1 \in Message \cup {Null}
    BY <1>20, MessagingAssumption DEF OwnerSends, WakeupInv, MessagingTypeOK, Message
  <2>2. Enqueue("owner", "internal", sent + 1, "idle")
    BY <1>20 DEF OwnerSends
  <2>3. sent' \in 0 .. MaxSent
    BY <1>20, MessagingAssumption DEF OwnerSends, WakeupInv, MessagingTypeOK
  <2>4. /\ queue' \in [Side -> Seq(Message \cup {Null})]
        /\ queue'["internal"] # <<>> /\ queue'["owner"] = queue["owner"]
        /\ pc'["internal"] = pc["internal"] /\ pc'["helper"] = pc["helper"]
        /\ pc'["owner"] = IF queue["internal"] = <<>> THEN "signal" ELSE "idle"
    <3>1. MessagingTypeOK /\ "owner" \in Proc /\ "internal" \in Side
      BY DEF WakeupInv, Proc, Side
    <3> QED
      BY <2>1, <2>2, <3>1, EnqueueFacts DEF Proc, Side
  <2>5. pc' \in [Proc -> Place]
    BY <2>2 DEF Enqueue, Goto, WakeupInv, MessagingTypeOK, Place
  <2> QED
    BY <1>20, <2>3, <2>4, <2>5
    DEF OwnerSends, WakeupInv, MessagingTypeOK, SocketsOpen, NoLostWakeup, Readable
<1>21. CASE HelperSends
  <2>1. sent + 1 \in Message \cup {Null}
    BY <1>21, MessagingAssumption DEF HelperSends, WakeupInv, MessagingTypeOK, Message
  <2>2. Enqueue("helper", "internal", sent + 1, "idle")
    BY <1>21 DEF HelperSends
  <2>3. sent' \in 0 .. MaxSent
    BY <1>21, MessagingAssumption DEF HelperSends, WakeupInv, MessagingTypeOK
  <2>4. /\ queue' \in [Side -> Seq(Message \cup {Null})]
        /\ queue'["internal"] # <<>> /\ queue'["owner"] = queue["owner"]
        /\ pc'["internal"] = pc["internal"] /\ pc'["owner"] = pc["owner"]
        /\ pc'["helper"] = IF queue["internal"] = <<>> THEN "signal" ELSE "idle"
    <3>1. MessagingTypeOK /\ "helper" \in Proc /\ "internal" \in Side
      BY DEF WakeupInv, Proc, Side
    <3> QED
      BY <2>1, <2>2, <3>1, EnqueueFacts DEF Proc, Side
  <2>5. pc' \in [Proc -> Place]
    BY <2>2 DEF Enqueue, Goto, WakeupInv, MessagingTypeOK, Place
  <2> QED
    BY <1>21, <2>3, <2>4, <2>5
    DEF HelperSends, WakeupInv, MessagingTypeOK, SocketsOpen, NoLostWakeup, Readable
<1>22. CASE Replies
  <2>1. hand \in Message \cup {Null}
    BY <1>22, MessagingAssumption DEF Replies, WakeupInv, MessagingTypeOK, Message
  <2>2. Enqueue("internal", "owner", hand, "absorb")
    BY <1>22 DEF Replies
  <2>3. sent' \in 0 .. MaxSent
    BY <1>22, MessagingAssumption DEF Replies, WakeupInv, MessagingTypeOK
  <2>4. /\ queue' \in [Side -> Seq(Message \cup {Null})]
        /\ queue'["owner"] # <<>> /\ queue'["internal"] = queue["internal"]
        /\ pc'["owner"] = pc["owner"] /\ pc'["helper"] = pc["helper"]
        /\ pc'["internal"] = IF queue["owner"] = <<>> THEN "signal" ELSE "absorb"
    <3>1. MessagingTypeOK /\ "internal" \in Proc /\ "owner" \in Side
      BY DEF WakeupInv, Proc, Side
    <3> QED
      BY <2>1, <2>2, <3>1, EnqueueFacts DEF Proc, Side
  <2>5. pc' \in [Proc -> Place]
    BY <2>2 DEF Enqueue, Goto, WakeupInv, MessagingTypeOK, Place
  <2> QED
    BY <1>22, <2>3, <2>4, <2>5
    DEF Replies, WakeupInv, MessagingTypeOK, SocketsOpen, NoLostWakeup, Readable
<1>23. ASSUME NEW wait \in BOOLEAN, ShutdownInternalThread(wait)
      PROVE  WakeupInv'
  <2>1. Null \in Message \cup {Null}
    OBVIOUS
  <2>2. Enqueue("owner", "internal", Null, IF wait THEN "join" ELSE "idle")
    BY <1>23 DEF ShutdownInternalThread
  <2>4. /\ queue' \in [Side -> Seq(Message \cup {Null})]
        /\ queue'["internal"] # <<>> /\ queue'["owner"] = queue["owner"]
        /\ pc'["internal"] = pc["internal"] /\ pc'["helper"] = pc["helper"]
        /\ pc'["owner"] = IF queue["internal"] = <<>> THEN "signal" ELSE (IF wait THEN "join" ELSE "idle")
    <3>1. MessagingTypeOK /\ "owner" \in Proc /\ "internal" \in Side
      BY DEF WakeupInv, Proc, Side
    <3> QED
      BY <2>1, <2>2, <3>1, EnqueueFacts DEF Proc, Side
  <2>5. pc' \in [Proc -> Place]
    BY <2>2 DEF Enqueue, Goto, WakeupInv, MessagingTypeOK, Place
  <2> QED
    BY <1>23, <2>4, <2>5
    DEF ShutdownInternalThread, WakeupInv, MessagingTypeOK, SocketsOpen,
        NoLostWakeup, Readable
<1>24. CASE Pop("owner")
  <2>1. queue["owner"] \in Seq(Message \cup {Null}) /\ queue["owner"] # <<>>
    BY <1>24 DEF Pop, WakeupInv, MessagingTypeOK, Side
  <2>2. Tail(queue["owner"]) \in Seq(Message \cup {Null}) /\ Head(queue["owner"]) \in Message \cup {Null}
    BY <2>1, TailFacts
  <2>3. queue' \in [Side -> Seq(Message \cup {Null})]
    BY <1>24, <2>2 DEF Pop, WakeupInv, MessagingTypeOK, Side
  <2>4. hand' \in Message \cup {Null} /\ handled' \in Seq(Message)
    <3>1. handled \in Seq(Message) /\ hand \in Message \cup {Null}
      BY DEF WakeupInv, MessagingTypeOK
    <3>2. Head(queue["owner"]) # Null => Append(handled, Head(queue["owner"])) \in Seq(Message)
      BY <2>2, <3>1, AppendFacts
    <3> QED
      BY <1>24, <2>2, <3>1, <3>2 DEF Pop
  <2> QED
    BY <1>24, <2>3, <2>4
    DEF Pop, Goto, WakeupInv, MessagingTypeOK, SocketsOpen, NoLostWakeup, Readable,
      Proc, Side, Place
<1>25. CASE Pop("internal")
  <2>1. queue["internal"] \in Seq(Message \cup {Null}) /\ queue["internal"] # <<>>
    BY <1>25 DEF Pop, WakeupInv, MessagingTypeOK, Side
  <2>2. Tail(queue["internal"]) \in Seq(Message \cup {Null}) /\ Head(queue["internal"]) \in Message \cup {Null}
    BY <2>1, TailFacts
  <2>3. queue' \in [Side -> Seq(Message \cup {Null})]
    BY <1>25, <2>2 DEF Pop, WakeupInv, MessagingTypeOK, Side
  <2>4. hand' \in Message \cup {Null} /\ handled' \in Seq(Message)
    <3>1. handled \in Seq(Message) /\ hand \in Message \cup {Null}
      BY DEF WakeupInv, MessagingTypeOK
    <3>2. Head(queue["internal"]) # Null => Append(handled, Head(queue["internal"])) \in Seq(Message)
      BY <2>2, <3>1, AppendFacts
    <3> QED
      BY <1>25, <2>2, <3>1, <3>2 DEF Pop
  <2> QED
    BY <1>25, <2>3, <2>4
    DEF Pop, Goto, WakeupInv, MessagingTypeOK, SocketsOpen, NoLostWakeup, Readable,
      Proc, Side, Place
<1> QED
  BY <1>1, <1>2, <1>3, <1>4, <1>5, <1>6, <1>7, <1>8, <1>9, <1>10, <1>11, <1>12, <1>13, <1>14, <1>15, <1>16, <1>17, <1>18, <1>19, <1>20, <1>21, <1>22, <1>23, <1>24, <1>25
  DEF Next, Decisions, OwnerSteps, InternalSteps

(* The members of a Thread object keep their types, and the internal       *)
(* thread exists only while _threadRunning is set, for any number of       *)
(* Messages, starts and shutdowns (Thread.cpp).                            *)
THEOREM MessagingTypeCorrect == Spec => []MessagingTypeOK
<1>1. WakeupInv => MessagingTypeOK
  BY DEF WakeupInv
<1> QED
  BY <1>1, InitWakeup, NextWakeup, PTL DEF Spec

(* Neither the internal thread nor its owner sleeps while a Message is in  *)
(* its queue and nobody is going to wake it (SendMessageAux,               *)
(* WaitForNextMessageAux), for any number of Messages and restarts.        *)
THEOREM MessagingLosesNoWakeup == Spec => []NoLostWakeup
<1>1. WakeupInv => NoLostWakeup
  BY DEF WakeupInv
<1> QED
  BY <1>1, InitWakeup, NextWakeup, PTL DEF Spec
-----------------------------------------------------------------------------
(* The order of the Messages, stated of the queue q, the number h of those *)
(* that were handled and the number n of those that were sent              *)
InOrder(q, h, n) ==
  /\ \A i, j \in 1 .. Len(q) : i < j /\ q[i] # Null /\ q[j] # Null => q[i] < q[j]
  /\ {q[i] : i \in 1 .. Len(q)} \ {Null} = h + 1 .. n

LEMMA AppendInOrder ==
  ASSUME NEW q \in Seq(Nat), NEW h \in Nat, NEW n \in Nat, h <= n, InOrder(q, h, n)
  PROVE  /\ InOrder(Append(q, Null), h, n)
         /\ InOrder(Append(q, n + 1), h, n + 1)
<1>1. ASSUME NEW e \in Nat, NEW m \in Nat,
             (e = Null /\ m = n) \/ (e = n + 1 /\ m = n + 1)
      PROVE  InOrder(Append(q, e), h, m)
  <2> DEFINE r == Append(q, e)
  <2>1. /\ Len(r) = Len(q) + 1 /\ r[Len(q) + 1] = e
        /\ \A i \in 1 .. Len(q) : r[i] = q[i]
    BY AppendFacts
  <2> HIDE DEF r
  <2>2. \A i \in 1 .. Len(q) : q[i] # Null => q[i] \in h + 1 .. n
    BY DEF InOrder
  <2>3. ASSUME NEW i \in 1 .. Len(r), NEW j \in 1 .. Len(r),
               i < j, r[i] # Null, r[j] # Null
        PROVE  r[i] < r[j]
    <3>1. i \in 1 .. Len(q)
      BY <2>1, <2>3
    <3>2. CASE j \in 1 .. Len(q)
      BY <2>1, <2>3, <3>1, <3>2 DEF InOrder
    <3>3. CASE j = Len(q) + 1
      BY <1>1, <2>1, <2>2, <2>3, <3>1, <3>3
    <3> QED
      BY <2>1, <3>2, <3>3
  <2>4. {r[i] : i \in 1 .. Len(r)} = {q[i] : i \in 1 .. Len(q)} \cup {e}
    BY <2>1
  <2>5. {r[i] : i \in 1 .. Len(r)} \ {Null} = h + 1 .. m
    <3> DEFINE Q == {q[i] : i \in 1 .. Len(q)}
    <3>1. Q \ {Null} = h + 1 .. n
      BY DEF InOrder
    <3> HIDE DEF Q
    <3>2. (Q \cup {e}) \ {Null} = h + 1 .. m
      BY <1>1, <3>1 DEF Null
    <3> QED
      BY <2>4, <3>2 DEF Q
  <2> QED
    BY <2>3, <2>5 DEF InOrder, r
<1>2. Null \in Nat /\ n + 1 \in Nat
  BY DEF Null
<1>3. InOrder(Append(q, Null), h, n)
  BY <1>1, <1>2
<1>4. InOrder(Append(q, n + 1), h, n + 1)
  BY <1>1, <1>2
<1> QED
  BY <1>3, <1>4

LEMMA WithoutFirst ==
  ASSUME NEW A, NEW h \in Nat, NEW n \in Nat, h + 1 \notin A,
         (A \ {0}) \cup {h + 1} = h + 1 .. n
  PROVE  A \ {0} = h + 2 .. n
<1>1. \A x : x \in A \ {0} <=> x \in h + 1 .. n /\ x # h + 1
  OBVIOUS
<1>2. \A x : x \in h + 2 .. n <=> x \in h + 1 .. n /\ x # h + 1
  OBVIOUS
<1> QED
  BY <1>1, <1>2

LEMMA TailInOrder ==
  ASSUME NEW q \in Seq(Nat), q # <<>>, NEW h \in Nat, NEW n \in Nat, InOrder(q, h, n)
  PROVE  /\ Head(q) = Null => InOrder(Tail(q), h, n)
         /\ Head(q) # Null => Head(q) = h + 1 /\ h < n /\ InOrder(Tail(q), h + 1, n)
<1> DEFINE r == Tail(q)
<1>1. /\ Len(q) >= 1 /\ Len(r) = Len(q) - 1 /\ Head(q) = q[1]
      /\ \A i \in 1 .. Len(r) : r[i] = q[i + 1]
  BY TailFacts
<1> HIDE DEF r
<1>2. \A i, j \in 1 .. Len(r) : i < j /\ r[i] # Null /\ r[j] # Null => r[i] < r[j]
  <2> SUFFICES ASSUME NEW i \in 1 .. Len(r), NEW j \in 1 .. Len(r),
                      i < j, r[i] # Null, r[j] # Null
               PROVE  r[i] < r[j]
    OBVIOUS
  <2>1. i + 1 \in 1 .. Len(q) /\ j + 1 \in 1 .. Len(q) /\ i + 1 < j + 1
    BY <1>1
  <2>2. r[i] = q[i + 1] /\ r[j] = q[j + 1]
    BY <1>1
  <2> QED
    BY <2>1, <2>2 DEF InOrder
<1>3. {q[i] : i \in 1 .. Len(q)} = {r[i] : i \in 1 .. Len(r)} \cup {q[1]}
  <2>1. \A i \in 1 .. Len(q) : i = 1 \/ (i - 1 \in 1 .. Len(r) /\ r[i - 1] = q[i])
    BY <1>1
  <2>2. \A i \in 1 .. Len(r) : i + 1 \in 1 .. Len(q) /\ r[i] = q[i + 1]
    BY <1>1
  <2>3. ASSUME NEW i \in 1 .. Len(q)
        PROVE  q[i] \in {r[k] : k \in 1 .. Len(r)} \cup {q[1]}
    BY <2>1
  <2>4. ASSUME NEW i \in 1 .. Len(r)
        PROVE  r[i] \in {q[k] : k \in 1 .. Len(q)}
    BY <2>2
  <2>5. q[1] \in {q[k] : k \in 1 .. Len(q)}
    BY <1>1
  <2> QED
    BY <2>3, <2>4, <2>5
<1>4. CASE q[1] = Null
  BY <1>1, <1>2, <1>3, <1>4 DEF InOrder, r
<1>5. CASE q[1] # Null
  <2>1. \A i \in 1 .. Len(r) : r[i] # Null => q[1] < r[i]
    BY <1>1, <1>5 DEF InOrder
  <2>2. q[1] \in h + 1 .. n
    BY <1>1, <1>5 DEF InOrder
  <2>3. h + 1 \in {q[i] : i \in 1 .. Len(q)}
    <3>1. h + 1 \in h + 1 .. n
      BY <2>2
    <3>2. h + 1 .. n \subseteq {q[i] : i \in 1 .. Len(q)}
      BY DEF InOrder
    <3> QED
      BY <3>1, <3>2
  <2>4. q[1] = h + 1
    <3>1. PICK i \in 1 .. Len(q) : q[i] = h + 1
      BY <2>3
    <3>2. i # 1 => q[1] < q[i]
      BY <3>1, <1>1, <1>5 DEF InOrder, Null
    <3> QED
      BY <2>2, <3>1, <3>2
  <2>5. {r[i] : i \in 1 .. Len(r)} \ {Null} = h + 2 .. n
    <3>1. h + 1 \notin {r[i] : i \in 1 .. Len(r)}
      BY <2>1, <2>4 DEF Null
    <3>2. ({r[i] : i \in 1 .. Len(r)} \ {Null}) \cup {h + 1} = h + 1 .. n
      BY <1>3, <1>5, <2>4 DEF InOrder
    <3> QED
      BY <3>1, <3>2, <2>2, WithoutFirst DEF Null
  <2>6. InOrder(r, h + 1, n)
    <3>1. h + 1 + 1 = h + 2
      OBVIOUS
    <3> QED
      BY <1>2, <2>5, <3>1 DEF InOrder
  <2>7. h < n /\ Head(q) = h + 1
    BY <1>1, <2>2, <2>4
  <2> QED
    BY <1>1, <1>5, <2>6, <2>7 DEF r
<1> QED
  BY <1>4, <1>5

LEMMA LargerType ==
  ASSUME NEW S, NEW T, S \subseteq T, NEW s \in Seq(S)
  PROVE  s \in Seq(T)
<1>1. Len(s) \in Nat /\ s \in [1 .. Len(s) -> S]
  OBVIOUS
<1>2. s \in [1 .. Len(s) -> T]
  BY <1>1
<1> QED
  BY <1>1, <1>2

(* The inductive invariant of the order                                    *)
OrderInv == MessagingTypeOK /\ NothingLostOrRepeated

(* ... in the terms of InOrder                                             *)
LEMMA OrderAsInOrder ==
  NothingLostOrRepeated <=>
    /\ \A i \in 1 .. Len(handled) : handled[i] = i
    /\ Len(handled) <= sent
    /\ InOrder(queue["internal"], Len(handled), sent)
  BY DEF NothingLostOrRepeated, InOrder

LEMMA OrderFacts ==
  ASSUME OrderInv
  PROVE  /\ queue["internal"] \in Seq(Nat) /\ queue["internal"] \in Seq(Message \cup {Null})
         /\ Len(handled) \in Nat /\ sent \in Nat /\ Len(handled) <= sent
         /\ handled \in Seq(Message)
<1>1. /\ queue["internal"] \in Seq(Message \cup {Null}) /\ sent \in 0 .. MaxSent
      /\ handled \in Seq(Message)
  BY DEF OrderInv, MessagingTypeOK, Side
<1>2. Message \cup {Null} \subseteq Nat /\ Message \subseteq 1 .. MaxSent
  BY MessagingAssumption DEF Message, Null
<1>3. queue["internal"] \in Seq(Nat)
  BY <1>1, <1>2, LargerType
<1> QED
  BY <1>1, <1>3, MessagingAssumption DEF OrderInv, NothingLostOrRepeated

(* Every step keeps the order: who sends appends the next number, and the  *)
(* internal thread takes the head of its queue.                            *)
LEMMA NextOrder ==
  ASSUME OrderInv, [Next]_vars
  PROVE  NothingLostOrRepeated'
<1> DEFINE q == queue["internal"]
           h == Len(handled)
<1>1. /\ q \in Seq(Nat) /\ h \in Nat /\ sent \in Nat /\ h <= sent
      /\ handled \in Seq(Message) /\ \A i \in 1 .. h : handled[i] = i
      /\ InOrder(q, h, sent)
  BY OrderFacts, OrderAsInOrder DEF OrderInv
<1>2. /\ InOrder(Append(q, Null), h, sent)
      /\ InOrder(Append(q, sent + 1), h, sent + 1)
  BY <1>1, AppendInOrder
<1> USE DEF OrderInv, MessagingTypeOK, Side
<1>3. CASE OwnerSends \/ HelperSends
  <2>1. q' = Append(q, sent + 1) /\ sent' = sent + 1 /\ handled' = handled
    BY <1>3 DEF OwnerSends, HelperSends, Enqueue
  <2>2. InOrder(q', h, sent') /\ h <= sent'
    BY <1>1, <1>2, <2>1
  <2> QED
    BY <1>1, <2>1, <2>2 DEF NothingLostOrRepeated, InOrder
<1>4. ASSUME NEW wait \in BOOLEAN, ShutdownInternalThread(wait)
      PROVE  NothingLostOrRepeated'
  <2>1. q' = Append(q, Null) /\ sent' = sent /\ handled' = handled
    BY <1>4 DEF ShutdownInternalThread, Enqueue
  <2>2. InOrder(q', h, sent') /\ h <= sent'
    BY <1>1, <1>2, <2>1
  <2> QED
    BY <1>1, <2>1, <2>2 DEF NothingLostOrRepeated, InOrder
<1>5. CASE Pop("internal")
  <2>1. /\ q # <<>> /\ q' = Tail(q) /\ sent' = sent
        /\ handled' = IF Head(q) = Null THEN handled ELSE Append(handled, Head(q))
    BY <1>5 DEF Pop
  <2>2. /\ Head(q) = Null => InOrder(Tail(q), h, sent)
        /\ Head(q) # Null => Head(q) = h + 1 /\ h < sent /\ InOrder(Tail(q), h + 1, sent)
    BY <1>1, <2>1, TailInOrder
  <2>3. CASE Head(q) = Null
    BY <1>1, <2>1, <2>2, <2>3 DEF NothingLostOrRepeated, InOrder
  <2>4. CASE Head(q) # Null
    <3>1. Head(q) \in Message
      <4>1. q \in Seq(Message \cup {Null})
        OBVIOUS
      <4>2. Head(q) \in Message \cup {Null}
        BY <2>1, <4>1, TailFacts
      <4> QED
        BY <2>4, <4>2
    <3>2. /\ Len(handled') = h + 1 /\ handled'[h + 1] = h + 1
          /\ \A i \in 1 .. h : handled'[i] = i
      BY <1>1, <2>1, <2>2, <2>4, <3>1, AppendFacts
    <3>3. \A i \in 1 .. Len(handled') : handled'[i] = i
      BY <1>1, <3>2
    <3> QED
      BY <1>1, <2>1, <2>2, <2>4, <3>2, <3>3 DEF NothingLostOrRepeated, InOrder
  <2> QED
    BY <2>3, <2>4
<1>6. CASE UNCHANGED <<q, sent, handled>>
  BY <1>6 DEF NothingLostOrRepeated
<1>7. \/ OwnerSends \/ HelperSends \/ Pop("internal")
      \/ \E wait \in BOOLEAN : ShutdownInternalThread(wait)
      \/ UNCHANGED <<q, sent, handled>>
  <2>1. CASE Replies \/ Pop("owner")
    BY <2>1 DEF Replies, Pop, Enqueue
  <2>2. CASE \/ UNCHANGED vars \/ OwnerSignals \/ StartInternalThread \/ GetWakeupSocket
             \/ WaitForInternalThreadToExit \/ Joins \/ OwnerTimesOut
    BY <2>2 DEF vars, OwnerSignals, StartInternalThread, GetWakeupSocket,
                WaitForInternalThreadToExit, Joins, OwnerTimesOut
  <2>3. CASE \E how \in {"poll", "block"} : GetNextReply(how)
    BY <2>3 DEF GetNextReply
  <2>4. CASE \E p \in Side : Absorb(p) \/ PopNothing(p) \/ Wakes(p)
    BY <2>4 DEF Absorb, PopNothing, Wakes
  <2>5. CASE \/ InternalThreadEntry \/ Handles \/ InternalSignals \/ Exits
             \/ HelperSignals
    BY <2>5 DEF InternalThreadEntry, Handles, InternalSignals, Exits, HelperSignals
  <2> QED
    BY <2>1, <2>2, <2>3, <2>4, <2>5
    DEF Next, Decisions, OwnerSteps, InternalSteps
<1> QED
  BY <1>3, <1>4, <1>5, <1>6, <1>7

(* Messages are handled in the order they were sent, none lost and none    *)
(* twice, for any number of Messages, starts and shutdowns                 *)
(* (SendMessageAux, WaitForNextMessageAux).                                *)
THEOREM MessagingKeepsOrder == Spec => []NothingLostOrRepeated
<1>1. Init => OrderInv
  <2> SUFFICES ASSUME Init PROVE OrderInv
    OBVIOUS
  <2>1. queue["internal"] = <<>> /\ handled = <<>> /\ sent = 0
    BY DEF Init, Side
  <2>2. MessagingTypeOK
    BY InitWakeup DEF WakeupInv
  <2> QED
    BY <2>1, <2>2 DEF OrderInv, NothingLostOrRepeated
<1>2. OrderInv /\ MessagingTypeOK' /\ [Next]_vars => OrderInv'
  BY NextOrder DEF OrderInv
<1>3. OrderInv => NothingLostOrRepeated
  BY DEF OrderInv
<1> QED
  BY <1>1, <1>2, <1>3, MessagingTypeCorrect, PTL DEF Spec
=============================================================================
