------------------------ MODULE PacketTunnel_proofs -------------------------
(***************************************************************************)
(* PacketTunnel implements MessageChannel, and over a network without      *)
(* faults it delivers every Message: for any sizes of the Messages, any    *)
(* MTU larger than the header, and any number of packets and faults.       *)
(***************************************************************************)
EXTENDS PacketTunnel, SequenceTheorems, TLAPS

(***************************************************************************)
(* The inductive invariant, in three layers.                               *)
(***************************************************************************)
Fragment == [id : Nat, off : Nat, size : Nat, total : Nat, msg : Nat]

(* The fragments in a sequence of packets                                  *)
FragmentsIn(packets) == UNION {ToSet(packets[a]) : a \in DOMAIN packets}

(* The fragments on their way from the sender to the receiver              *)
Pending == ToSet(reading) \cup FragmentsIn(net) \cup ToSet(packet)

(* f is a piece of one of the Messages that were taken from the queue.     *)
PieceOf(f) ==
  /\ f.msg \in 1 .. popped /\ f.id = f.msg - 1
  /\ f.total = MessageSize[f.msg]
  /\ f.size >= 1 /\ f.off + f.size <= f.total

(* What the receiver holds is the start of the Message of that id.         *)
StateOK ==
  /\ state \in [id : Nat, off : Nat, buf : Seq(Nat)]
  /\ state.buf = <<>> => state.off = 0
  /\ state.buf # <<>> =>
       /\ state.id + 1 \in 1 .. popped
       /\ Len(state.buf) = MessageSize[state.id + 1]
       /\ state.off \in 1 .. Len(state.buf) - 1
       /\ \A i \in 1 .. state.off : state.buf[i] = state.id + 1
  /\ state.id \in 0 .. popped - 1 \/ state = NoState

(* Only Messages that were taken from the queue are received.              *)
GotOK == got \in Seq(Nat) /\ \A i \in 1 .. Len(got) : got[i] \in 1 .. popped

WholeInv ==
  /\ TunnelTypeOK
  /\ faults \subseteq Faults
  /\ offset # NoBuffer => popped > 0
  /\ nextId = IF offset = NoBuffer THEN popped ELSE popped - 1
  /\ reading \in Seq(Fragment) /\ packet \in Seq(Fragment)
  /\ net \in Seq(Seq(Fragment))
  /\ \A f \in Pending : PieceOf(f)
  /\ StateOK
  /\ GotOK

(* f was cut off a Message before g was                                    *)
Before(f, g) ==
  f.msg < g.msg \/ (f.msg = g.msg /\ f.off + f.size <= g.off)

Sorted(p) == \A i, j \in DOMAIN p : i < j => Before(p[i], p[j])

AllBefore(S, T) == \A f \in S, g \in T : Before(f, g)

(* Where the sender goes on: message and offset                            *)
SendMsg == IF offset = NoBuffer THEN popped + 1 ELSE popped

(* Whatever is on its way is in the order in which it was sent, and later  *)
(* than what was received.                                                 *)
InOrder ==
  /\ Sorted(reading) /\ Sorted(packet)
  /\ \A a \in DOMAIN net : Sorted(net[a])
  /\ \A a, b \in DOMAIN net : a < b => AllBefore(ToSet(net[a]), ToSet(net[b]))
  /\ AllBefore(ToSet(reading), FragmentsIn(net))
  /\ AllBefore(ToSet(reading), ToSet(packet))
  /\ AllBefore(FragmentsIn(net), ToSet(packet))
  /\ \A f \in Pending : got # <<>> => f.msg > got[Len(got)]
  /\ got # <<>> => got[Len(got)] < SendMsg
  /\ \A f \in Pending :
       f.msg < popped \/ offset = NoBuffer \/ f.off + f.size <= offset

(* Where the fragment after f begins                                       *)
EndMsg(f) == IF f.off + f.size = f.total THEN f.msg + 1 ELSE f.msg
EndOff(f) == IF f.off + f.size = f.total THEN 0 ELSE f.off + f.size

(* Some fragment begins at that place, or the sender goes on there.        *)
Reached(msg, off) ==
  \/ msg = SendMsg /\ off = offset
  \/ \E f \in Pending : f.msg = msg /\ f.off = off

(* Without faults there is no gap from the place the receiver is at to the *)
(* place the sender is at.                                                 *)
NoGap ==
  /\ \A k \in 1 .. Len(got) : got[k] = k
  /\ state = NoState => got = <<>>
  /\ state # NoState =>
       Len(got) = IF state.buf = <<>> THEN state.id + 1 ELSE state.id
  /\ \A f \in Pending :
       f.msg > Len(got) + 1 \/ (f.msg = Len(got) + 1 /\ f.off >= state.off)
  /\ Reached(Len(got) + 1, state.off)
  /\ \A f \in Pending : Reached(EndMsg(f), EndOff(f))

TunnelInv ==
  /\ WholeInv
  /\ Kind => InOrder
  /\ faults = {} => NoGap

-----------------------------------------------------------------------------
(***************************************************************************)
(* Sequences                                                               *)
(***************************************************************************)

(* RemoveAt takes out one element and closes the gap.                      *)
LEMMA RemoveAtFacts ==
  ASSUME NEW T, NEW s \in Seq(T), NEW i \in DOMAIN s
  PROVE  /\ RemoveAt(s, i) \in Seq(T)
         /\ DOMAIN RemoveAt(s, i) = 1 .. Len(s) - 1
         /\ \A j \in 1 .. Len(s) - 1 :
              RemoveAt(s, i)[j] = s[IF j < i THEN j ELSE j + 1]
<1> DEFINE front == SubSeq(s, 1, i - 1)
           back == SubSeq(s, i + 1, Len(s))
<1>1. i \in 1 .. Len(s) /\ Len(s) \in Nat
  OBVIOUS
<1>2. front \in Seq(T) /\ Len(front) = i - 1 /\ \A j \in 1 .. i - 1 : front[j] = s[j]
  BY <1>1
<1>3. /\ back \in Seq(T) /\ Len(back) = Len(s) - i
      /\ \A j \in 1 .. Len(s) - i : back[j] = s[i + j]
  BY <1>1
<1>4. RemoveAt(s, i) = front \o back
  BY DEF RemoveAt
<1> HIDE DEF front, back
<1>5. RemoveAt(s, i) \in Seq(T) /\ Len(RemoveAt(s, i)) = Len(s) - 1
  BY <1>1, <1>2, <1>3, <1>4, ConcatProperties
<1>6. ASSUME NEW j \in 1 .. Len(s) - 1
      PROVE  RemoveAt(s, i)[j] = s[IF j < i THEN j ELSE j + 1]
  <2>1. (front \o back)[j] = IF j <= Len(front) THEN front[j]
                             ELSE back[j - Len(front)]
    BY <1>1, <1>2, <1>3, ConcatProperties
  <2>2. CASE j < i
    BY <2>1, <2>2, <1>1, <1>2, <1>4
  <2>3. CASE ~ j < i
    <3>1. j - (i - 1) \in 1 .. Len(s) - i /\ i + (j - (i - 1)) = j + 1
      BY <2>3, <1>1
    <3>2. (front \o back)[j] = back[j - (i - 1)]
      BY <2>1, <2>3, <1>1, <1>2
    <3>3. back[j - (i - 1)] = s[j + 1]
      BY <3>1, <1>1, <1>3
    <3> QED
      BY <3>2, <3>3, <2>3, <1>1, <1>4
  <2> QED
    BY <2>2, <2>3
<1> QED
  BY <1>1, <1>5, <1>6

(* InsertAt puts an element before another one.                            *)
LEMMA InsertAtFacts ==
  ASSUME NEW T, NEW s \in Seq(T), NEW i \in DOMAIN s, NEW e \in T
  PROVE  /\ InsertAt(s, i, e) \in Seq(T)
         /\ DOMAIN InsertAt(s, i, e) = 1 .. Len(s) + 1
         /\ \A j \in 1 .. Len(s) + 1 :
              InsertAt(s, i, e)[j] = IF j < i THEN s[j]
                                     ELSE IF j = i THEN e ELSE s[j - 1]
<1>1. i \in 1 .. Len(s) /\ Len(s) \in Nat
  OBVIOUS
<1> DEFINE front == SubSeq(s, 1, i - 1)
           back == SubSeq(s, i, Len(s))
<1>2. front \in Seq(T) /\ Len(front) = i - 1 /\ \A j \in 1 .. i - 1 : front[j] = s[j]
  BY <1>1
<1>3. /\ back \in Seq(T) /\ Len(back) = Len(s) - i + 1
      /\ \A j \in 1 .. Len(s) - i + 1 : back[j] = s[i + j - 1]
  BY <1>1
<1> PICK start : start = front \o <<e>>
  OBVIOUS
<1>4. /\ start \in Seq(T) /\ Len(start) = i
      /\ \A j \in 1 .. i : start[j] = IF j < i THEN s[j] ELSE e
  <2> HIDE DEF front
  <2>1. <<e>> \in Seq(T) /\ Len(<<e>>) = 1 /\ <<e>>[1] = e
    OBVIOUS
  <2> QED
    BY <2>1, <1>1, <1>2, ConcatProperties
<1>5. InsertAt(s, i, e) = start \o back
  BY DEF InsertAt
<1> HIDE DEF front, back
<1>6. InsertAt(s, i, e) \in Seq(T) /\ Len(InsertAt(s, i, e)) = Len(s) + 1
  <2>1. start \o back \in Seq(T) /\ Len(start \o back) = Len(start) + Len(back)
    BY <1>3, <1>4, ConcatProperties
  <2> QED
    BY <2>1, <1>1, <1>3, <1>4, <1>5
<1>7. ASSUME NEW j \in 1 .. Len(s) + 1
      PROVE  InsertAt(s, i, e)[j] = IF j < i THEN s[j]
                                     ELSE IF j = i THEN e ELSE s[j - 1]
  <2>1. (start \o back)[j] = IF j <= Len(start) THEN start[j]
                             ELSE back[j - Len(start)]
    BY <1>1, <1>3, <1>4, ConcatProperties
  <2>2. CASE j <= i
    BY <2>1, <2>2, <1>1, <1>4, <1>5
  <2>3. CASE ~ j <= i
    <3>1. j - i \in 1 .. Len(s) - i + 1 /\ i + (j - i) - 1 = j - 1
      BY <2>3, <1>1
    <3>2. (start \o back)[j] = back[j - i]
      BY <2>1, <2>3, <1>1, <1>4
    <3>3. back[j - i] = s[j - 1]
      BY <3>1, <1>1, <1>3
    <3>4. InsertAt(s, i, e)[j] = s[j - 1]
      BY <3>2, <3>3, <1>5
    <3>5. ~ j < i /\ j # i
      BY <2>3, <1>1
    <3> QED
      BY <3>4, <3>5
  <2> QED
    BY <2>2, <2>3
<1> QED
  BY <1>1, <1>6, <1>7

(* The elements of a sequence and of its tail                              *)
LEMMA TailFacts ==
  ASSUME NEW T, NEW s \in Seq(T), s # <<>>
  PROVE  /\ Head(s) \in T /\ Tail(s) \in Seq(T)
         /\ Len(s) \in Nat \ {0} /\ DOMAIN s = 1 .. Len(s)
         /\ DOMAIN Tail(s) = 1 .. Len(s) - 1
         /\ \A j \in 1 .. Len(s) - 1 : Tail(s)[j] = s[j + 1]
         /\ Head(s) = s[1]
         /\ ToSet(s) = {Head(s)} \cup ToSet(Tail(s))
<1>1. /\ Head(s) \in T /\ Tail(s) \in Seq(T)
      /\ Len(s) \in Nat \ {0} /\ DOMAIN s = 1 .. Len(s)
      /\ DOMAIN Tail(s) = 1 .. Len(s) - 1
      /\ \A j \in 1 .. Len(s) - 1 : Tail(s)[j] = s[j + 1]
      /\ Head(s) = s[1]
  OBVIOUS
<1>2. ASSUME NEW x \in ToSet(s)
      PROVE  x = Head(s) \/ x \in ToSet(Tail(s))
  <2>1. PICK j \in DOMAIN s : x = s[j]
    BY DEF ToSet
  <2>2. CASE j = 1
    BY <2>1, <2>2, <1>1
  <2>3. CASE j # 1
    <3>1. j - 1 \in DOMAIN Tail(s) /\ Tail(s)[j - 1] = x
      BY <2>1, <2>3, <1>1
    <3> QED
      BY <3>1 DEF ToSet
  <2> QED
    BY <2>2, <2>3
<1>3. Head(s) \in ToSet(s)
  BY <1>1 DEF ToSet
<1>4. ASSUME NEW x \in ToSet(Tail(s))
      PROVE  x \in ToSet(s)
  <2>1. PICK j \in DOMAIN Tail(s) : x = Tail(s)[j]
    BY DEF ToSet
  <2>2. j + 1 \in DOMAIN s /\ s[j + 1] = x
    BY <2>1, <1>1
  <2> QED
    BY <2>2 DEF ToSet
<1> QED
  BY <1>1, <1>2, <1>3, <1>4

(* The elements of a sequence with one more                                *)
LEMMA AppendFacts ==
  ASSUME NEW T, NEW s \in Seq(T), NEW e \in T
  PROVE  /\ Append(s, e) \in Seq(T) /\ Len(s) \in Nat /\ DOMAIN s = 1 .. Len(s)
         /\ DOMAIN Append(s, e) = 1 .. Len(s) + 1
         /\ \A j \in 1 .. Len(s) + 1 :
              Append(s, e)[j] = IF j = Len(s) + 1 THEN e ELSE s[j]
         /\ ToSet(Append(s, e)) = ToSet(s) \cup {e}
<1>1. /\ Append(s, e) \in Seq(T) /\ Len(s) \in Nat /\ DOMAIN s = 1 .. Len(s)
      /\ DOMAIN Append(s, e) = 1 .. Len(s) + 1
      /\ \A j \in 1 .. Len(s) + 1 :
           Append(s, e)[j] = IF j = Len(s) + 1 THEN e ELSE s[j]
  OBVIOUS
<1>2. ToSet(Append(s, e)) \subseteq ToSet(s) \cup {e}
  BY <1>1 DEF ToSet
<1>3. ASSUME NEW x \in ToSet(s)
      PROVE  x \in ToSet(Append(s, e))
  <2>1. PICK j \in DOMAIN s : x = s[j]
    BY DEF ToSet
  <2>2. j \in DOMAIN Append(s, e) /\ Append(s, e)[j] = x
    BY <2>1, <1>1
  <2> QED
    BY <2>2 DEF ToSet
<1>4. e \in ToSet(Append(s, e))
  <2>1. Len(s) + 1 \in DOMAIN Append(s, e) /\ Append(s, e)[Len(s) + 1] = e
    BY <1>1
  <2> QED
    BY <2>1 DEF ToSet
<1> QED
  BY <1>1, <1>2, <1>3, <1>4

(* The fragments in a sequence of packets, one by one                      *)
LEMMA FragmentsInFacts ==
  ASSUME NEW packets, NEW f
  PROVE  f \in FragmentsIn(packets) <=>
           \E a \in DOMAIN packets : f \in ToSet(packets[a])
BY DEF FragmentsIn

(* What taking a packet out of the network does to its fragments           *)
LEMMA FragmentsRemoved ==
  ASSUME NEW T, NEW n \in Seq(T), NEW i \in DOMAIN n
  PROVE  FragmentsIn(n) = FragmentsIn(RemoveAt(n, i)) \cup ToSet(n[i])
<1> DEFINE r == RemoveAt(n, i)
<1>1. /\ DOMAIN r = 1 .. Len(n) - 1 /\ Len(n) \in Nat /\ DOMAIN n = 1 .. Len(n)
      /\ i \in 1 .. Len(n)
      /\ \A j \in 1 .. Len(n) - 1 : r[j] = n[IF j < i THEN j ELSE j + 1]
  BY RemoveAtFacts
<1> HIDE DEF r
<1>2. ASSUME NEW f \in FragmentsIn(n)
      PROVE  f \in FragmentsIn(r) \/ f \in ToSet(n[i])
  <2>1. PICK a \in DOMAIN n : f \in ToSet(n[a])
    BY FragmentsInFacts
  <2>2. CASE a = i
    BY <2>1, <2>2
  <2>3. CASE a < i
    <3>1. a \in DOMAIN r /\ r[a] = n[a]
      BY <1>1, <2>3
    <3> QED
      BY <3>1, <2>1, FragmentsInFacts
  <2>4. CASE a > i
    <3>1. a - 1 \in DOMAIN r /\ r[a - 1] = n[a]
      BY <1>1, <2>4
    <3> QED
      BY <3>1, <2>1, FragmentsInFacts
  <2> QED
    BY <1>1, <2>2, <2>3, <2>4
<1>3. ASSUME NEW f \in FragmentsIn(r)
      PROVE  f \in FragmentsIn(n)
  <2>1. PICK a \in DOMAIN r : f \in ToSet(r[a])
    BY FragmentsInFacts
  <2>2. (IF a < i THEN a ELSE a + 1) \in DOMAIN n
        /\ r[a] = n[IF a < i THEN a ELSE a + 1]
    BY <1>1
  <2> QED
    BY <2>1, <2>2, FragmentsInFacts
<1>4. ToSet(n[i]) \subseteq FragmentsIn(n)
  BY FragmentsInFacts
<1> QED
  BY <1>2, <1>3, <1>4 DEF r

(* What sending a packet does to the fragments in the network              *)
LEMMA FragmentsAppended ==
  ASSUME NEW T, NEW n \in Seq(T), NEW p \in T
  PROVE  FragmentsIn(Append(n, p)) = FragmentsIn(n) \cup ToSet(p)
<1>1. /\ Len(n) \in Nat /\ DOMAIN n = 1 .. Len(n)
      /\ DOMAIN Append(n, p) = 1 .. Len(n) + 1
      /\ \A j \in 1 .. Len(n) + 1 :
           Append(n, p)[j] = IF j = Len(n) + 1 THEN p ELSE n[j]
  BY AppendFacts
<1>2. ASSUME NEW f \in FragmentsIn(Append(n, p))
      PROVE  f \in FragmentsIn(n) \/ f \in ToSet(p)
  <2>1. PICK a \in DOMAIN Append(n, p) : f \in ToSet(Append(n, p)[a])
    BY FragmentsInFacts
  <2>2. CASE a = Len(n) + 1
    BY <2>1, <2>2, <1>1
  <2>3. CASE a # Len(n) + 1
    <3>1. a \in DOMAIN n /\ Append(n, p)[a] = n[a]
      BY <1>1, <2>3
    <3> QED
      BY <3>1, <2>1, FragmentsInFacts
  <2> QED
    BY <2>2, <2>3
<1>3. ASSUME NEW f \in FragmentsIn(n)
      PROVE  f \in FragmentsIn(Append(n, p))
  <2>1. PICK a \in DOMAIN n : f \in ToSet(n[a])
    BY FragmentsInFacts
  <2>2. a \in DOMAIN Append(n, p) /\ Append(n, p)[a] = n[a]
    BY <1>1
  <2> QED
    BY <2>1, <2>2, FragmentsInFacts
<1>4. ToSet(p) \subseteq FragmentsIn(Append(n, p))
  <2>1. Len(n) + 1 \in DOMAIN Append(n, p) /\ Append(n, p)[Len(n) + 1] = p
    BY <1>1
  <2> QED
    BY <2>1, FragmentsInFacts
<1> QED
  BY <1>2, <1>3, <1>4

(* A duplicated packet adds no new fragment.                               *)
LEMMA FragmentsInserted ==
  ASSUME NEW T, NEW n \in Seq(T), NEW i \in DOMAIN n
  PROVE  FragmentsIn(InsertAt(n, i, n[i])) \subseteq FragmentsIn(n)
<1> DEFINE r == InsertAt(n, i, n[i])
<1>0. n[i] \in T
  OBVIOUS
<1>1. /\ DOMAIN r = 1 .. Len(n) + 1 /\ Len(n) \in Nat /\ DOMAIN n = 1 .. Len(n)
      /\ i \in 1 .. Len(n)
      /\ \A j \in 1 .. Len(n) + 1 :
           r[j] = IF j < i THEN n[j] ELSE IF j = i THEN n[i] ELSE n[j - 1]
  BY <1>0, InsertAtFacts
<1> HIDE DEF r
<1>2. ASSUME NEW f \in FragmentsIn(r)
      PROVE  f \in FragmentsIn(n)
  <2>1. PICK a \in DOMAIN r : f \in ToSet(r[a])
    BY FragmentsInFacts
  <2>2. \E b \in DOMAIN n : r[a] = n[b]
    <3>1. CASE a < i
      BY <3>1, <1>1
    <3>2. CASE a = i
      BY <3>2, <1>1
    <3>3. CASE a > i
      <4>1. a - 1 \in DOMAIN n /\ r[a] = n[a - 1]
        BY <3>3, <1>1
      <4> QED
        BY <4>1
    <3> QED
      BY <3>1, <3>2, <3>3, <1>1
  <2> QED
    BY <2>1, <2>2, FragmentsInFacts
<1> QED
  BY <1>2 DEF r

-----------------------------------------------------------------------------
(***************************************************************************)
(* First layer: what is pending are pieces of Messages, and the receiver   *)
(* has the start of one.                                                   *)
(***************************************************************************)

(* What is assumed of the constants                                        *)
LEMMA ConstantFacts ==
  /\ Len(MessageSize) \in Nat /\ IdSpace \in Nat /\ IdSpace > Len(MessageSize)
  /\ \A k \in 1 .. Len(MessageSize) : MessageSize[k] \in Nat /\ MessageSize[k] >= 1
  /\ HeaderSize \in Nat /\ MTU \in Nat /\ MTU > HeaderSize
BY TunnelAssumption

(* The numbers in the state                                                *)
LEMMA NumberFacts ==
  ASSUME WholeInv
  PROVE  /\ accepted \in Nat /\ accepted <= Len(MessageSize)
         /\ popped \in Nat /\ popped <= accepted
         /\ offset \in Nat /\ nextId \in Nat /\ packetSize \in Nat
<1> USE ConstantFacts
<1>1. /\ accepted \in 0 .. Len(MessageSize) /\ popped \in 0 .. accepted
      /\ nextId \in 0 .. IdSpace - 1 /\ packetSize \in 0 .. MTU
      /\ offset = NoBuffer \/ offset \in 1 .. MessageSize[popped] - 1
      /\ offset # NoBuffer => popped > 0
  BY DEF WholeInv, TunnelTypeOK
<1>2. accepted \in Nat /\ popped \in Nat /\ popped <= Len(MessageSize)
  BY <1>1
<1>3. offset \in Nat
  BY <1>1, <1>2 DEF NoBuffer
<1> QED
  BY <1>1, <1>2, <1>3

(* A pending fragment                                                      *)
LEMMA PendingFacts ==
  ASSUME WholeInv, NEW f \in Pending
  PROVE  /\ f \in Fragment /\ PieceOf(f)
         /\ f.msg \in Nat /\ f.msg >= 1 /\ f.msg <= popped
         /\ f.id \in Nat /\ f.off \in Nat /\ f.size \in Nat /\ f.total \in Nat
<1>1. reading \in Seq(Fragment) /\ packet \in Seq(Fragment)
      /\ net \in Seq(Seq(Fragment)) /\ PieceOf(f)
  BY DEF WholeInv
<1>2. ToSet(reading) \subseteq Fragment /\ ToSet(packet) \subseteq Fragment
  BY <1>1 DEF ToSet
<1>3. FragmentsIn(net) \subseteq Fragment
  <2> SUFFICES ASSUME NEW a \in DOMAIN net, NEW g \in ToSet(net[a])
               PROVE  g \in Fragment
    BY FragmentsInFacts
  <2>1. net[a] \in Seq(Fragment)
    BY <1>1
  <2> QED
    BY <2>1 DEF ToSet
<1>4. f \in Fragment
  BY <1>2, <1>3 DEF Pending
<1> QED
  BY <1>1, <1>4, NumberFacts DEF Fragment, PieceOf

LEMMA WholeInit == Init => WholeInv
<1> SUFFICES ASSUME Init PROVE WholeInv
  OBVIOUS
<1> USE DEF Init
<1>1. ToSet(<<>>) = {} /\ FragmentsIn(<<>>) = {}
  BY DEF ToSet, FragmentsIn
<1>2. Pending = {}
  BY <1>1 DEF Pending
<1>3. state = NoState /\ NoState \in [id : Nat, off : Nat, buf : Seq(Nat)]
      /\ NoState.id = IdSpace /\ NoState.buf = <<>> /\ NoState.off = 0
  BY ConstantFacts DEF NoState
<1>4. StateOK
  BY <1>3 DEF StateOK
<1>5. TunnelTypeOK
  <2>1. Len(<<>>) = 0 /\ state.id \in 0 .. IdSpace /\ state.off \in 0 .. Len(state.buf)
    BY <1>3, ConstantFacts
  <2>2. 0 \in 0 .. Len(MessageSize) /\ 0 \in 0 .. IdSpace - 1 /\ 0 \in 0 .. MTU
    BY ConstantFacts
  <2>3. popped \in 0 .. accepted
    OBVIOUS
  <2>4. packetSize \in 0 .. MTU /\ (packetSize = 0 => packet = <<>>)
    BY <2>2
  <2>5. inOutput \in BOOLEAN
    BY Zenon
  <2> QED
    BY <2>1, <2>2, <2>3, <2>4, <2>5 DEF TunnelTypeOK, NoBuffer
<1>6. faults \subseteq Faults
  BY TunnelAssumption
<1>7. GotOK
  BY DEF GotOK
<1> QED
  BY <1>2, <1>4, <1>5, <1>6, <1>7 DEF WholeInv, NoBuffer

(* Steps that only accept a Message or enter or leave DoOutput             *)
LEMMA WholeFrame ==
  ASSUME WholeInv, accepted' \in 0 .. Len(MessageSize), accepted' >= accepted,
         inOutput' \in BOOLEAN,
         UNCHANGED <<popped, offset, nextId, packet, packetSize, recvVars, net,
                     faults>>
  PROVE  WholeInv'
<1>0. /\ UNCHANGED popped /\ UNCHANGED offset /\ UNCHANGED nextId
      /\ UNCHANGED packet /\ UNCHANGED packetSize /\ UNCHANGED net
      /\ UNCHANGED faults /\ UNCHANGED reading /\ UNCHANGED state
      /\ UNCHANGED got
  BY DEF recvVars
<1>1. TunnelTypeOK'
  BY <1>0, NumberFacts, ConstantFacts DEF TunnelTypeOK, WholeInv
<1>2. Pending' = Pending /\ (StateOK <=> StateOK') /\ (GotOK <=> GotOK')
  BY <1>0 DEF Pending, StateOK, GotOK
<1>3. \A f \in Pending : PieceOf(f) <=> PieceOf(f)'
  BY <1>0 DEF PieceOf
<1> QED
  BY <1>0, <1>1, <1>2, <1>3 DEF WholeInv

(* Steps of the network and of the receiver, which add no fragment         *)
LEMMA WholeReceiverFrame ==
  ASSUME WholeInv, UNCHANGED <<sendVars, faults>>,
         reading' \in Seq(Fragment), net' \in Seq(Seq(Fragment)),
         Pending' \subseteq Pending, StateOK', GotOK'
  PROVE  WholeInv'
<1>0. /\ UNCHANGED accepted /\ UNCHANGED popped /\ UNCHANGED offset
      /\ UNCHANGED nextId /\ UNCHANGED packet /\ UNCHANGED packetSize
      /\ UNCHANGED inOutput /\ UNCHANGED faults
  BY DEF sendVars
<1>1. state'.id \in 0 .. IdSpace /\ state'.off \in 0 .. Len(state'.buf)
  <2>1. /\ state'.buf \in Seq(Nat) /\ state'.off \in Nat /\ state'.id \in Nat
        /\ state'.buf = <<>> => state'.off = 0
        /\ state'.buf # <<>> => state'.off \in 1 .. Len(state'.buf) - 1
        /\ state'.id \in 0 .. popped - 1 \/ state' = NoState
    BY <1>0 DEF StateOK
  <2>2. state'.id \in 0 .. IdSpace
    BY <2>1, NumberFacts, ConstantFacts DEF NoState
  <2>3. CASE state'.buf = <<>>
    BY <2>1, <2>2, <2>3
  <2>4. CASE state'.buf # <<>>
    BY <2>1, <2>2, <2>4
  <2> QED
    BY <2>3, <2>4
<1>2. TunnelTypeOK'
  BY <1>0, <1>1 DEF TunnelTypeOK, WholeInv
<1>3. \A f \in Pending : PieceOf(f) <=> PieceOf(f)'
  BY <1>0 DEF PieceOf
<1> QED
  BY <1>0, <1>2, <1>3 DEF WholeInv

(* The fragment that AddFragment adds                                      *)
NewFragment ==
  LET off == offset
      left == MessageSize[SendMsg] - off
      size == IF left < Room THEN left ELSE Room
  IN [id |-> nextId, off |-> off, size |-> size,
      total |-> MessageSize[SendMsg], msg |-> SendMsg]

(* What AddFragment does, in terms of that fragment                        *)
LEMMA AddFragmentFacts ==
  ASSUME WholeInv, AddFragment
  PROVE  /\ NewFragment \in Fragment
         /\ NewFragment.msg = SendMsg /\ NewFragment.off = offset
         /\ NewFragment.id = SendMsg - 1 /\ NewFragment.id = nextId
         /\ NewFragment.total = MessageSize[SendMsg]
         /\ NewFragment.size >= 1 /\ NewFragment.size <= Room
         /\ NewFragment.off + NewFragment.size <= NewFragment.total
         /\ SendMsg \in 1 .. accepted
         /\ packet' = Append(packet, NewFragment)
         /\ packetSize' = packetSize + HeaderSize + NewFragment.size
         /\ popped' = SendMsg
         /\ offset' = EndOff(NewFragment)
         /\ nextId' = IF NewFragment.off + NewFragment.size = NewFragment.total
                      THEN (nextId + 1) % IdSpace ELSE nextId
         /\ UNCHANGED accepted /\ UNCHANGED inOutput /\ UNCHANGED reading
         /\ UNCHANGED state /\ UNCHANGED got /\ UNCHANGED net
         /\ UNCHANGED faults
<1> DEFINE left == MessageSize[SendMsg] - offset
           size == IF left < Room THEN left ELSE Room
<1>1. /\ accepted \in Nat /\ accepted <= Len(MessageSize)
      /\ popped \in Nat /\ popped <= accepted
      /\ offset \in Nat /\ nextId \in Nat /\ packetSize \in Nat
      /\ offset = NoBuffer \/ offset \in 1 .. MessageSize[popped] - 1
      /\ offset # NoBuffer => popped > 0
      /\ nextId = IF offset = NoBuffer THEN popped ELSE popped - 1
  BY NumberFacts DEF WholeInv, TunnelTypeOK
<1>2. packetSize + HeaderSize < MTU /\ (offset # NoBuffer \/ popped < accepted)
  BY DEF AddFragment, CanAdd, HasBytesToOutput
<1>3. SendMsg \in 1 .. accepted /\ nextId = SendMsg - 1
  BY <1>1, <1>2 DEF SendMsg
<1>4. MessageSize[SendMsg] \in Nat /\ MessageSize[SendMsg] >= 1
      /\ left \in Nat /\ left >= 1
  BY <1>1, <1>3, ConstantFacts DEF SendMsg, NoBuffer
<1>5. Room \in Nat /\ Room >= 1
  BY <1>1, <1>2, ConstantFacts DEF Room
<1>6. size \in Nat /\ size >= 1 /\ size <= Room /\ offset + size <= MessageSize[SendMsg]
  BY <1>1, <1>4, <1>5
<1>7. NewFragment = [id |-> nextId, off |-> offset, size |-> size,
                     total |-> MessageSize[SendMsg], msg |-> SendMsg]
  BY DEF NewFragment
<1>8. /\ packet' = Append(packet, NewFragment)
      /\ packetSize' = packetSize + HeaderSize + size
      /\ popped' = SendMsg
      /\ offset' = IF offset + size = MessageSize[SendMsg] THEN NoBuffer ELSE offset + size
      /\ nextId' = IF offset + size = MessageSize[SendMsg]
                   THEN (nextId + 1) % IdSpace ELSE nextId
  BY DEF AddFragment, NewFragment, SendMsg, NoBuffer, NextId
<1>9. /\ UNCHANGED accepted /\ UNCHANGED inOutput /\ UNCHANGED reading
      /\ UNCHANGED state /\ UNCHANGED got /\ UNCHANGED net /\ UNCHANGED faults
  BY DEF AddFragment, recvVars
<1> HIDE DEF left, size
<1>10. /\ NewFragment.msg = SendMsg /\ NewFragment.off = offset
       /\ NewFragment.id = nextId /\ NewFragment.size = size
       /\ NewFragment.total = MessageSize[SendMsg]
  BY <1>7
<1>11. NewFragment \in Fragment
  BY <1>1, <1>3, <1>4, <1>6, <1>7 DEF Fragment
<1>12. offset' = EndOff(NewFragment)
  BY <1>8, <1>10 DEF EndOff, NoBuffer
<1> QED
  BY <1>3, <1>6, <1>8, <1>9, <1>10, <1>11, <1>12

LEMMA WholeAddFragment == WholeInv /\ AddFragment => WholeInv'
<1> SUFFICES ASSUME WholeInv, AddFragment PROVE WholeInv'
  OBVIOUS
<1> PICK g : g = NewFragment
  OBVIOUS
<1> PICK m : m = SendMsg
  OBVIOUS
<1>1. /\ g.msg = m /\ g.off = offset /\ g.id = m - 1 /\ g.id = nextId
      /\ g.total = MessageSize[m] /\ g.size >= 1 /\ g.size <= Room
      /\ g.off + g.size <= g.total /\ m \in 1 .. accepted
  BY AddFragmentFacts
<1>2. /\ UNCHANGED accepted /\ UNCHANGED inOutput /\ UNCHANGED reading
      /\ UNCHANGED state /\ UNCHANGED got /\ UNCHANGED net /\ UNCHANGED faults
  BY AddFragmentFacts
<1>3. /\ g \in Fragment /\ popped' = m /\ packet' = Append(packet, g)
      /\ packetSize' = packetSize + HeaderSize + g.size
  BY AddFragmentFacts
<1>4. /\ offset' = IF g.off + g.size = g.total THEN 0 ELSE g.off + g.size
      /\ nextId' = IF g.off + g.size = g.total THEN (nextId + 1) % IdSpace ELSE nextId
  BY AddFragmentFacts DEF EndOff
<1>5. /\ accepted \in Nat /\ accepted <= Len(MessageSize)
      /\ popped \in Nat /\ popped <= accepted /\ nextId \in Nat
      /\ offset \in Nat /\ packetSize \in Nat
  BY NumberFacts
<1>6. g.size \in Nat /\ g.off \in Nat /\ g.total \in Nat
  BY <1>3 DEF Fragment
<1>7. m >= popped /\ m \in Nat
  BY <1>1, <1>5 DEF SendMsg
<1>8. /\ offset' = NoBuffer \/ offset' \in 1 .. MessageSize[popped'] - 1
      /\ offset' # NoBuffer => popped' > 0
      /\ nextId' = IF offset' = NoBuffer THEN popped' ELSE popped' - 1
      /\ nextId' \in 0 .. IdSpace - 1
  <2>1. CASE g.off + g.size = g.total
    <3>1. offset' = NoBuffer /\ nextId' = (nextId + 1) % IdSpace
      BY <1>4, <2>1 DEF NoBuffer
    <3>2. nextId + 1 = m /\ m < IdSpace
      BY <1>1, <1>5, <1>7, ConstantFacts
    <3>3. nextId' = m
      BY <3>1, <3>2, <1>7, ConstantFacts
    <3> QED
      BY <1>3, <1>7, <3>1, <3>2, <3>3, ConstantFacts
  <2>2. CASE g.off + g.size # g.total
    <3>1. offset' = g.off + g.size /\ nextId' = nextId
      BY <1>4, <2>2
    <3>2. g.off + g.size \in 1 .. MessageSize[m] - 1
      BY <1>1, <1>6, <2>2
    <3>3. nextId = m - 1 /\ m > 0 /\ m < IdSpace
      BY <1>1, <1>5, <1>7, ConstantFacts
    <3> QED
      BY <1>3, <1>6, <1>7, <3>1, <3>2, <3>3, ConstantFacts DEF NoBuffer
  <2> QED
    BY <2>1, <2>2
<1>9. packetSize' \in 0 .. MTU /\ packetSize' # 0
  <2>1. g.size <= MTU - (packetSize + HeaderSize) /\ g.size >= 1
    BY <1>1 DEF Room
  <2>2. packetSize' = packetSize + HeaderSize + g.size
    BY <1>3
  <2> QED
    BY <2>1, <2>2, <1>5, <1>6, ConstantFacts
<1>10. TunnelTypeOK'
  BY <1>1, <1>2, <1>3, <1>5, <1>8, <1>9 DEF TunnelTypeOK, WholeInv
<1>11. packet' \in Seq(Fragment) /\ ToSet(packet') = ToSet(packet) \cup {g}
  BY <1>3, AppendFacts DEF WholeInv
<1>12. Pending' = Pending \cup {g}
  BY <1>2, <1>11 DEF Pending
<1>13. ASSUME NEW f \in Pending'
       PROVE  PieceOf(f)'
  <2>1. CASE f \in Pending
    BY <2>1, <1>3, <1>5, <1>7, PendingFacts DEF PieceOf
  <2>2. CASE f = g
    BY <2>2, <1>1, <1>3, <1>7 DEF PieceOf
  <2> QED
    BY <1>12, <2>1, <2>2
<1>14. StateOK'
  <2>1. StateOK
    BY DEF WholeInv
  <2> QED
    BY <2>1, <1>2, <1>3, <1>5, <1>7 DEF StateOK
<1>15. GotOK'
  BY <1>2, <1>3, <1>5, <1>7 DEF WholeInv, GotOK
<1> QED
  BY <1>2, <1>8, <1>10, <1>11, <1>13, <1>14, <1>15 DEF WholeInv

LEMMA WholeWritePacket ==
  ASSUME NEW more \in BOOLEAN, WholeInv, WritePacket(more)
  PROVE  WholeInv' /\ Pending' = Pending
<1>0. /\ UNCHANGED accepted /\ UNCHANGED popped /\ UNCHANGED offset
      /\ UNCHANGED nextId /\ UNCHANGED reading /\ UNCHANGED state
      /\ UNCHANGED got /\ UNCHANGED faults
      /\ net' = Append(net, packet) /\ packet' = <<>> /\ packetSize' = 0
      /\ inOutput' = more
  BY DEF WritePacket, recvVars
<1>1. net \in Seq(Seq(Fragment)) /\ packet \in Seq(Fragment)
  BY DEF WholeInv
<1>2. net' \in Seq(Seq(Fragment)) /\ FragmentsIn(net') = FragmentsIn(net) \cup ToSet(packet)
  BY <1>0, <1>1, FragmentsAppended, AppendFacts
<1>3. ToSet(packet') = {}
  BY <1>0 DEF ToSet
<1>4. Pending' = Pending
  BY <1>0, <1>2, <1>3 DEF Pending
<1>5. packetSize' \in 0 .. MTU /\ inOutput' \in BOOLEAN
  BY <1>0, ConstantFacts
<1>6. TunnelTypeOK'
  BY <1>0, <1>5 DEF TunnelTypeOK, WholeInv
<1>7. StateOK' /\ GotOK' /\ \A f \in Pending : PieceOf(f)'
  BY <1>0 DEF WholeInv, StateOK, GotOK, PieceOf
<1> QED
  BY <1>0, <1>2, <1>4, <1>6, <1>7 DEF WholeInv

LEMMA WholeDoInput ==
  ASSUME NEW i, WholeInv, DoInput(i)
  PROVE  WholeInv' /\ Pending' = Pending
<1>0. /\ UNCHANGED sendVars /\ UNCHANGED packet /\ UNCHANGED state /\ UNCHANGED got
      /\ UNCHANGED faults /\ UNCHANGED popped
      /\ reading = <<>> /\ i \in DOMAIN net /\ reading' = net[i]
      /\ net' = RemoveAt(net, i)
  BY DEF DoInput, sendVars
<1>1. net \in Seq(Seq(Fragment)) /\ StateOK /\ GotOK
  BY DEF WholeInv
<1>2. net' \in Seq(Seq(Fragment)) /\ net[i] \in Seq(Fragment)
      /\ FragmentsIn(net) = FragmentsIn(net') \cup ToSet(net[i])
  BY <1>0, <1>1, RemoveAtFacts, FragmentsRemoved
<1>3. ToSet(reading) = {}
  BY <1>0 DEF ToSet
<1>4. Pending' = Pending
  BY <1>0, <1>2, <1>3 DEF Pending
<1>5. StateOK'
  BY <1>0, <1>1 DEF StateOK
<1>6. GotOK'
  BY <1>0, <1>1 DEF GotOK
<1> QED
  BY <1>0, <1>1, <1>2, <1>4, <1>5, <1>6, WholeReceiverFrame

LEMMA WholeCrowdOut == WholeInv /\ CrowdOut => WholeInv'
<1> SUFFICES ASSUME WholeInv, CrowdOut PROVE WholeInv'
  OBVIOUS
<1>0. /\ UNCHANGED sendVars /\ UNCHANGED packet /\ UNCHANGED reading /\ UNCHANGED got
      /\ UNCHANGED faults /\ UNCHANGED net /\ state' = NoState
  BY DEF CrowdOut, sendVars
<1>1. Pending' = Pending
  BY <1>0 DEF Pending
<1>2. NoState \in [id : Nat, off : Nat, buf : Seq(Nat)]
      /\ NoState.id = IdSpace /\ NoState.buf = <<>> /\ NoState.off = 0
  BY ConstantFacts DEF NoState
<1>3. StateOK'
  BY <1>0, <1>2 DEF StateOK
<1>4. GotOK'
  BY <1>0 DEF GotOK, WholeInv, sendVars
<1> QED
  BY <1>0, <1>1, <1>3, <1>4, WholeReceiverFrame DEF WholeInv

LEMMA WholeLose ==
  ASSUME NEW i, WholeInv, Lose(i)
  PROVE  WholeInv' /\ Pending' \subseteq Pending
<1>0. /\ UNCHANGED sendVars /\ UNCHANGED packet /\ UNCHANGED reading
      /\ UNCHANGED state /\ UNCHANGED got /\ UNCHANGED faults /\ UNCHANGED popped
      /\ i \in DOMAIN net /\ net' = RemoveAt(net, i)
  BY DEF Lose, sendVars, recvVars
<1>1. net \in Seq(Seq(Fragment)) /\ StateOK /\ GotOK
      /\ reading \in Seq(Fragment)
  BY DEF WholeInv
<1>2. net' \in Seq(Seq(Fragment)) /\ FragmentsIn(net') \subseteq FragmentsIn(net)
  BY <1>0, <1>1, RemoveAtFacts, FragmentsRemoved
<1>3. Pending' \subseteq Pending
  BY <1>0, <1>2 DEF Pending
<1>4. StateOK'
  BY <1>0, <1>1 DEF StateOK
<1>5. GotOK'
  BY <1>0, <1>1 DEF GotOK
<1> QED
  BY <1>0, <1>1, <1>2, <1>3, <1>4, <1>5, WholeReceiverFrame

LEMMA WholeDuplicate ==
  ASSUME NEW i, WholeInv, Duplicate(i)
  PROVE  WholeInv'
<1>0. /\ UNCHANGED sendVars /\ UNCHANGED packet /\ UNCHANGED reading
      /\ UNCHANGED state /\ UNCHANGED got /\ UNCHANGED faults /\ UNCHANGED popped
      /\ i \in DOMAIN net /\ net' = InsertAt(net, i, net[i])
  BY DEF Duplicate, sendVars, recvVars
<1>1. net \in Seq(Seq(Fragment)) /\ StateOK /\ GotOK
      /\ reading \in Seq(Fragment) /\ net[i] \in Seq(Fragment)
  BY <1>0 DEF WholeInv
<1>2. net' \in Seq(Seq(Fragment)) /\ FragmentsIn(net') \subseteq FragmentsIn(net)
  BY <1>0, <1>1, InsertAtFacts, FragmentsInserted
<1>3. Pending' \subseteq Pending
  BY <1>0, <1>2 DEF Pending
<1>4. StateOK'
  BY <1>0, <1>1 DEF StateOK
<1>5. GotOK'
  BY <1>0, <1>1 DEF GotOK
<1> QED
  BY <1>0, <1>1, <1>2, <1>3, <1>4, <1>5, WholeReceiverFrame

(* A buffer with all the bytes of a Message is that Message.               *)
LEMMA MessageInFacts ==
  ASSUME NEW k \in 1 .. Len(MessageSize), NEW b \in Seq(Nat),
         Len(b) = MessageSize[k], \A i \in 1 .. Len(b) : b[i] = k
  PROVE  MessageIn(b) = k
<1>1. Len(b) \in Nat /\ Len(b) >= 1 /\ DOMAIN b = 1 .. Len(b)
  BY ConstantFacts
<1>2. b[1] = k /\ 1 \in DOMAIN b
  BY <1>1
<1>3. ToSet(b) = {k}
  BY <1>1, <1>2 DEF ToSet
<1>4. Head(b) = k
  BY <1>1, <1>2
<1>5. k \in DOMAIN MessageSize
  BY TunnelAssumption
<1> QED
  BY <1>3, <1>4, <1>5 DEF MessageIn

(* What the receiver holds while it looks at a fragment: as StateOK, but   *)
(* the Message may have just begun.                                        *)
BegunOK(rs) ==
  /\ rs \in [id : Nat, off : Nat, buf : Seq(Nat)]
  /\ rs.buf = <<>> => rs.off = 0
  /\ rs.buf # <<>> =>
       /\ rs.id + 1 \in 1 .. popped
       /\ Len(rs.buf) = MessageSize[rs.id + 1]
       /\ rs.off \in 0 .. Len(rs.buf) - 1
       /\ \A i \in 1 .. rs.off : rs.buf[i] = rs.id + 1
  /\ rs.id \in 0 .. popped - 1 \/ rs = NoState

LEMMA BegunFacts ==
  ASSUME WholeInv, NEW f \in Pending
  PROVE  BegunOK(Begun(f))
<1>1. CASE f.off = 0 /\ f.id # state.id
  <2> DEFINE b == [i \in 1 .. f.total |-> Junk]
  <2>1. /\ f.msg \in Nat /\ f.msg >= 1 /\ f.msg <= popped /\ f.id \in Nat
        /\ f.off \in Nat /\ f.size \in Nat /\ f.total \in Nat
    BY PendingFacts
  <2>2. f.id = f.msg - 1 /\ f.total = MessageSize[f.msg] /\ f.size >= 1
        /\ f.off + f.size <= f.total
    BY PendingFacts DEF PieceOf
  <2>3. b \in Seq(Nat) /\ Len(b) = f.total /\ f.total >= 1
    BY <2>1, <2>2 DEF Junk
  <2>4. Begun(f) = [id |-> f.id, off |-> 0, buf |-> b]
    BY <1>1 DEF Begun, NewState
  <2> HIDE DEF b
  <2>5. Begun(f).id = f.id /\ Begun(f).off = 0 /\ Begun(f).buf = b
        /\ Begun(f) \in [id : Nat, off : Nat, buf : Seq(Nat)]
    BY <2>1, <2>3, <2>4
  <2>6. f.id + 1 = f.msg /\ f.id \in 0 .. popped - 1 /\ f.id + 1 \in 1 .. popped
    BY <2>1, <2>2, NumberFacts
  <2>7. 0 \in 0 .. Len(b) - 1 /\ 1 .. 0 = {}
    BY <2>3, <2>1
  <2> QED
    BY <2>2, <2>3, <2>5, <2>6, <2>7 DEF BegunOK
<1>2. CASE ~ (f.off = 0 /\ f.id # state.id)
  <2>1. Begun(f) = state
    BY <1>2 DEF Begun
  <2>2. StateOK
    BY DEF WholeInv
  <2>3. BegunOK(state)
    BY <2>2 DEF StateOK, BegunOK
  <2> QED
    BY <2>1, <2>3
<1> QED
  BY <1>1, <1>2

(* What Filled and Cleared make of a state                                 *)
LEMMA ClearedFacts ==
  ASSUME NEW rs \in [id : Nat, off : Nat, buf : Seq(Nat)]
  PROVE  /\ Cleared(rs) \in [id : Nat, off : Nat, buf : Seq(Nat)]
         /\ Cleared(rs).id = rs.id /\ Cleared(rs).off = 0
         /\ Cleared(rs).buf = <<>>
         /\ rs = NoState => Cleared(rs) = NoState
<1>1. /\ Cleared(rs) \in [id : Nat, off : Nat, buf : Seq(Nat)]
      /\ Cleared(rs).id = rs.id /\ Cleared(rs).off = 0
      /\ Cleared(rs).buf = <<>>
  BY DEF Cleared
<1>2. Cleared(NoState) = NoState
  BY DEF Cleared, NoState
<1> QED
  BY <1>1, <1>2

LEMMA FilledFacts ==
  ASSUME NEW rs \in [id : Nat, off : Nat, buf : Seq(Nat)], NEW f \in Fragment
  PROVE  /\ Filled(rs, f) \in [id : Nat, off : Nat, buf : Seq(Nat)]
         /\ Filled(rs, f).id = rs.id /\ Filled(rs, f).off = rs.off + f.size
         /\ Len(Filled(rs, f).buf) = Len(rs.buf)
         /\ \A i \in 1 .. Len(rs.buf) :
              Filled(rs, f).buf[i] = IF i \in f.off + 1 .. f.off + f.size
                                     THEN f.msg ELSE rs.buf[i]
<1>1. /\ rs.id \in Nat /\ rs.off \in Nat /\ rs.buf \in Seq(Nat)
      /\ f.off \in Nat /\ f.size \in Nat /\ f.msg \in Nat
  BY DEF Fragment
<1>2. Len(rs.buf) \in Nat /\ DOMAIN rs.buf = 1 .. Len(rs.buf)
      /\ \A i \in 1 .. Len(rs.buf) : rs.buf[i] \in Nat
  BY <1>1
<1> DEFINE b == [i \in 1 .. Len(rs.buf) |->
                   IF i \in f.off + 1 .. f.off + f.size THEN f.msg ELSE rs.buf[i]]
<1>3. b \in Seq(Nat) /\ Len(b) = Len(rs.buf)
      /\ \A i \in 1 .. Len(rs.buf) :
           b[i] = IF i \in f.off + 1 .. f.off + f.size THEN f.msg ELSE rs.buf[i]
  BY <1>1, <1>2
<1>4. Filled(rs, f) = [id |-> rs.id, off |-> rs.off + f.size, buf |-> b]
  BY <1>2 DEF Filled
<1> HIDE DEF b
<1>5. Filled(rs, f) \in [id : Nat, off : Nat, buf : Seq(Nat)]
  BY <1>1, <1>3, <1>4
<1>6. /\ Filled(rs, f).id = rs.id /\ Filled(rs, f).off = rs.off + f.size
      /\ Filled(rs, f).buf = b
  BY <1>4
<1> QED
  BY <1>3, <1>5, <1>6

(* What HandleFragment does: the fragment is not the one awaited, or it    *)
(* continues the Message, or it completes it.                              *)
LEMMA HandleFragmentFacts ==
  ASSUME WholeInv, HandleFragment
  PROVE  LET f == Head(reading) IN
         /\ reading \in Seq(Fragment) /\ reading # <<>>
         /\ f \in ToSet(reading) /\ f \in Pending /\ reading' = Tail(reading)
         /\ UNCHANGED sendVars /\ UNCHANGED net /\ UNCHANGED faults
         /\ UNCHANGED popped /\ UNCHANGED packet /\ UNCHANGED offset
         /\ UNCHANGED accepted
         /\ Pending = Pending' \cup {f}
         /\ reading' \in Seq(Fragment)
         /\ BegunOK(Begun(f))
         /\ \/ /\ ~ Accepts(Begun(f), f)
               /\ state' = Cleared(Begun(f)) /\ got' = got
            \/ /\ Accepts(Begun(f), f) /\ f.off + f.size < f.total
               /\ state' = Filled(Begun(f), f) /\ got' = got
            \/ /\ Accepts(Begun(f), f) /\ f.off + f.size = f.total
               /\ state' = Cleared(Begun(f)) /\ got' = Append(got, f.msg)
<1> PICK f : f = Head(reading)
  OBVIOUS
<1> PICK rs : rs = Begun(f)
  OBVIOUS
<1>1. reading \in Seq(Fragment) /\ reading # <<>>
  BY DEF WholeInv, HandleFragment
<1>2. f \in ToSet(reading) /\ Tail(reading) \in Seq(Fragment)
      /\ ToSet(reading) = {f} \cup ToSet(Tail(reading))
  BY <1>1, TailFacts
<1>3. f \in Pending
  BY <1>2 DEF Pending
<1>4. /\ reading' = Tail(reading)
      /\ UNCHANGED sendVars /\ UNCHANGED net /\ UNCHANGED faults
      /\ UNCHANGED popped /\ UNCHANGED packet /\ UNCHANGED offset
      /\ UNCHANGED accepted
  BY DEF HandleFragment, sendVars
<1>5. Pending = Pending' \cup {f}
  BY <1>2, <1>4 DEF Pending
<1>6. BegunOK(rs)
  BY <1>3, BegunFacts
<1>7. \/ /\ ~ Accepts(rs, f)
         /\ state' = Cleared(rs) /\ got' = got
      \/ /\ Accepts(rs, f) /\ rs.off + f.size < Len(rs.buf)
         /\ state' = Filled(rs, f) /\ got' = got
      \/ /\ Accepts(rs, f) /\ rs.off + f.size = Len(rs.buf)
         /\ state' = Cleared(rs) /\ got' = Append(got, MessageIn(Filled(rs, f).buf))
  BY DEF HandleFragment
<1>8. Accepts(rs, f) => rs.off = f.off /\ Len(rs.buf) = f.total /\ f.id = rs.id
  BY DEF Accepts
<1>9. ASSUME Accepts(rs, f), f.off + f.size = f.total
      PROVE  MessageIn(Filled(rs, f).buf) = f.msg
  <2>1. /\ f \in Fragment /\ PieceOf(f)
        /\ f.msg \in Nat /\ f.msg >= 1 /\ f.msg <= popped
        /\ f.id \in Nat /\ f.off \in Nat /\ f.size \in Nat /\ f.total \in Nat
    BY <1>3, PendingFacts
  <2>2. rs \in [id : Nat, off : Nat, buf : Seq(Nat)]
    BY <1>6 DEF BegunOK
  <2> PICK b : b = Filled(rs, f).buf
    OBVIOUS
  <2>3. /\ b \in Seq(Nat) /\ Len(b) = Len(rs.buf)
        /\ \A i \in 1 .. Len(rs.buf) :
             b[i] = IF i \in f.off + 1 .. f.off + f.size THEN f.msg ELSE rs.buf[i]
    <3>1. Filled(rs, f) \in [id : Nat, off : Nat, buf : Seq(Nat)]
      BY <2>1, <2>2, FilledFacts
    <3>2. /\ Len(Filled(rs, f).buf) = Len(rs.buf)
          /\ \A i \in 1 .. Len(rs.buf) :
               Filled(rs, f).buf[i] = IF i \in f.off + 1 .. f.off + f.size
                                      THEN f.msg ELSE rs.buf[i]
      BY <2>1, <2>2, FilledFacts
    <3> QED
      BY <3>1, <3>2
  <2>4. f.id = f.msg - 1 /\ f.total = MessageSize[f.msg] /\ f.size >= 1
    BY <2>1 DEF PieceOf
  <2>5. rs.buf # <<>>
    BY <1>8, <1>9, <2>1, <2>4
  <2>6. \A i \in 1 .. f.off : rs.buf[i] = f.msg
    BY <1>6, <1>8, <1>9, <2>1, <2>4, <2>5 DEF BegunOK
  <2>7. \A i \in 1 .. Len(b) : b[i] = f.msg
    <3> SUFFICES ASSUME NEW i \in 1 .. Len(b) PROVE b[i] = f.msg
      OBVIOUS
    <3>1. i \in 1 .. f.total /\ b[i] = IF i \in f.off + 1 .. f.off + f.size
                                       THEN f.msg ELSE rs.buf[i]
      BY <1>8, <1>9, <2>3
    <3>2. CASE i <= f.off
      BY <3>1, <3>2, <2>1, <2>6
    <3>3. CASE ~ i <= f.off
      BY <3>1, <3>3, <2>1, <1>9
    <3> QED
      BY <3>2, <3>3
  <2>8. f.msg \in 1 .. Len(MessageSize) /\ Len(b) = MessageSize[f.msg]
    BY <1>8, <1>9, <2>1, <2>3, <2>4, NumberFacts, ConstantFacts
  <2> QED
    BY <2>3, <2>7, <2>8, MessageInFacts
<1>10. \/ /\ ~ Accepts(rs, f)
          /\ state' = Cleared(rs) /\ got' = got
       \/ /\ Accepts(rs, f) /\ f.off + f.size < f.total
          /\ state' = Filled(rs, f) /\ got' = got
       \/ /\ Accepts(rs, f) /\ f.off + f.size = f.total
          /\ state' = Cleared(rs) /\ got' = Append(got, f.msg)
  BY <1>7, <1>8, <1>9
<1> QED
  BY <1>1, <1>2, <1>3, <1>4, <1>5, <1>6, <1>10

LEMMA WholeHandleFragment == WholeInv /\ HandleFragment => WholeInv'
<1> SUFFICES ASSUME WholeInv, HandleFragment PROVE WholeInv'
  OBVIOUS
<1> PICK f : f = Head(reading)
  OBVIOUS
<1> PICK rs : rs = Begun(f)
  OBVIOUS
<1>1. /\ UNCHANGED sendVars /\ UNCHANGED net /\ UNCHANGED faults
      /\ UNCHANGED popped
      /\ f \in Pending /\ Pending = Pending' \cup {f}
      /\ reading' \in Seq(Fragment) /\ BegunOK(rs)
  BY HandleFragmentFacts
<1>2. \/ /\ ~ Accepts(rs, f)
         /\ state' = Cleared(rs) /\ got' = got
      \/ /\ Accepts(rs, f) /\ f.off + f.size < f.total
         /\ state' = Filled(rs, f) /\ got' = got
      \/ /\ Accepts(rs, f) /\ f.off + f.size = f.total
         /\ state' = Cleared(rs) /\ got' = Append(got, f.msg)
  BY HandleFragmentFacts
<1>3. /\ f \in Fragment /\ PieceOf(f)
      /\ f.msg \in Nat /\ f.msg >= 1 /\ f.msg <= popped
      /\ f.id \in Nat /\ f.off \in Nat /\ f.size \in Nat /\ f.total \in Nat
  BY <1>1, PendingFacts
<1>4. /\ rs \in [id : Nat, off : Nat, buf : Seq(Nat)]
      /\ rs.id \in 0 .. popped - 1 \/ rs = NoState
  BY <1>1 DEF BegunOK
<1>5. ASSUME state' = Cleared(rs)
      PROVE  StateOK'
  <2>1. /\ state' \in [id : Nat, off : Nat, buf : Seq(Nat)]
        /\ state'.id = rs.id /\ state'.off = 0 /\ state'.buf = <<>>
        /\ rs = NoState => state' = NoState
    BY <1>4, <1>5, ClearedFacts
  <2> QED
    BY <1>1, <1>4, <2>1 DEF StateOK
<1>6. ASSUME Accepts(rs, f), f.off + f.size < f.total, state' = Filled(rs, f)
      PROVE  StateOK'
  <2>1. rs.off = f.off /\ Len(rs.buf) = f.total /\ f.id = rs.id
    BY <1>6 DEF Accepts
  <2>2. /\ state' \in [id : Nat, off : Nat, buf : Seq(Nat)]
        /\ state'.id = rs.id /\ state'.off = rs.off + f.size
    BY <1>3, <1>4, <1>6, FilledFacts
  <2>3. /\ Len(state'.buf) = Len(rs.buf)
        /\ \A i \in 1 .. Len(rs.buf) :
             state'.buf[i] = IF i \in f.off + 1 .. f.off + f.size
                             THEN f.msg ELSE rs.buf[i]
    <3>1. /\ Len(Filled(rs, f).buf) = Len(rs.buf)
          /\ \A i \in 1 .. Len(rs.buf) :
               Filled(rs, f).buf[i] = IF i \in f.off + 1 .. f.off + f.size
                                      THEN f.msg ELSE rs.buf[i]
      BY <1>3, <1>4, FilledFacts
    <3> QED
      BY <3>1, <1>6
  <2>4. f.id = f.msg - 1 /\ f.total = MessageSize[f.msg] /\ f.size >= 1
    BY <1>3 DEF PieceOf
  <2>5. rs.buf # <<>> /\ state'.buf # <<>>
    <3>1. Len(rs.buf) > 0
      BY <1>3, <2>1, <1>6
    <3> QED
      BY <3>1, <2>3
  <2>6. \A i \in 1 .. rs.off : rs.buf[i] = f.msg
    BY <1>1, <1>3, <2>1, <2>4, <2>5 DEF BegunOK
  <2>7. ASSUME NEW i \in 1 .. state'.off
        PROVE  state'.buf[i] = f.msg
    <3>1. i \in 1 .. f.off + f.size /\ i \in 1 .. Len(rs.buf)
      BY <1>3, <1>6, <2>1, <2>2
    <3>2. CASE i <= f.off
      <4>1. i \in 1 .. rs.off /\ ~ i \in f.off + 1 .. f.off + f.size
        BY <3>1, <3>2, <2>1, <1>3
      <4> QED
        BY <3>1, <4>1, <2>3, <2>6
    <3>3. CASE ~ i <= f.off
      <4>1. i \in f.off + 1 .. f.off + f.size
        BY <3>1, <3>3, <1>3
      <4> QED
        BY <3>1, <4>1, <2>3
    <3> QED
      BY <3>2, <3>3
  <2>8. state'.id + 1 = f.msg /\ state'.id \in 0 .. popped - 1 /\ f.msg \in 1 .. popped
    <3>1. state'.id = f.msg - 1 /\ popped \in Nat
      BY <2>1, <2>2, <2>4, NumberFacts
    <3> QED
      BY <3>1, <1>3
  <2>9. Len(state'.buf) = MessageSize[f.msg] /\ state'.off \in 1 .. Len(state'.buf) - 1
    BY <2>1, <2>2, <2>3, <2>4, <1>3, <1>6
  <2> QED
    BY <1>1, <2>2, <2>5, <2>7, <2>8, <2>9 DEF StateOK
<1>7. StateOK'
  BY <1>2, <1>5, <1>6
<1>8. GotOK'
  <2>1. got \in Seq(Nat) /\ \A i \in 1 .. Len(got) : got[i] \in 1 .. popped
    BY DEF WholeInv, GotOK
  <2>2. CASE got' = got
    BY <2>1, <2>2, <1>1 DEF GotOK
  <2>3. CASE got' = Append(got, f.msg)
    <3>1. f.msg \in 1 .. popped
      BY <1>3, NumberFacts
    <3> QED
      BY <2>1, <2>3, <1>1, <1>3, <3>1 DEF GotOK
  <2> QED
    BY <1>2, <2>2, <2>3
<1>9. net' \in Seq(Seq(Fragment))
  BY <1>1 DEF WholeInv
<1> QED
  BY <1>1, <1>7, <1>8, <1>9, WholeReceiverFrame

(* The actions that leave all fragments where they are                     *)
Elsewhere ==
  /\ accepted' \in 0 .. Len(MessageSize) /\ accepted' >= accepted
  /\ inOutput' \in BOOLEAN
  /\ UNCHANGED <<popped, offset, nextId, packet, packetSize, recvVars, net,
                 faults>>

LEMMA ElsewhereFacts ==
  WholeInv /\ (AddOutgoingMessage \/ DoOutput \/ OutputEnds \/ UNCHANGED vars)
    => Elsewhere
<1> SUFFICES ASSUME WholeInv,
                    AddOutgoingMessage \/ DoOutput \/ OutputEnds \/ UNCHANGED vars
             PROVE  Elsewhere
  OBVIOUS
<1>1. /\ accepted \in Nat /\ accepted <= Len(MessageSize)
      /\ accepted \in 0 .. Len(MessageSize) /\ Len(MessageSize) \in Nat
  BY NumberFacts, ConstantFacts
<1>2. inOutput \in BOOLEAN
  BY DEF WholeInv, TunnelTypeOK
<1>3. CASE AddOutgoingMessage
  <2>1. accepted' = accepted + 1 /\ accepted < Len(MessageSize) /\ inOutput' = inOutput
        /\ UNCHANGED <<popped, offset, nextId, packet, packetSize, recvVars, net, faults>>
    BY <1>3 DEF AddOutgoingMessage
  <2> QED
    BY <2>1, <1>1, <1>2 DEF Elsewhere
<1>4. CASE DoOutput
  <2>1. accepted' = accepted /\ inOutput' = TRUE
        /\ UNCHANGED <<popped, offset, nextId, packet, packetSize, recvVars, net, faults>>
    BY <1>4 DEF DoOutput
  <2>2. inOutput' \in BOOLEAN
    BY <2>1
  <2> QED
    BY <2>1, <2>2, <1>1 DEF Elsewhere
<1>5. CASE OutputEnds
  <2>1. accepted' = accepted /\ inOutput' = FALSE
        /\ UNCHANGED <<popped, offset, nextId, packet, packetSize, recvVars, net, faults>>
    BY <1>5 DEF OutputEnds
  <2>2. inOutput' \in BOOLEAN
    BY <2>1
  <2> QED
    BY <2>1, <2>2, <1>1 DEF Elsewhere
<1>6. CASE UNCHANGED vars
  <2>1. accepted' = accepted /\ inOutput' = inOutput
        /\ UNCHANGED <<popped, offset, nextId, packet, packetSize, recvVars, net, faults>>
    BY <1>6 DEF vars, sendVars, recvVars
  <2> QED
    BY <2>1, <1>1, <1>2 DEF Elsewhere
<1> QED
  BY <1>3, <1>4, <1>5, <1>6

LEMMA WholeNext == WholeInv /\ [Next]_vars => WholeInv'
<1> SUFFICES ASSUME WholeInv, [Next]_vars PROVE WholeInv'
  OBVIOUS
<1>1. Elsewhere => WholeInv'
  BY WholeFrame DEF Elsewhere
<1>2. CASE AddOutgoingMessage \/ DoOutput \/ OutputEnds \/ UNCHANGED vars
  BY <1>1, <1>2, ElsewhereFacts
<1>3. CASE AddFragment
  BY <1>3, WholeAddFragment
<1>4. CASE \E more \in BOOLEAN : WritePacket(more)
  BY <1>4, WholeWritePacket
<1>5. CASE HandleFragment
  BY <1>5, WholeHandleFragment
<1>6. CASE CrowdOut
  BY <1>6, WholeCrowdOut
<1>7. ASSUME NEW i, DoInput(i) \/ Lose(i) \/ Duplicate(i)
      PROVE  WholeInv'
  BY <1>7, WholeDoInput, WholeLose, WholeDuplicate
<1> QED
  BY <1>2, <1>3, <1>4, <1>5, <1>6, <1>7 DEF Next, SenderSteps

-----------------------------------------------------------------------------
(***************************************************************************)
(* Second layer: over a kind network everything stays in its order.        *)
(***************************************************************************)

(* The parts of Pending                                                    *)
LEMMA PendingParts ==
  /\ ToSet(reading) \subseteq Pending /\ ToSet(packet) \subseteq Pending
  /\ FragmentsIn(net) \subseteq Pending
  /\ \A a \in DOMAIN net : ToSet(net[a]) \subseteq FragmentsIn(net)
BY FragmentsInFacts DEF Pending

LEMMA OrderInit == Init => InOrder
<1> SUFFICES ASSUME Init PROVE InOrder
  OBVIOUS
<1> USE DEF Init
<1>1. ToSet(<<>>) = {} /\ FragmentsIn(<<>>) = {}
  BY DEF ToSet, FragmentsIn
<1>2. Pending = {}
  BY <1>1 DEF Pending
<1> QED
  BY <1>1, <1>2 DEF InOrder, Sorted, AllBefore

LEMMA OrderFrame ==
  ASSUME InOrder,
         UNCHANGED <<popped, offset, packet, reading, got, net>>
  PROVE  InOrder'
<1>1. /\ UNCHANGED popped /\ UNCHANGED offset /\ UNCHANGED packet
      /\ UNCHANGED reading /\ UNCHANGED got /\ UNCHANGED net
  OBVIOUS
<1>2. Pending' = Pending /\ SendMsg' = SendMsg
  BY <1>1 DEF Pending, SendMsg
<1> QED
  BY <1>1, <1>2 DEF InOrder

(* The fragment that is added comes after all that are pending.            *)
LEMMA NewestLast ==
  ASSUME WholeInv, InOrder, AddFragment, NEW f \in Pending
  PROVE  Before(f, NewFragment)
<1>1. NewFragment.msg = SendMsg /\ NewFragment.off = offset
  BY AddFragmentFacts
<1>2. f.msg \in Nat /\ f.msg <= popped /\ f.off \in Nat /\ f.size \in Nat
      /\ popped \in Nat /\ offset \in Nat
  BY PendingFacts, NumberFacts
<1>3. f.msg < popped \/ offset = NoBuffer \/ f.off + f.size <= offset
  BY DEF InOrder
<1> QED
  BY <1>1, <1>2, <1>3 DEF Before, SendMsg

LEMMA OrderAddFragment ==
  ASSUME WholeInv, InOrder, AddFragment
  PROVE  InOrder'
<1> PICK g : g = NewFragment
  OBVIOUS
<1> PICK m : m = SendMsg
  OBVIOUS
<1>1. /\ g.msg = m /\ g.off = offset /\ g.size >= 1
      /\ g \in Fragment /\ popped' = m /\ packet' = Append(packet, g)
      /\ m \in 1 .. accepted
  BY AddFragmentFacts
<1>2. UNCHANGED reading /\ UNCHANGED got /\ UNCHANGED net
  BY AddFragmentFacts
<1>3. offset' = IF g.off + g.size = g.total THEN 0 ELSE g.off + g.size
  BY AddFragmentFacts DEF EndOff
<1>4. /\ popped \in Nat /\ offset \in Nat /\ g.size \in Nat /\ g.off \in Nat
      /\ g.total \in Nat /\ accepted \in Nat /\ m \in Nat
      /\ m = IF offset = 0 THEN popped + 1 ELSE popped
  BY <1>1, NumberFacts DEF Fragment, SendMsg, NoBuffer
<1>5. packet \in Seq(Fragment)
  BY DEF WholeInv
<1>6. /\ Len(packet) \in Nat /\ DOMAIN packet = 1 .. Len(packet)
      /\ DOMAIN packet' = 1 .. Len(packet) + 1
      /\ \A j \in 1 .. Len(packet) + 1 :
           packet'[j] = IF j = Len(packet) + 1 THEN g ELSE packet[j]
      /\ ToSet(packet') = ToSet(packet) \cup {g}
  BY <1>1, <1>5, AppendFacts
<1>7. Pending' = Pending \cup {g}
  BY <1>2, <1>6 DEF Pending
<1>8. ASSUME NEW f \in Pending
      PROVE  Before(f, g)
  BY NewestLast
<1>9. Sorted(packet')
  <2> SUFFICES ASSUME NEW i \in DOMAIN packet', NEW j \in DOMAIN packet', i < j
               PROVE  Before(packet'[i], packet'[j])
    BY DEF Sorted
  <2>1. i \in DOMAIN packet /\ packet'[i] = packet[i] /\ packet[i] \in Pending
    <3>1. i \in DOMAIN packet /\ packet'[i] = packet[i]
      BY <1>6
    <3>2. packet[i] \in ToSet(packet)
      BY <3>1 DEF ToSet
    <3> QED
      BY <3>1, <3>2, PendingParts
  <2>2. CASE j = Len(packet) + 1
    BY <2>1, <2>2, <1>6, <1>8
  <2>3. CASE j # Len(packet) + 1
    <3>1. j \in DOMAIN packet /\ packet'[j] = packet[j]
      BY <2>3, <1>6
    <3> QED
      BY <2>1, <3>1 DEF InOrder, Sorted
  <2> QED
    BY <2>2, <2>3
<1>10. /\ AllBefore(ToSet(reading), ToSet(packet'))
       /\ AllBefore(FragmentsIn(net), ToSet(packet'))
  BY <1>6, <1>8, PendingParts DEF InOrder, AllBefore
<1>11. got # <<>> => g.msg > got[Len(got)]
  BY <1>1, <1>4 DEF InOrder
<1>12. ASSUME got # <<>>
       PROVE  got[Len(got)] < SendMsg'
  <2>1. got[Len(got)] < m
    BY <1>12 DEF InOrder
  <2>2. SendMsg' >= m /\ SendMsg' \in Nat
    BY <1>1, <1>4 DEF SendMsg
  <2>3. got[Len(got)] \in Nat
    <3>1. got \in Seq(Nat)
      BY DEF WholeInv, GotOK
    <3> QED
      BY <3>1, <1>12
  <2> QED
    BY <2>1, <2>2, <2>3, <1>4
<1>13. ASSUME NEW f \in Pending'
       PROVE  f.msg < popped' \/ offset' = NoBuffer \/ f.off + f.size <= offset'
  <2>1. CASE f = g
    BY <2>1, <1>3 DEF NoBuffer
  <2>2. CASE f \in Pending
    <3>1. f.msg \in Nat /\ f.msg <= popped /\ f.off \in Nat /\ f.size \in Nat
      BY <2>2, PendingFacts
    <3>2. f.msg < popped \/ offset = 0 \/ f.off + f.size <= offset
      BY <2>2 DEF InOrder, NoBuffer
    <3> QED
      BY <3>1, <3>2, <1>1, <1>3, <1>4 DEF NoBuffer
  <2> QED
    BY <2>1, <2>2, <1>7
<1>14. /\ Sorted(reading) /\ AllBefore(ToSet(reading), FragmentsIn(net))
       /\ \A a \in DOMAIN net : Sorted(net[a])
       /\ \A a, b \in DOMAIN net : a < b => AllBefore(ToSet(net[a]), ToSet(net[b]))
       /\ \A f \in Pending : got # <<>> => f.msg > got[Len(got)]
  BY DEF InOrder
<1> QED
  BY <1>2, <1>7, <1>9, <1>10, <1>11, <1>12, <1>13, <1>14 DEF InOrder

LEMMA OrderWritePacket ==
  ASSUME NEW more \in BOOLEAN, WholeInv, InOrder, WritePacket(more)
  PROVE  InOrder'
<1>1. /\ UNCHANGED popped /\ UNCHANGED offset /\ UNCHANGED reading /\ UNCHANGED got
      /\ net' = Append(net, packet) /\ packet' = <<>>
  BY DEF WritePacket, recvVars
<1>2. Pending' = Pending /\ SendMsg' = SendMsg
  BY <1>1, WholeWritePacket DEF SendMsg
<1>3. net \in Seq(Seq(Fragment)) /\ packet \in Seq(Fragment)
  BY DEF WholeInv
<1>4. /\ Len(net) \in Nat /\ DOMAIN net = 1 .. Len(net)
      /\ DOMAIN net' = 1 .. Len(net) + 1
      /\ \A j \in 1 .. Len(net) + 1 :
           net'[j] = IF j = Len(net) + 1 THEN packet ELSE net[j]
  BY <1>1, <1>3, AppendFacts
<1>5. FragmentsIn(net') = FragmentsIn(net) \cup ToSet(packet)
  BY <1>1, <1>3, FragmentsAppended
<1>6. ToSet(packet') = {} /\ Sorted(packet')
  BY <1>1 DEF ToSet, Sorted
<1>7. \A a \in DOMAIN net' : Sorted(net'[a])
  BY <1>4 DEF InOrder
<1>8. ASSUME NEW a \in DOMAIN net', NEW b \in DOMAIN net', a < b
      PROVE  AllBefore(ToSet(net'[a]), ToSet(net'[b]))
  <2>1. a \in DOMAIN net /\ net'[a] = net[a] /\ ToSet(net[a]) \subseteq FragmentsIn(net)
    BY <1>4, <1>8, PendingParts
  <2>2. CASE b = Len(net) + 1
    <3>1. net'[b] = packet
      BY <2>2, <1>4
    <3> QED
      BY <2>1, <3>1 DEF InOrder, AllBefore
  <2>3. CASE b # Len(net) + 1
    <3>1. b \in DOMAIN net /\ net'[b] = net[b]
      BY <2>3, <1>4
    <3> QED
      BY <2>1, <3>1, <1>8 DEF InOrder
  <2> QED
    BY <2>2, <2>3
<1>9. /\ AllBefore(ToSet(reading), FragmentsIn(net'))
      /\ AllBefore(ToSet(reading), ToSet(packet'))
      /\ AllBefore(FragmentsIn(net'), ToSet(packet'))
  BY <1>5, <1>6 DEF InOrder, AllBefore
<1> QED
  BY <1>1, <1>2, <1>6, <1>7, <1>8, <1>9 DEF InOrder

(* Taking a packet out of the network leaves the others in their order.    *)
LEMMA OrderRemoved ==
  ASSUME WholeInv, InOrder, NEW i \in DOMAIN net, net' = RemoveAt(net, i)
  PROVE  /\ \A a \in DOMAIN net' : Sorted(net'[a])
         /\ \A a, b \in DOMAIN net' :
              a < b => AllBefore(ToSet(net'[a]), ToSet(net'[b]))
         /\ FragmentsIn(net') \subseteq FragmentsIn(net)
<1> DEFINE old(j) == IF j < i THEN j ELSE j + 1
<1>1. net \in Seq(Seq(Fragment))
  BY DEF WholeInv
<1>2. /\ DOMAIN net' = 1 .. Len(net) - 1 /\ DOMAIN net = 1 .. Len(net)
      /\ Len(net) \in Nat /\ i \in 1 .. Len(net)
      /\ \A j \in 1 .. Len(net) - 1 : net'[j] = net[old(j)]
  <2>1. /\ DOMAIN net' = 1 .. Len(net) - 1
        /\ \A j \in 1 .. Len(net) - 1 : net'[j] = net[IF j < i THEN j ELSE j + 1]
    BY <1>1, RemoveAtFacts
  <2>2. DOMAIN net = 1 .. Len(net) /\ Len(net) \in Nat
    BY <1>1
  <2> QED
    BY <2>1, <2>2, Zenon
<1>3. \A j \in DOMAIN net' : old(j) \in DOMAIN net /\ net'[j] = net[old(j)]
  BY <1>2
<1>4. \A a, b \in DOMAIN net' : a < b => old(a) < old(b)
  BY <1>2
<1> HIDE DEF old
<1>5. FragmentsIn(net') \subseteq FragmentsIn(net)
  BY <1>1, FragmentsRemoved
<1> QED
  BY <1>3, <1>4, <1>5 DEF InOrder

LEMMA OrderLose ==
  ASSUME NEW i, WholeInv, InOrder, Lose(i)
  PROVE  InOrder'
<1>1. /\ UNCHANGED popped /\ UNCHANGED offset /\ UNCHANGED reading /\ UNCHANGED got
      /\ UNCHANGED packet /\ i \in DOMAIN net /\ net' = RemoveAt(net, i)
  BY DEF Lose, recvVars, sendVars
<1>2. Pending' \subseteq Pending /\ SendMsg' = SendMsg
  BY <1>1, WholeLose DEF SendMsg
<1>3. /\ \A a \in DOMAIN net' : Sorted(net'[a])
      /\ \A a, b \in DOMAIN net' :
           a < b => AllBefore(ToSet(net'[a]), ToSet(net'[b]))
      /\ FragmentsIn(net') \subseteq FragmentsIn(net)
  BY <1>1, OrderRemoved
<1>4. /\ AllBefore(ToSet(reading), FragmentsIn(net'))
      /\ AllBefore(FragmentsIn(net'), ToSet(packet))
  BY <1>3 DEF InOrder, AllBefore
<1> QED
  BY <1>1, <1>2, <1>3, <1>4 DEF InOrder

LEMMA OrderDoInput ==
  ASSUME NEW i, WholeInv, InOrder, Kind, DoInput(i)
  PROVE  InOrder'
<1>1. /\ UNCHANGED popped /\ UNCHANGED offset /\ UNCHANGED got
      /\ UNCHANGED packet /\ i \in DOMAIN net /\ net' = RemoveAt(net, i)
      /\ reading' = net[i]
  BY DEF DoInput, sendVars
<1>2. i = 1
  BY DEF DoInput, Kind
<1>3. Pending' = Pending /\ SendMsg' = SendMsg
  BY <1>1, WholeDoInput DEF SendMsg
<1>4. /\ \A a \in DOMAIN net' : Sorted(net'[a])
      /\ \A a, b \in DOMAIN net' :
           a < b => AllBefore(ToSet(net'[a]), ToSet(net'[b]))
      /\ FragmentsIn(net') \subseteq FragmentsIn(net)
  BY <1>1, OrderRemoved
<1>5. AllBefore(ToSet(net[1]), FragmentsIn(net'))
  <2> SUFFICES ASSUME NEW f \in ToSet(net[1]), NEW a \in DOMAIN net',
                      NEW g \in ToSet(net'[a])
               PROVE  Before(f, g)
    BY FragmentsInFacts DEF AllBefore
  <2>1. net \in Seq(Seq(Fragment))
    BY DEF WholeInv
  <2>2. a + 1 \in DOMAIN net /\ net'[a] = net[a + 1] /\ 1 < a + 1
    <3>1. /\ DOMAIN net' = 1 .. Len(net) - 1
          /\ \A j \in 1 .. Len(net) - 1 : net'[j] = net[IF j < i THEN j ELSE j + 1]
      BY <2>1, <1>1, RemoveAtFacts
    <3>2. a \in 1 .. Len(net) - 1 /\ Len(net) \in Nat /\ DOMAIN net = 1 .. Len(net)
      BY <3>1, <2>1
    <3>3. ~ a < i /\ a + 1 \in 1 .. Len(net) /\ 1 < a + 1
      BY <3>2, <1>2
    <3>4. net'[a] = net[a + 1]
      BY <3>1, <3>2, <3>3
    <3> QED
      BY <3>2, <3>3, <3>4
  <2> QED
    BY <2>2, <1>1, <1>2 DEF InOrder, AllBefore
<1>6. /\ AllBefore(FragmentsIn(net'), ToSet(packet))
      /\ AllBefore(ToSet(net[1]), ToSet(packet)) /\ Sorted(net[1])
  BY <1>1, <1>2, <1>4, PendingParts DEF InOrder, AllBefore
<1> QED
  BY <1>1, <1>2, <1>3, <1>4, <1>5, <1>6 DEF InOrder

(* The fragment that is handled was sent before any other pending one.     *)
LEMMA HeadFirst ==
  ASSUME WholeInv, InOrder, HandleFragment, NEW g \in Pending'
  PROVE  Before(Head(reading), g)
<1>1. /\ reading \in Seq(Fragment) /\ reading # <<>>
      /\ reading' = Tail(reading) /\ UNCHANGED net /\ UNCHANGED packet
      /\ Head(reading) \in ToSet(reading)
  BY HandleFragmentFacts
<1>2. CASE g \in ToSet(Tail(reading))
  <2>1. PICK j \in DOMAIN Tail(reading) : g = Tail(reading)[j]
    BY <1>2 DEF ToSet
  <2>2. /\ j + 1 \in DOMAIN reading /\ g = reading[j + 1] /\ 1 \in DOMAIN reading
        /\ Head(reading) = reading[1] /\ 1 < j + 1
    BY <2>1, <1>1, TailFacts
  <2>3. Sorted(reading)
    BY DEF InOrder
  <2>4. Before(reading[1], reading[j + 1])
    BY <2>2, <2>3 DEF Sorted
  <2> QED
    BY <2>2, <2>4
<1>3. CASE g \in FragmentsIn(net) \cup ToSet(packet)
  BY <1>1, <1>3 DEF InOrder, AllBefore
<1> QED
  BY <1>1, <1>2, <1>3 DEF Pending

LEMMA OrderHandleFragment ==
  ASSUME WholeInv, InOrder, HandleFragment
  PROVE  InOrder'
<1> PICK f : f = Head(reading)
  OBVIOUS
<1>1. /\ reading \in Seq(Fragment) /\ reading # <<>>
      /\ reading' = Tail(reading) /\ UNCHANGED net /\ UNCHANGED packet
      /\ UNCHANGED popped /\ UNCHANGED offset
      /\ f \in Pending /\ Pending = Pending' \cup {f}
  BY HandleFragmentFacts
<1>2. got' = got \/ (got' = Append(got, f.msg) /\ f.off + f.size = f.total)
  BY HandleFragmentFacts
<1>3. /\ DOMAIN reading = 1 .. Len(reading) /\ Len(reading) \in Nat
      /\ DOMAIN reading' = 1 .. Len(reading) - 1
      /\ \A j \in 1 .. Len(reading) - 1 : reading'[j] = reading[j + 1]
      /\ ToSet(reading') \subseteq ToSet(reading)
  BY <1>1, TailFacts
<1>4. Sorted(reading')
  <2> SUFFICES ASSUME NEW i \in DOMAIN reading', NEW j \in DOMAIN reading', i < j
               PROVE  Before(reading'[i], reading'[j])
    BY DEF Sorted
  <2>1. /\ i + 1 \in DOMAIN reading /\ j + 1 \in DOMAIN reading /\ i + 1 < j + 1
        /\ reading'[i] = reading[i + 1] /\ reading'[j] = reading[j + 1]
    BY <1>3
  <2>2. Sorted(reading)
    BY DEF InOrder
  <2>3. Before(reading[i + 1], reading[j + 1])
    BY <2>1, <2>2 DEF Sorted
  <2> QED
    BY <2>1, <2>3
<1>5. /\ AllBefore(ToSet(reading'), FragmentsIn(net))
      /\ AllBefore(ToSet(reading'), ToSet(packet))
  BY <1>3 DEF InOrder, AllBefore
<1>6. SendMsg' = SendMsg
  BY <1>1 DEF SendMsg
<1>7. /\ f.msg \in Nat /\ f.msg <= popped /\ f.off \in Nat /\ f.size \in Nat
      /\ f.total = MessageSize[f.msg] /\ popped \in Nat
  BY <1>1, PendingFacts, NumberFacts DEF PieceOf
<1>8. ASSUME f.off + f.size = f.total
      PROVE  f.msg < SendMsg
  <2>1. f.msg < popped \/ offset = NoBuffer \/ f.off + f.size <= offset
    BY <1>1 DEF InOrder
  <2>2. offset = NoBuffer \/ offset \in 1 .. MessageSize[popped] - 1
    BY DEF WholeInv, TunnelTypeOK
  <2>3. CASE offset = NoBuffer
    BY <2>3, <1>7 DEF SendMsg
  <2>4. CASE offset # NoBuffer
    <3>1. SendMsg = popped
      BY <2>4 DEF SendMsg
    <3>2. f.msg # popped
      BY <2>1, <2>2, <2>4, <1>7, <1>8
    <3> QED
      BY <3>1, <3>2, <1>7
  <2> QED
    BY <2>3, <2>4
<1>9. ASSUME f.off + f.size = f.total, NEW g \in Pending'
      PROVE  g.msg > f.msg
  <2>1. /\ g.msg \in Nat /\ g.off \in Nat /\ g.size \in Nat /\ g.size >= 1
        /\ g.total = MessageSize[g.msg] /\ g.off + g.size <= g.total
    BY <1>1, PendingFacts DEF PieceOf
  <2>2. Before(f, g)
    BY HeadFirst
  <2> QED
    BY <2>1, <2>2, <1>7, <1>9 DEF Before
<1>10. /\ got' # <<>> => got'[Len(got')] < SendMsg
       /\ \A g \in Pending' : got' # <<>> => g.msg > got'[Len(got')]
  <2>1. CASE got' = got
    BY <2>1, <1>1 DEF InOrder
  <2>2. CASE got' = Append(got, f.msg) /\ f.off + f.size = f.total
    <3>1. got \in Seq(Nat)
      BY DEF WholeInv, GotOK
    <3>2. got'[Len(got')] = f.msg
      BY <3>1, <2>2
    <3> QED
      BY <3>2, <2>2, <1>8, <1>9
  <2> QED
    BY <1>2, <2>1, <2>2
<1>11. \A g \in Pending' :
         g.msg < popped \/ offset = NoBuffer \/ g.off + g.size <= offset
  BY <1>1 DEF InOrder
<1> QED
  BY <1>1, <1>4, <1>5, <1>6, <1>10, <1>11 DEF InOrder

LEMMA OrderNext ==
  ASSUME WholeInv, [Next]_vars, Kind => InOrder
  PROVE  Kind' => InOrder'
<1>1. UNCHANGED faults /\ (Kind' <=> Kind)
  <2>1. UNCHANGED faults
    BY DEF Next, SenderSteps, AddOutgoingMessage, AddFragment, OutputEnds,
           DoOutput, WritePacket, HandleFragment, CrowdOut, DoInput, Lose,
           Duplicate, vars
  <2> QED
    BY <2>1 DEF Kind
<1> SUFFICES ASSUME Kind PROVE InOrder'
  BY <1>1
<1>2. InOrder
  OBVIOUS
<1>3. CASE AddOutgoingMessage \/ DoOutput \/ OutputEnds \/ UNCHANGED vars
  <2>1. UNCHANGED <<popped, offset, packet, reading, got, net>>
    BY <1>3, ElsewhereFacts DEF Elsewhere, recvVars
  <2> QED
    BY <1>2, <2>1, OrderFrame
<1>4. CASE AddFragment
  BY <1>2, <1>4, OrderAddFragment
<1>5. CASE \E more \in BOOLEAN : WritePacket(more)
  BY <1>2, <1>5, OrderWritePacket
<1>6. CASE HandleFragment
  BY <1>2, <1>6, OrderHandleFragment
<1>7. CASE CrowdOut
  <2>1. UNCHANGED <<popped, offset, packet, reading, got, net>>
    BY <1>7 DEF CrowdOut, sendVars
  <2> QED
    BY <1>2, <2>1, OrderFrame
<1>8. ASSUME NEW i, DoInput(i) \/ Lose(i) \/ Duplicate(i)
      PROVE  InOrder'
  <2>1. ~ Duplicate(i)
    BY DEF Duplicate, Fault, Kind
  <2> QED
    BY <1>2, <1>8, <2>1, OrderDoInput, OrderLose
<1> QED
  BY <1>3, <1>4, <1>5, <1>6, <1>7, <1>8 DEF Next, SenderSteps

-----------------------------------------------------------------------------
(***************************************************************************)
(* Third layer: without faults nothing is missing between the place that   *)
(* the receiver awaits and the place where the sender goes on.             *)
(***************************************************************************)

LEMMA GapInit == Init => NoGap
<1> SUFFICES ASSUME Init PROVE NoGap
  OBVIOUS
<1> USE DEF Init
<1>1. ToSet(<<>>) = {} /\ FragmentsIn(<<>>) = {}
  BY DEF ToSet, FragmentsIn
<1>2. Pending = {}
  BY <1>1 DEF Pending
<1>3. Len(got) = 0 /\ SendMsg = 1 /\ state.off = offset /\ 1 .. 0 = {}
  BY DEF SendMsg, NoState, NoBuffer
<1>4. Reached(Len(got) + 1, state.off)
  BY <1>3 DEF Reached
<1> QED
  BY <1>2, <1>3, <1>4 DEF NoGap

LEMMA GapFrame ==
  ASSUME NoGap, Pending' = Pending,
         UNCHANGED <<popped, offset, state, got>>
  PROVE  NoGap'
<1>1. UNCHANGED popped /\ UNCHANGED offset /\ UNCHANGED state /\ UNCHANGED got
  OBVIOUS
<1>2. SendMsg' = SendMsg
  BY <1>1 DEF SendMsg
<1>3. ASSUME NEW m, NEW o
      PROVE  Reached(m, o) => Reached(m, o)'
  BY <1>1, <1>2 DEF Reached
<1>4. Reached(Len(got) + 1, state.off) => Reached(Len(got) + 1, state.off)'
  BY <1>1, <1>3
<1>5. \A f \in Pending' : Reached(EndMsg(f), EndOff(f))'
  <2> SUFFICES ASSUME NEW f \in Pending PROVE Reached(EndMsg(f), EndOff(f))'
    OBVIOUS
  <2>1. Reached(EndMsg(f), EndOff(f))
    BY DEF NoGap
  <2> QED
    BY <2>1, <1>3 DEF EndMsg, EndOff
<1> QED
  BY <1>1, <1>4, <1>5 DEF NoGap

LEMMA GapAddFragment ==
  ASSUME WholeInv, InOrder, NoGap, AddFragment
  PROVE  NoGap'
<1> PICK g : g = NewFragment
  OBVIOUS
<1>1. /\ g.msg = SendMsg /\ g.off = offset /\ g.size >= 1
      /\ g \in Fragment /\ popped' = SendMsg /\ packet' = Append(packet, g)
      /\ offset' = EndOff(g)
  BY AddFragmentFacts
<1>2. UNCHANGED reading /\ UNCHANGED got /\ UNCHANGED net /\ UNCHANGED state
  BY AddFragmentFacts
<1>3. Pending' = Pending \cup {g}
  <2>1. packet \in Seq(Fragment)
    BY DEF WholeInv
  <2>2. ToSet(packet') = ToSet(packet) \cup {g}
    BY <2>1, <1>1, AppendFacts
  <2> QED
    BY <2>2, <1>2 DEF Pending
<1>4. /\ g.size \in Nat /\ g.off \in Nat /\ g.total \in Nat /\ g.msg \in Nat
  BY <1>1 DEF Fragment
<1>5. SendMsg' = EndMsg(g) /\ offset' = EndOff(g)
  BY <1>1, <1>4 DEF SendMsg, EndMsg, EndOff, NoBuffer
<1>6. ASSUME NEW m, NEW o, Reached(m, o)
      PROVE  Reached(m, o)'
  <2>1. CASE m = SendMsg /\ o = offset
    BY <2>1, <1>1, <1>3 DEF Reached
  <2>2. CASE \E f \in Pending : f.msg = m /\ f.off = o
    BY <2>2, <1>3 DEF Reached
  <2> QED
    BY <2>1, <2>2, <1>6 DEF Reached
<1>7. Reached(Len(got) + 1, state.off)'
  <2>1. Reached(Len(got) + 1, state.off)
    BY DEF NoGap
  <2> QED
    BY <2>1, <1>2, <1>6
<1>8. ASSUME NEW f \in Pending'
      PROVE  Reached(EndMsg(f), EndOff(f))'
  <2>1. CASE f = g
    BY <2>1, <1>5 DEF Reached, EndMsg, EndOff
  <2>2. CASE f \in Pending
    <3>1. Reached(EndMsg(f), EndOff(f))
      BY <2>2 DEF NoGap
    <3> QED
      BY <3>1, <1>6 DEF EndMsg, EndOff
  <2> QED
    BY <2>1, <2>2, <1>3
<1>9. g.msg > Len(got) + 1 \/ (g.msg = Len(got) + 1 /\ g.off >= state.off)
  <2>0. got \in Seq(Nat) /\ Len(got) \in Nat /\ state.off \in Nat
    BY DEF WholeInv, GotOK, StateOK
  <2>1. CASE Len(got) + 1 = SendMsg /\ state.off = offset
    BY <2>0, <2>1, <1>1, <1>4
  <2>2. CASE \E f \in Pending : f.msg = Len(got) + 1 /\ f.off = state.off
    <3>1. PICK f \in Pending : f.msg = Len(got) + 1 /\ f.off = state.off
      BY <2>2
    <3>2. Before(f, g)
      BY NewestLast
    <3>3. f.size \in Nat /\ f.off \in Nat /\ f.msg \in Nat
      BY PendingFacts
    <3> QED
      BY <3>1, <3>2, <3>3, <2>0, <1>4 DEF Before
  <2> QED
    BY <2>1, <2>2 DEF NoGap, Reached
<1> QED
  BY <1>2, <1>3, <1>7, <1>8, <1>9 DEF NoGap

(* Without faults the fragment that is handled is the one awaited.         *)
LEMMA Awaited ==
  ASSUME WholeInv, InOrder, NoGap, HandleFragment
  PROVE  Head(reading).msg = Len(got) + 1 /\ Head(reading).off = state.off
<1> PICK f : f = Head(reading)
  OBVIOUS
<1>1. f \in Pending /\ Pending = Pending' \cup {f}
  BY HandleFragmentFacts
<1>2. /\ f.msg \in Nat /\ f.msg <= popped /\ f.off \in Nat /\ f.size \in Nat
      /\ f.size >= 1 /\ popped \in Nat /\ offset \in Nat
  BY <1>1, PendingFacts, NumberFacts DEF PieceOf
<1>3. got \in Seq(Nat) /\ Len(got) \in Nat /\ state.off \in Nat
  BY DEF WholeInv, GotOK, StateOK
<1>4. f.msg > Len(got) + 1 \/ (f.msg = Len(got) + 1 /\ f.off >= state.off)
  BY <1>1 DEF NoGap
<1>5. f.msg < popped \/ offset = NoBuffer \/ f.off + f.size <= offset
  BY <1>1 DEF InOrder
<1>6. ~ (Len(got) + 1 = SendMsg /\ state.off = offset)
  BY <1>2, <1>3, <1>4, <1>5 DEF SendMsg
<1>7. PICK h \in Pending : h.msg = Len(got) + 1 /\ h.off = state.off
  BY <1>6 DEF NoGap, Reached
<1>8. CASE h = f
  BY <1>7, <1>8
<1>9. CASE h \in Pending'
  <2>1. Before(f, h)
    BY <1>9, HeadFirst
  <2> QED
    BY <2>1, <1>2, <1>3, <1>4, <1>7 DEF Before
<1> QED
  BY <1>1, <1>8, <1>9

(* ... and it is accepted.                                                 *)
LEMMA AwaitedAccepted ==
  ASSUME WholeInv, InOrder, NoGap, HandleFragment
  PROVE  Accepts(Begun(Head(reading)), Head(reading))
<1> PICK f : f = Head(reading)
  OBVIOUS
<1>1. f \in Pending /\ f.msg = Len(got) + 1 /\ f.off = state.off
  BY HandleFragmentFacts, Awaited
<1>2. /\ f.msg \in Nat /\ f.msg <= popped /\ f.off \in Nat /\ f.size \in Nat
      /\ f.id \in Nat /\ f.total \in Nat /\ popped \in Nat
      /\ popped <= Len(MessageSize)
      /\ f.size >= 1 /\ f.id = f.msg - 1 /\ f.total = MessageSize[f.msg]
      /\ f.off + f.size <= f.total
  <2>1. /\ popped \in Nat /\ popped <= accepted /\ accepted \in Nat
        /\ accepted <= Len(MessageSize) /\ Len(MessageSize) \in Nat
    BY NumberFacts, ConstantFacts
  <2>2. popped <= Len(MessageSize)
    BY <2>1
  <2>3. /\ PieceOf(f) /\ f.msg \in Nat /\ f.msg <= popped /\ f.off \in Nat
        /\ f.size \in Nat /\ f.id \in Nat /\ f.total \in Nat
    BY <1>1, PendingFacts
  <2> QED
    BY <2>1, <2>2, <2>3 DEF PieceOf
<1>3. StateOK /\ got \in Seq(Nat) /\ Len(got) \in Nat
  BY DEF WholeInv, GotOK
<1>4. f.id = Len(got) /\ f.id # IdSpace
  BY <1>1, <1>2, <1>3, ConstantFacts
<1>5. CASE f.off = 0
  <2>1. state.buf = <<>>
    BY <1>1, <1>3, <1>5 DEF StateOK
  <2>2. f.id # state.id
    <3>1. CASE state = NoState
      BY <3>1, <1>4 DEF NoState
    <3>2. CASE state # NoState
      <4>1. Len(got) = state.id + 1 /\ state.id \in Nat
        BY <3>2, <2>1, <1>3 DEF NoGap, StateOK
      <4> QED
        BY <4>1, <1>4
    <3> QED
      BY <3>1, <3>2
  <2> DEFINE b == [i \in 1 .. f.total |-> Junk]
  <2>3. Begun(f) = [id |-> f.id, off |-> 0, buf |-> b]
    BY <2>2, <1>5 DEF Begun, NewState
  <2>4. Len(b) = f.total
    BY <1>2
  <2> HIDE DEF b
  <2>5. Begun(f).id = f.id /\ Begun(f).off = 0 /\ Len(Begun(f).buf) = f.total
    BY <2>3, <2>4
  <2> QED
    BY <2>5, <1>2, <1>5 DEF Accepts
<1>6. CASE f.off # 0
  <2>1. state.buf # <<>>
    BY <1>1, <1>3, <1>6 DEF StateOK
  <2>2. state # NoState
    BY <2>1 DEF NoState
  <2>3. state.id = Len(got)
    BY <2>1, <2>2 DEF NoGap
  <2>4. Len(state.buf) = MessageSize[state.id + 1] /\ state.id + 1 = f.msg
    BY <2>1, <2>3, <1>1, <1>3 DEF StateOK
  <2>5. Begun(f) = state
    BY <1>6 DEF Begun
  <2> QED
    BY <2>3, <2>4, <2>5, <1>1, <1>2, <1>4 DEF Accepts
<1> QED
  BY <1>5, <1>6

LEMMA GapHandleFragment ==
  ASSUME WholeInv, InOrder, NoGap, HandleFragment
  PROVE  NoGap'
<1> PICK f : f = Head(reading)
  OBVIOUS
<1> PICK rs : rs = Begun(f)
  OBVIOUS
<1>1. /\ f \in Pending /\ Pending = Pending' \cup {f}
      /\ UNCHANGED popped /\ UNCHANGED offset /\ BegunOK(rs)
  BY HandleFragmentFacts
<1>2. f.msg = Len(got) + 1 /\ f.off = state.off /\ Accepts(rs, f)
  BY Awaited, AwaitedAccepted
<1>3. \/ /\ f.off + f.size < f.total /\ state' = Filled(rs, f) /\ got' = got
      \/ /\ f.off + f.size = f.total /\ state' = Cleared(rs)
         /\ got' = Append(got, f.msg)
  BY <1>2, HandleFragmentFacts
<1>4. /\ f \in Fragment /\ f.msg \in Nat /\ f.off \in Nat /\ f.size \in Nat
      /\ f.id \in Nat /\ f.total \in Nat /\ f.size >= 1 /\ f.id = f.msg - 1
      /\ f.msg <= popped /\ f.off + f.size <= f.total /\ f.total = MessageSize[f.msg]
  BY <1>1, PendingFacts DEF PieceOf
<1>5. /\ rs \in [id : Nat, off : Nat, buf : Seq(Nat)] /\ rs.id = f.id
      /\ rs.off = f.off /\ Len(rs.buf) = f.total
  BY <1>1, <1>2 DEF BegunOK, Accepts
<1>6. /\ got \in Seq(Nat) /\ Len(got) \in Nat /\ f.id = Len(got)
      /\ \A k \in 1 .. Len(got) : got[k] = k
  BY <1>2, <1>4 DEF WholeInv, GotOK, NoGap
<1>7. f.id # IdSpace
  <2>1. /\ popped \in Nat /\ popped <= accepted /\ accepted \in Nat
        /\ accepted <= Len(MessageSize) /\ Len(MessageSize) \in Nat
        /\ IdSpace \in Nat /\ IdSpace > Len(MessageSize)
    BY NumberFacts, ConstantFacts
  <2> QED
    BY <2>1, <1>4
<1>8. SendMsg' = SendMsg
  BY <1>1 DEF SendMsg
<1>9. ASSUME NEW m \in Nat, NEW o \in Nat, Reached(m, o),
             m > f.msg \/ (m = f.msg /\ o > f.off)
      PROVE  Reached(m, o)'
  <2>1. CASE m = SendMsg /\ o = offset
    BY <2>1, <1>1, <1>8 DEF Reached
  <2>2. CASE \E h \in Pending : h.msg = m /\ h.off = o
    <3>1. PICK h \in Pending : h.msg = m /\ h.off = o
      BY <2>2
    <3>2. h # f
      BY <3>1, <1>4, <1>9
    <3> QED
      BY <3>1, <3>2, <1>1 DEF Reached
  <2> QED
    BY <2>1, <2>2, <1>9 DEF Reached
<1>10. ASSUME NEW g \in Pending'
       PROVE  /\ g.msg \in Nat /\ g.off \in Nat /\ g.size \in Nat /\ g.size >= 1
              /\ g.total \in Nat /\ g.off + g.size <= g.total
              /\ g.total = MessageSize[g.msg]
              /\ g.msg > f.msg \/ (g.msg = f.msg /\ f.off + f.size <= g.off)
  <2>1. Before(f, g)
    BY HeadFirst
  <2> QED
    BY <2>1, <1>1, PendingFacts DEF Before, PieceOf
<1>11. ASSUME NEW g \in Pending'
       PROVE  Reached(EndMsg(g), EndOff(g))'
  <2>1. Reached(EndMsg(g), EndOff(g))
    BY <1>1 DEF NoGap
  <2>2. /\ EndMsg(g) \in Nat /\ EndOff(g) \in Nat
        /\ EndMsg(g) > f.msg \/ (EndMsg(g) = f.msg /\ EndOff(g) > f.off)
    BY <1>4, <1>10 DEF EndMsg, EndOff
  <2>3. EndMsg(g)' = EndMsg(g) /\ EndOff(g)' = EndOff(g)
    BY DEF EndMsg, EndOff
  <2> QED
    BY <2>1, <2>2, <2>3, <1>9
<1>12. Reached(EndMsg(f), EndOff(f))'
  <2>1. Reached(EndMsg(f), EndOff(f))
    BY <1>1 DEF NoGap
  <2>2. /\ EndMsg(f) \in Nat /\ EndOff(f) \in Nat
        /\ EndMsg(f) > f.msg \/ (EndMsg(f) = f.msg /\ EndOff(f) > f.off)
    BY <1>4 DEF EndMsg, EndOff
  <2>3. EndMsg(f)' = EndMsg(f) /\ EndOff(f)' = EndOff(f)
    BY DEF EndMsg, EndOff
  <2> QED
    BY <2>1, <2>2, <2>3, <1>9
<1>13. CASE f.off + f.size < f.total /\ state' = Filled(rs, f) /\ got' = got
  <2>1. state'.id = f.id /\ state'.off = f.off + f.size
    <3>1. state' = Filled(rs, f)
      BY <1>13
    <3>2. Filled(rs, f).id = rs.id /\ Filled(rs, f).off = rs.off + f.size
      BY DEF Filled
    <3> QED
      BY <3>1, <3>2, <1>5
  <2>2. Len(state'.buf) = f.total /\ f.total > 0
    <3>1. Len(Filled(rs, f).buf) = Len(rs.buf)
      BY <1>4, <1>5, FilledFacts
    <3> QED
      BY <3>1, <1>4, <1>5, <1>13
  <2>3. state' # NoState /\ state'.buf # <<>>
    <3>1. state' # NoState
      BY <2>1, <1>7 DEF NoState
    <3>2. state'.buf # <<>>
      BY <2>2
    <3> QED
      BY <3>1, <3>2
  <2>4. EndMsg(f) = Len(got) + 1 /\ EndOff(f) = state'.off
    BY <2>1, <1>2, <1>4, <1>13 DEF EndMsg, EndOff
  <2>5. Reached(Len(got) + 1, state.off)'
    BY <2>4, <1>12, <1>13 DEF EndMsg, EndOff
  <2>6. \A g \in Pending' :
          g.msg > Len(got) + 1 \/ (g.msg = Len(got) + 1 /\ g.off >= state'.off)
    BY <2>1, <1>2, <1>4, <1>10
  <2> QED
    BY <2>1, <2>3, <2>5, <2>6, <1>6, <1>11, <1>13 DEF NoGap
<1>14. CASE f.off + f.size = f.total /\ state' = Cleared(rs)
            /\ got' = Append(got, f.msg)
  <2>1. state'.id = f.id /\ state'.off = 0 /\ state'.buf = <<>>
    BY <1>5, <1>14, ClearedFacts
  <2>2. state' # NoState
    BY <2>1, <1>7 DEF NoState
  <2>3. /\ Len(got') = Len(got) + 1 /\ got' # <<>>
        /\ \A k \in 1 .. Len(got') : got'[k] = k
    BY <1>2, <1>4, <1>6, <1>14
  <2>4. EndMsg(f) = Len(got') + 1 /\ EndOff(f) = state'.off
    BY <2>1, <2>3, <1>2, <1>4, <1>14 DEF EndMsg, EndOff
  <2>5. Reached(Len(got) + 1, state.off)'
    BY <2>4, <1>12 DEF EndMsg, EndOff
  <2>6. ASSUME NEW g \in Pending'
        PROVE  \/ g.msg > Len(got') + 1
               \/ g.msg = Len(got') + 1 /\ g.off >= state'.off
    <3>1. g.msg > f.msg
      BY <1>4, <1>10, <1>14
    <3> QED
      BY <3>1, <2>1, <2>3, <1>2, <1>6, <1>10
  <2>7. Len(got') = state'.id + 1
    BY <2>1, <2>3, <1>6
  <2> QED
    BY <2>1, <2>2, <2>3, <2>5, <2>6, <2>7, <1>11 DEF NoGap
<1> QED
  BY <1>3, <1>13, <1>14

LEMMA GapNext ==
  ASSUME WholeInv, InOrder, NoGap, faults = {}, [Next]_vars
  PROVE  NoGap'
<1>1. CASE AddOutgoingMessage \/ DoOutput \/ OutputEnds \/ UNCHANGED vars
  <2>1. UNCHANGED <<popped, offset, packet, reading, got, net, state>>
    BY <1>1, ElsewhereFacts DEF Elsewhere, recvVars
  <2>2. Pending' = Pending
    BY <2>1 DEF Pending
  <2> QED
    BY <2>1, <2>2, GapFrame
<1>2. CASE AddFragment
  BY <1>2, GapAddFragment
<1>3. ASSUME NEW more \in BOOLEAN, WritePacket(more)
      PROVE  NoGap'
  <2>1. Pending' = Pending /\ UNCHANGED <<popped, offset, state, got>>
    BY <1>3, WholeWritePacket DEF WritePacket, recvVars
  <2> QED
    BY <2>1, GapFrame
<1>4. CASE HandleFragment
  BY <1>4, GapHandleFragment
<1>5. ~ CrowdOut
  BY DEF CrowdOut, Fault
<1>6. ASSUME NEW i, DoInput(i)
      PROVE  NoGap'
  <2>1. Pending' = Pending /\ UNCHANGED <<popped, offset, state, got>>
    BY <1>6, WholeDoInput DEF DoInput, sendVars
  <2> QED
    BY <2>1, GapFrame
<1>7. ASSUME NEW i
      PROVE  ~ Lose(i) /\ ~ Duplicate(i)
  BY DEF Lose, Duplicate, Fault
<1> QED
  BY <1>1, <1>2, <1>3, <1>4, <1>5, <1>6, <1>7 DEF Next, SenderSteps

-----------------------------------------------------------------------------
(***************************************************************************)
(* The theorems                                                            *)
(***************************************************************************)

(* The inductive invariant: what is on its way and what the receiver       *)
(* holds are pieces of Messages, in the order they were sent if the        *)
(* network keeps it, and without a gap if it has no faults.                *)
THEOREM TunnelInvariant == Spec => []TunnelInv
<1>1. Init => TunnelInv
  BY WholeInit, OrderInit, GapInit DEF TunnelInv
<1>2. TunnelInv /\ [Next]_vars => TunnelInv'
  <2> SUFFICES ASSUME TunnelInv, [Next]_vars PROVE TunnelInv'
    OBVIOUS
  <2>1. WholeInv'
    BY WholeNext DEF TunnelInv
  <2>2. Kind' => InOrder'
    BY OrderNext DEF TunnelInv
  <2>3. UNCHANGED faults
    BY DEF Next, SenderSteps, AddOutgoingMessage, AddFragment, OutputEnds,
           DoOutput, WritePacket, HandleFragment, CrowdOut, DoInput, Lose,
           Duplicate, vars
  <2>4. faults' = {} => NoGap'
    <3> SUFFICES ASSUME faults = {} PROVE NoGap'
      BY <2>3
    <3>1. Kind
      BY DEF Kind
    <3> QED
      BY <3>1, GapNext DEF TunnelInv
  <2> QED
    BY <2>1, <2>2, <2>4 DEF TunnelInv
<1> QED
  BY <1>1, <1>2, PTL DEF Spec

(* A network without faults delivers every Message, however they are cut   *)
(* up and packed together, and no packet exceeds the MTU.                  *)
THEOREM TunnelDropsNothing == Spec => []NothingDropped
<1>1. TunnelInv => NothingDropped
  <2> SUFFICES ASSUME TunnelInv PROVE NothingDropped
    OBVIOUS
  <2>1. WholeInv /\ TunnelTypeOK
    BY DEF TunnelInv, WholeInv
  <2> SUFFICES ASSUME faults = {}, net = <<>>, packet = <<>>, reading = <<>>,
                      offset = NoBuffer
               PROVE  got = [k \in 1 .. popped |-> k]
    BY <2>1 DEF NothingDropped
  <2>2. NoGap
    BY DEF TunnelInv
  <2>3. ToSet(<<>>) = {} /\ FragmentsIn(<<>>) = {}
    BY DEF ToSet, FragmentsIn
  <2>4. Pending = {}
    BY <2>3 DEF Pending
  <2>5. Len(got) + 1 = popped + 1
    BY <2>2, <2>4 DEF NoGap, Reached, SendMsg
  <2>6. got \in Seq(Nat) /\ popped \in Nat
    BY <2>1, NumberFacts DEF WholeInv, GotOK
  <2>7. Len(got) = popped /\ DOMAIN got = 1 .. popped
    BY <2>5, <2>6
  <2>8. \A k \in 1 .. popped : got[k] = k
    BY <2>2, <2>7 DEF NoGap
  <2> QED
    BY <2>6, <2>7, <2>8
<1> QED
  BY <1>1, TunnelInvariant, PTL

(* The tunnel implements a channel of whole Messages: whatever packets are *)
(* lost, duplicated or reordered and however often the receiver forgets    *)
(* the sender, it is given whole Messages that were sent, and over a       *)
(* network that keeps the order of the packets none twice or out of turn.  *)
THEOREM TunnelImplementsChannel == Spec => ImplementsChannel
<1>1. Init => Channel!Init
  <2> SUFFICES ASSUME Init PROVE Channel!Init
    OBVIOUS
  <2>1. Kind \in BOOLEAN
    BY DEF Kind
  <2> QED
    BY <2>1 DEF Init, Channel!Init
<1>2. TunnelInv /\ [Next]_vars => [Channel!Send \/ Channel!Receive]_Channel!vars
  <2> SUFFICES ASSUME TunnelInv, [Next]_vars
               PROVE  [Channel!Send \/ Channel!Receive]_Channel!vars
    OBVIOUS
  <2>0. WholeInv
    BY DEF TunnelInv
  <2>1. UNCHANGED faults
    BY DEF Next, SenderSteps, AddOutgoingMessage, AddFragment, OutputEnds,
           DoOutput, WritePacket, HandleFragment, CrowdOut, DoInput, Lose,
           Duplicate, vars
  <2>2. Kind' = Kind
    BY <2>1 DEF Kind
  <2>3. CASE AddOutgoingMessage
    BY <2>2, <2>3 DEF AddOutgoingMessage, recvVars, Channel!Send
  <2>4. CASE HandleFragment
    <3> PICK f : f = Head(reading)
      OBVIOUS
    <3>1. f \in Pending /\ UNCHANGED accepted
      BY <2>0, <2>4, HandleFragmentFacts
    <3>2. got' = got \/ got' = Append(got, f.msg)
      BY <2>0, <2>4, HandleFragmentFacts
    <3>3. CASE got' = got
      BY <2>2, <3>1, <3>3 DEF Channel!vars
    <3>4. CASE got' = Append(got, f.msg)
      <4>1. f.msg \in 1 .. accepted
        BY <2>0, <3>1, PendingFacts, NumberFacts
      <4>2. Kind /\ got # <<>> => f.msg > got[Len(got)]
        BY <3>1 DEF TunnelInv, InOrder
      <4> QED
        BY <2>2, <3>1, <3>4, <4>1, <4>2 DEF Channel!Receive
    <3> QED
      BY <3>2, <3>3, <3>4
  <2>5. CASE ~ AddOutgoingMessage /\ ~ HandleFragment
    <3>1. UNCHANGED accepted /\ UNCHANGED got
      BY <2>5 DEF Next, SenderSteps, AddFragment, OutputEnds, DoOutput,
           WritePacket, CrowdOut, DoInput, Lose, Duplicate, vars, sendVars,
           recvVars
    <3> QED
      BY <2>2, <3>1 DEF Channel!vars
  <2> QED
    BY <2>3, <2>4, <2>5
<1> QED
  BY <1>1, <1>2, TunnelInvariant, PTL DEF Spec, ImplementsChannel, Channel!Spec
=============================================================================
