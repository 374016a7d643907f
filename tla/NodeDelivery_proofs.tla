------------------------- MODULE NodeDelivery_proofs -------------------------
(***************************************************************************)
(* Proofs about the delivery of updates: the copies of nodes and indices   *)
(* that subscribers keep are those of the server once they have read all   *)
(* that it has for them, for any number of sessions, nodes and Messages.   *)
(***************************************************************************)
EXTENDS NodeDatabase_proofs

-----------------------------------------------------------------------------
(***************************************************************************)
(* Clients in step with a database                                         *)
(***************************************************************************)

(* The clients of all sessions but those in Ex will have the nodes iv, as  *)
(* far as they hear of them, ...                                           *)
ItemsSync(C, D, Ex, iv) ==
  \A u \in Session, q \in Path :
    /\ u \in sessions \ Ex /\ Heard(u, q) => XItem(C, D, u, q) = Visible(u, q, iv[q])
    /\ u \notin sessions => XItem(C, D, u, q) = None

(* ... and the indices ix.                                                 *)
IndexSync(C, D, Ex, ix) ==
  \A u \in Session, q \in Path :
    /\ u \in sessions \ Ex /\ Heard(u, q) =>
         XIndex(C, D, u, q) = IF Matched(u, q) THEN ix[q] ELSE <<>>
    /\ u \notin sessions => XIndex(C, D, u, q) = <<>>

InSync(C, D, Ex, iv, ix) ==
  /\ D \in DType
  /\ ItemsSync(C, D, Ex, iv)
  /\ Filter = {NoFilter} => IndexSync(C, D, Ex, ix)

LEMMA KeepsSync ==
  ASSUME NEW C, NEW D, NEW E \in DType, NEW Ex, NEW iv, NEW ix,
         InSync(C, D, Ex, iv, ix), Keeps(C, D, E)
  PROVE  InSync(C, E, Ex, iv, ix)
<1>1. ItemsSync(C, E, Ex, iv)
  BY DEF InSync, Keeps, ItemsSync
<1>2. IndexSync(C, D, Ex, ix) => IndexSync(C, E, Ex, ix)
  BY DEF Keeps, IndexSync
<1> QED
  BY <1>1, <1>2 DEF InSync

(* Session s hears of p whenever others do, or does not care.              *)
MaySkip(s, Ex, p) == s \in sessions \ Ex /\ s \notin ReflectToSelf => ~Heard(s, p)

Event == NodeEvent \cup IndexEvent \cup {Nothing}

NewValue(e) == IF e.removed THEN None ELSE e.new

(* The database before and after what e tells                              *)
Records(e, iv, ix, jv, jx) ==
  /\ e.kind = "node" => e.old = iv[e.path]
  /\ \A q \in Path :
       /\ jv[q] = IF e.kind = "node" /\ q = e.path THEN NewValue(e) ELSE iv[q]
       /\ jx[q] = IF e.kind = "index" /\ q = e.path THEN ApplyOp(ix[q], e) ELSE ix[q]

NotifyEvent(E, s, e) ==
  CASE e.kind = "node"  -> NotifyChanged(E, s, e)
    [] e.kind = "index" -> NotifyIndexChanged(E, e)
    [] e.kind = "none"  -> E

LEMMA NodeEventSync ==
  ASSUME BaseInv, NEW C \in Clients, NEW D \in DType, NEW s \in Session, NEW Ex, NEW iv,
         NEW ix, NEW jv, NEW jx, NEW e \in NodeEvent, MaySkip(s, Ex, e.path),
         Records(e, iv, ix, jv, jx), InSync(C, D, Ex, iv, ix)
  PROVE  InSync(C, NotifyChanged(D, s, e), Ex, jv, jx)
<1>1. PICK E : E = NotifyChanged(D, s, e)
  OBVIOUS
<1>2. PICK S : S = Subscribers(e.path) \ ({s} \ ReflectToSelf)
  OBVIOUS
<1>3. /\ S = {t \in sessions : Matched(t, e.path)} \ ({s} \ ReflectToSelf)
      /\ S \in SUBSET sessions /\ sessions \in SUBSET Session
  BY <1>2, SubscribersAre DEF BaseInv, TreeTypeOK
<1>4. S \in SUBSET Session /\ IsFiniteSet(S)
  BY <1>3, FS_Subset DEF BaseInv
<1>5. E \in DType /\ ChangedEffect(C, D, E, S, e)
  BY <1>1, <1>2, <1>4, NotifyChangedEffect
<1>6. e.kind = "node" /\ e.path \in Path
  BY DEF NodeEvent
<1>7. ASSUME NEW u \in Session, NEW q \in Path
      PROVE  /\ u \in sessions \ Ex /\ Heard(u, q) => XItem(C, E, u, q) = Visible(u, q, jv[q])
             /\ u \notin sessions => XItem(C, E, u, q) = None
  <2>1. XItem(C, E, u, q) = IF u \in S /\ q = e.path /\ ~Ignores(u, e)
                            THEN ItemAfterEvent(u, e) ELSE XItem(C, D, u, q)
    BY <1>5 DEF ChangedEffect
  <2>2. /\ u \in sessions \ Ex /\ Heard(u, q) => XItem(C, D, u, q) = Visible(u, q, iv[q])
        /\ u \notin sessions => XItem(C, D, u, q) = None
    BY DEF InSync, ItemsSync
  <2>3. CASE u \notin sessions
    BY <1>3, <2>1, <2>2, <2>3
  <2>4. CASE u \in sessions \ Ex /\ Heard(u, q) /\ q # e.path
    <3>1. jv[q] = iv[q]
      BY <2>4 DEF Records
    <3> QED
      BY <2>1, <2>2, <2>4, <3>1
  <2>5. CASE u \in sessions \ Ex /\ Heard(u, q) /\ q = e.path /\ ~Matched(u, q)
    <3>1. u \notin S
      BY <1>3, <2>5
    <3>2. \A v : Visible(u, q, v) = None
      BY <2>5, VisibleFacts DEF BaseInv
    <3> QED
      BY <2>1, <2>2, <2>5, <3>1, <3>2
  <2>6. CASE u \in sessions \ Ex /\ Heard(u, q) /\ q = e.path /\ Matched(u, q)
    <3>1. u \in S
      BY <1>3, <2>6 DEF MaySkip
    <3>2. jv[q] = NewValue(e) /\ e.old = iv[q]
      BY <1>6, <2>6 DEF Records
    <3>3. /\ ~Ignores(u, e) => ItemAfterEvent(u, e) = Visible(u, q, jv[q])
          /\ Ignores(u, e) => Visible(u, q, iv[q]) = Visible(u, q, jv[q])
      BY <2>6, <3>2, EventVisible DEF BaseInv, NewValue
    <3> QED
      BY <2>1, <2>2, <2>6, <3>1, <3>3
  <2> QED
    BY <2>3, <2>4, <2>5, <2>6
<1>8. ASSUME IndexSync(C, D, Ex, ix) PROVE IndexSync(C, E, Ex, jx)
  <2>1. \A q \in Path : jx[q] = ix[q]
    BY <1>6 DEF Records
  <2>2. \A u \in Session, q \in Path : XIndex(C, E, u, q) = XIndex(C, D, u, q)
    BY <1>5 DEF ChangedEffect
  <2> QED
    BY <1>8, <2>1, <2>2 DEF IndexSync
<1>9. ItemsSync(C, E, Ex, jv)
  BY <1>7 DEF ItemsSync
<1> QED
  BY <1>1, <1>5, <1>8, <1>9 DEF InSync

LEMMA IndexEventSync ==
  ASSUME BaseInv, NEW C \in Clients, NEW D \in DType, NEW Ex, NEW iv,
         NEW ix, NEW jv, NEW jx, NEW e \in IndexEvent,
         Records(e, iv, ix, jv, jx), InSync(C, D, Ex, iv, ix)
  PROVE  InSync(C, NotifyIndexChanged(D, e), Ex, jv, jx)
<1>1. PICK E : E = NotifyIndexChanged(D, e)
  OBVIOUS
<1>2. Subscribers(e.path) = {t \in sessions : Matched(t, e.path)}
  BY SubscribersAre
<1>3. E \in DType /\ IndexEffect(C, D, E, e)
  BY <1>1, NotifyIndexEffect
<1>4. e.kind = "index" /\ e.path \in Path
  BY DEF IndexEvent
<1>5. ItemsSync(C, E, Ex, jv)
  <2>1. \A q \in Path : jv[q] = iv[q]
    BY <1>4 DEF Records
  <2>2. \A u \in Session, q \in Path : XItem(C, E, u, q) = XItem(C, D, u, q)
    BY <1>3 DEF IndexEffect
  <2> QED
    BY <2>1, <2>2 DEF InSync, ItemsSync
<1>6. ASSUME IndexSync(C, D, Ex, ix) PROVE IndexSync(C, E, Ex, jx)
  <2>1. \A q \in Path : jx[q] = IF q = e.path THEN ApplyOp(ix[q], e) ELSE ix[q]
    BY <1>4 DEF Records
  <2>2. \A u \in Session, q \in Path :
          XIndex(C, E, u, q) = IF u \in sessions /\ Matched(u, e.path) /\ q = e.path
                               THEN ApplyOp(XIndex(C, D, u, q), e) ELSE XIndex(C, D, u, q)
    BY <1>2, <1>3 DEF IndexEffect
  <2> QED
    BY <1>6, <2>1, <2>2 DEF IndexSync
<1> QED
  BY <1>1, <1>3, <1>5, <1>6 DEF InSync

LEMMA EventSync ==
  ASSUME BaseInv, NEW C \in Clients, NEW D \in DType, NEW s \in Session, NEW Ex, NEW iv,
         NEW ix, NEW jv, NEW jx, NEW e \in Event, e.kind = "node" => MaySkip(s, Ex, e.path),
         Records(e, iv, ix, jv, jx), InSync(C, D, Ex, iv, ix)
  PROVE  InSync(C, NotifyEvent(D, s, e), Ex, jv, jx)
<1>1. CASE e \in NodeEvent
  <2>1. e.kind = "node"
    BY <1>1 DEF NodeEvent
  <2>2. NotifyEvent(D, s, e) = NotifyChanged(D, s, e)
    BY <2>1 DEF NotifyEvent
  <2> QED
    BY <1>1, <2>1, <2>2, NodeEventSync
<1>2. CASE e \in IndexEvent
  <2>1. e.kind = "index"
    BY <1>2 DEF IndexEvent
  <2>2. NotifyEvent(D, s, e) = NotifyIndexChanged(D, e)
    BY <2>1 DEF NotifyEvent
  <2> QED
    BY <1>2, <2>2, IndexEventSync
<1>3. CASE e = Nothing
  <2>1. e.kind = "none"
    BY <1>3 DEF Nothing
  <2>2. NotifyEvent(D, s, e) = D
    BY <2>1 DEF NotifyEvent
  <2>3. \A q \in Path : jv[q] = iv[q] /\ jx[q] = ix[q]
    BY <2>1 DEF Records
  <2>4. ItemsSync(C, D, Ex, jv)
    BY <2>3 DEF InSync, ItemsSync
  <2>5. IndexSync(C, D, Ex, ix) => IndexSync(C, D, Ex, jx)
    BY <2>3 DEF IndexSync
  <2> QED
    BY <2>2, <2>4, <2>5 DEF InSync
<1> QED
  BY <1>1, <1>2, <1>3 DEF Event

LEMMA NotifyEventType ==
  ASSUME BaseInv, NEW D \in DType, NEW s, NEW e \in Event
  PROVE  NotifyEvent(D, s, e) \in DType
<1>0. PICK C : C \in Clients
  BY SomeClients
<1>1. CASE e \in NodeEvent
  <2>1. e.kind = "node"
    BY <1>1 DEF NodeEvent
  <2>2. NotifyEvent(D, s, e) = NotifyChanged(D, s, e)
    BY <2>1 DEF NotifyEvent
  <2>3. PICK S : S = Subscribers(e.path) \ ({s} \ ReflectToSelf)
    OBVIOUS
  <2>4. S \in SUBSET sessions /\ sessions \in SUBSET Session
    BY <2>3, SubscribersAre DEF BaseInv, TreeTypeOK
  <2>5. S \in SUBSET Session /\ IsFiniteSet(S)
    BY <2>4, FS_Subset DEF BaseInv
  <2> QED
    BY <1>0, <1>1, <2>2, <2>3, <2>5, NotifyChangedEffect
<1>2. CASE e \in IndexEvent
  <2>1. e.kind = "index"
    BY <1>2 DEF IndexEvent
  <2>2. NotifyEvent(D, s, e) = NotifyIndexChanged(D, e)
    BY <2>1 DEF NotifyEvent
  <2> QED
    BY <1>0, <1>2, <2>2, NotifyIndexEffect
<1>3. CASE e = Nothing
  <2>1. e.kind = "none"
    BY <1>3 DEF Nothing
  <2> QED
    BY <2>1 DEF NotifyEvent
<1> QED
  BY <1>1, <1>2, <1>3 DEF Event

IsNotifySeq(f, D, s, events) ==
  /\ f \in [0 .. Len(events) -> DType]
  /\ f[0] = D
  /\ \A k \in 1 .. Len(events) : f[k] = NotifyEvent(f[k - 1], s, events[k])

LEMMA NotifySeqFold ==
  ASSUME BaseInv, NEW D \in DType, NEW s, NEW events \in Seq(Event)
  PROVE  \E f : IsNotifySeq(f, D, s, events) /\ Notify(D, s, events) = f[Len(events)]
<1> DEFINE n == Len(events)
           A == DType
           H == CHOOSE g : g = [S \in SUBSET (DOMAIN events) |->
                  IF S = {} THEN D ELSE NotifyEvent(g[S \ {Max(S)}], s, events[Max(S)])]
<1>1. n \in Nat /\ DOMAIN events = 1 .. n /\ \A k \in 1 .. n : events[k] \in Event
  OBVIOUS
<1>2. D \in A
  OBVIOUS
<1>3. PICK step : step = [k \in 1 .. n |-> [x \in A |-> NotifyEvent(x, s, events[k])]]
  OBVIOUS
<1>4. \A k \in 1 .. n, x \in A : NotifyEvent(x, s, events[k]) \in A
  BY <1>1, NotifyEventType
<1>5. Notify(D, s, events) = H[DOMAIN events]
  BY DEF Notify, NotifyEvent, FoldLeft, MapThenFoldSet
<1> HIDE DEF n, A, H
<1>6. /\ StepsIn(step, n, A)
      /\ \A k \in 1 .. n, x \in A : step[k][x] = NotifyEvent(x, s, events[k])
  BY <1>3, <1>4 DEF StepsIn
<1>7. PICK it : IsSeqFold(it, n, A, D, step)
  BY <1>1, <1>2, <1>6, SeqFoldExists
<1>8. ASSUME NEW S \in SUBSET (1 .. n), S # {}
      PROVE  it[S] = NotifyEvent(it[S \ {Max(S)}], s, events[Max(S)])
  <2>1. Max(S) \in 1 .. n /\ S \ {Max(S)} \in SUBSET (1 .. n)
    BY <1>1, <1>8, MaxOfPositions
  <2>2. it[S \ {Max(S)}] \in A /\ it[S] = step[Max(S)][it[S \ {Max(S)}]]
    BY <1>7, <1>8, <2>1 DEF IsSeqFold
  <2> QED
    BY <1>6, <2>1, <2>2
<1>9. it = [S \in SUBSET (1 .. n) |->
              IF S = {} THEN D ELSE NotifyEvent(it[S \ {Max(S)}], s, events[Max(S)])]
  BY <1>7, <1>8 DEF IsSeqFold
<1>10. H = [S \in SUBSET (1 .. n) |->
              IF S = {} THEN D ELSE NotifyEvent(H[S \ {Max(S)}], s, events[Max(S)])]
  BY <1>1, <1>9 DEF H
<1>11. Unfolds(H, n, A, D, step)
  <2>1. H[{}] = D
    BY <1>10
  <2>2. \A S \in SUBSET (1 .. n) : S # {} /\ H[S \ {Max(S)}] \in A =>
          H[S] = step[Max(S)][H[S \ {Max(S)}]]
    BY <1>1, <1>6, <1>10, MaxOfPositions
  <2> QED
    BY <2>1, <2>2 DEF Unfolds
<1>12. PICK f : IsTrace(f, n, A, D, step) /\ f[n] = H[1 .. n]
  BY <1>1, <1>2, <1>6, <1>11, SeqTrace
<1>13. f \in [0 .. n -> A] /\ f[0] = D
  BY <1>12 DEF IsTrace
<1>14. ASSUME NEW k \in 1 .. n PROVE f[k] = NotifyEvent(f[k - 1], s, events[k])
  <2>1. k - 1 \in 0 .. n
    BY <1>1
  <2>2. f[k - 1] \in A /\ f[k] = step[k][f[k - 1]]
    BY <1>12, <1>13, <2>1 DEF IsTrace
  <2> QED
    BY <1>6, <2>2
<1> QED
  BY <1>1, <1>5, <1>12, <1>13, <1>14 DEF IsNotifySeq, n, A

(* The database iv, ix as it goes through the changes that events tell of  *)
History(events, s, Ex, iv, ix) ==
  \A k \in 1 .. Len(events) :
    /\ Records(events[k], iv[k - 1], ix[k - 1], iv[k], ix[k])
    /\ events[k].kind = "node" => MaySkip(s, Ex, events[k].path)

LEMMA NotifySync ==
  ASSUME BaseInv, NEW C \in Clients, NEW D, NEW s \in Session, NEW events \in Seq(Event),
         NEW Ex, NEW iv, NEW ix, History(events, s, Ex, iv, ix),
         InSync(C, D, Ex, iv[0], ix[0])
  PROVE  InSync(C, Notify(D, s, events), Ex, iv[Len(events)], ix[Len(events)])
<1>0. D \in DType
  BY DEF InSync
<1>1. PICK f : /\ IsNotifySeq(f, D, s, events) /\ Notify(D, s, events) = f[Len(events)]
  BY <1>0, NotifySeqFold
<1> DEFINE n == Len(events)
           W == {k \in 0 .. n : InSync(C, f[k], Ex, iv[k], ix[k])}
<1>3. n \in Nat /\ \A k \in 1 .. n : events[k] \in Event
  OBVIOUS
<1>4. /\ f[0] = D
      /\ \A k \in 1 .. n : f[k] = NotifyEvent(f[k - 1], s, events[k])
      /\ \A k \in 1 .. n : k - 1 \in 0 .. n /\ f[k - 1] \in DType
  <2>1. /\ f \in [0 .. n -> DType] /\ f[0] = D
        /\ \A k \in 1 .. n : f[k] = NotifyEvent(f[k - 1], s, events[k])
    BY <1>1 DEF IsNotifySeq
  <2> HIDE DEF n
  <2>2. \A k \in 1 .. n : k - 1 \in 0 .. n
    BY <1>3
  <2> QED
    BY <2>1, <2>2
<1>5. \A k \in 1 .. n :
        /\ Records(events[k], iv[k - 1], ix[k - 1], iv[k], ix[k])
        /\ events[k].kind = "node" => MaySkip(s, Ex, events[k].path)
  BY DEF History
<1> HIDE DEF n
<1>6. 0 \in W
  BY <1>3, <1>4
<1>7. ASSUME NEW k \in 1 .. n, k - 1 \in W PROVE k \in W
  <2>1. InSync(C, f[k - 1], Ex, iv[k - 1], ix[k - 1]) /\ k \in 0 .. n
    BY <1>3, <1>7
  <2>2. PICK e : e = events[k]
    OBVIOUS
  <2>3. /\ e \in Event /\ f[k] = NotifyEvent(f[k - 1], s, e) /\ f[k - 1] \in DType
        /\ Records(e, iv[k - 1], ix[k - 1], iv[k], ix[k])
        /\ e.kind = "node" => MaySkip(s, Ex, e.path)
    BY <1>3, <1>4, <1>5, <2>2
  <2>4. InSync(C, NotifyEvent(f[k - 1], s, e), Ex, iv[k], ix[k])
    BY <2>1, <2>3, EventSync
  <2> QED
    BY <2>1, <2>3, <2>4
<1>8. n \in W
  <2> HIDE DEF W
  <2>1. n \in 0 .. n
    BY <1>3
  <2> QED
    BY <1>3, <1>6, <1>7, <2>1, PositionInduction
<1> QED
  BY <1>1, <1>8 DEF n

(* Events lead from the database v0, x0 to the database v1, x1.            *)
Tells(events, s, Ex, v0, x0, v1, x1) ==
  \E iv, ix : /\ History(events, s, Ex, iv, ix)
              /\ iv[0] = v0 /\ ix[0] = x0
              /\ iv[Len(events)] = v1 /\ ix[Len(events)] = x1

LEMMA NotifyTells ==
  ASSUME BaseInv, NEW C \in Clients, NEW D, NEW s \in Session, NEW events \in Seq(Event),
         NEW Ex, NEW v0, NEW x0, NEW v1, NEW x1, Tells(events, s, Ex, v0, x0, v1, x1),
         InSync(C, D, Ex, v0, x0)
  PROVE  InSync(C, Notify(D, s, events), Ex, v1, x1)
<1>1. PICK iv, ix : /\ History(events, s, Ex, iv, ix)
                    /\ iv[0] = v0 /\ ix[0] = x0
                    /\ iv[Len(events)] = v1 /\ ix[Len(events)] = x1
  BY DEF Tells
<1>2. InSync(C, D, Ex, iv[0], ix[0])
  BY <1>1
<1>3. InSync(C, Notify(D, s, events), Ex, iv[Len(events)], ix[Len(events)])
  BY <1>1, <1>2, NotifySync
<1> QED
  BY <1>1, <1>3

LEMMA TellsNothing ==
  ASSUME NEW s, NEW Ex, NEW v, NEW x
  PROVE  Tells(<<>>, s, Ex, v, x, v, x)
<1>1. PICK iv : iv = [k \in {0} |-> v]
  OBVIOUS
<1>2. PICK ix : ix = [k \in {0} |-> x]
  OBVIOUS
<1>3. Len(<<>>) = 0 /\ 1 .. 0 = {}
  OBVIOUS
<1>4. History(<<>>, s, Ex, iv, ix)
  BY <1>3 DEF History
<1>5. iv[0] = v /\ ix[0] = x
  BY <1>1, <1>2
<1> QED
  BY <1>3, <1>4, <1>5 DEF Tells

LEMMA TellsOne ==
  ASSUME NEW e, NEW s, NEW Ex, NEW v0, NEW x0, NEW v1, NEW x1,
         Records(e, v0, x0, v1, x1), e.kind = "node" => MaySkip(s, Ex, e.path)
  PROVE  Tells(<<e>>, s, Ex, v0, x0, v1, x1)
<1>1. PICK iv : iv = [k \in {0, 1} |-> IF k = 0 THEN v0 ELSE v1]
  OBVIOUS
<1>2. PICK ix : ix = [k \in {0, 1} |-> IF k = 0 THEN x0 ELSE x1]
  OBVIOUS
<1>3. Len(<<e>>) = 1 /\ 1 .. 1 = {1} /\ <<e>>[1] = e /\ 1 - 1 = 0
  OBVIOUS
<1>5. iv[0] = v0 /\ ix[0] = x0 /\ iv[1] = v1 /\ ix[1] = x1
  BY <1>1, <1>2
<1>4. History(<<e>>, s, Ex, iv, ix)
  <2>1. SUFFICES ASSUME NEW k \in 1 .. Len(<<e>>)
                 PROVE  /\ Records(<<e>>[k], iv[k - 1], ix[k - 1], iv[k], ix[k])
                        /\ <<e>>[k].kind = "node" => MaySkip(s, Ex, <<e>>[k].path)
    BY DEF History
  <2>2. k = 1
    BY <1>3
  <2>3. Records(<<e>>[k], iv[k - 1], ix[k - 1], iv[k], ix[k])
    BY <1>3, <1>5, <2>2
  <2>4. <<e>>[k] = e
    BY <2>2
  <2> QED
    BY <2>3, <2>4
<1> QED
  BY <1>3, <1>4, <1>5 DEF Tells

LEMMA TellsBoth ==
  ASSUME NEW a \in Seq(Event), NEW b \in Seq(Event), NEW s, NEW Ex, NEW v0, NEW x0,
         NEW v1, NEW x1, NEW v2, NEW x2,
         Tells(a, s, Ex, v0, x0, v1, x1), Tells(b, s, Ex, v1, x1, v2, x2)
  PROVE  a \o b \in Seq(Event) /\ Tells(a \o b, s, Ex, v0, x0, v2, x2)
<1> DEFINE n == Len(a)
           m == Len(b)
<1>1. PICK iva, ixa : /\ History(a, s, Ex, iva, ixa)
                      /\ iva[0] = v0 /\ ixa[0] = x0 /\ iva[n] = v1 /\ ixa[n] = x1
  BY DEF Tells
<1>2. PICK ivb, ixb : /\ History(b, s, Ex, ivb, ixb)
                      /\ ivb[0] = v1 /\ ixb[0] = x1 /\ ivb[m] = v2 /\ ixb[m] = x2
  BY DEF Tells
<1>3. PICK iv : iv = [k \in 0 .. n + m |-> IF k <= n THEN iva[k] ELSE ivb[k - n]]
  OBVIOUS
<1>4. PICK ix : ix = [k \in 0 .. n + m |-> IF k <= n THEN ixa[k] ELSE ixb[k - n]]
  OBVIOUS
<1>5. PICK ab : ab = a \o b
  OBVIOUS
<1>6. /\ n \in Nat /\ m \in Nat
      /\ ab \in Seq(Event) /\ Len(ab) = n + m
      /\ \A k \in 1 .. n : ab[k] = a[k]
      /\ \A k \in 1 .. m : ab[n + k] = b[k]
  BY <1>5
<1>7. /\ \A k \in 1 .. n : Records(a[k], iva[k - 1], ixa[k - 1], iva[k], ixa[k])
                           /\ (a[k].kind = "node" => MaySkip(s, Ex, a[k].path))
      /\ \A k \in 1 .. m : Records(b[k], ivb[k - 1], ixb[k - 1], ivb[k], ixb[k])
                           /\ (b[k].kind = "node" => MaySkip(s, Ex, b[k].path))
  BY <1>1, <1>2 DEF History
<1> HIDE DEF n, m
<1>8. /\ \A k \in 0 .. n : iv[k] = iva[k] /\ ix[k] = ixa[k]
      /\ \A k \in 0 .. m : iv[n + k] = ivb[k] /\ ix[n + k] = ixb[k]
  <2>1. \A k \in 0 .. n : iv[k] = iva[k] /\ ix[k] = ixa[k]
    BY <1>3, <1>4, <1>6
  <2>2. ASSUME NEW k \in 0 .. m PROVE iv[n + k] = ivb[k] /\ ix[n + k] = ixb[k]
    <3>1. CASE k = 0
      BY <1>1, <1>2, <1>6, <2>1, <3>1
    <3>2. CASE k # 0
      <4>1. n + k \in 0 .. n + m /\ ~ (n + k <= n) /\ (n + k) - n = k
        BY <1>6, <3>2
      <4> QED
        BY <1>3, <1>4, <4>1
    <3> QED
      BY <3>1, <3>2
  <2> QED
    BY <2>1, <2>2
<1>9. ASSUME NEW k \in 1 .. n + m
      PROVE  /\ Records(ab[k], iv[k - 1], ix[k - 1], iv[k], ix[k])
             /\ ab[k].kind = "node" => MaySkip(s, Ex, ab[k].path)
  <2>1. CASE k <= n
    <3>1. k \in 1 .. n /\ k \in 0 .. n /\ k - 1 \in 0 .. n
      BY <1>6, <2>1
    <3> QED
      BY <1>6, <1>7, <1>8, <3>1
  <2>2. CASE k > n
    <3>1. PICK j : j = k - n
      OBVIOUS
    <3>2. j \in 1 .. m /\ j \in 0 .. m /\ j - 1 \in 0 .. m /\ k = n + j /\ k - 1 = n + (j - 1)
      BY <1>6, <2>2, <3>1
    <3>3. iv[k - 1] = ivb[j - 1] /\ ix[k - 1] = ixb[j - 1] /\ iv[k] = ivb[j] /\ ix[k] = ixb[j]
          /\ ab[k] = b[j]
      BY <1>6, <1>8, <3>2
    <3> QED
      BY <1>7, <3>2, <3>3
  <2> QED
    BY <1>6, <2>1, <2>2
<1>10. History(ab, s, Ex, iv, ix)
  BY <1>6, <1>9 DEF History
<1>11. iv[0] = v0 /\ ix[0] = x0 /\ iv[n + m] = v2 /\ ix[n + m] = x2
  <2>1. 0 \in 0 .. n /\ m \in 0 .. m
    BY <1>6
  <2> QED
    BY <1>1, <1>2, <1>8, <2>1
<1> QED
  BY <1>5, <1>6, <1>10, <1>11 DEF Tells

-----------------------------------------------------------------------------
(***************************************************************************)
(* What the events of each operation tell                                  *)
(***************************************************************************)

DB == [q \in Path |-> IF q \in nodes THEN data[q] ELSE None]
IX == [q \in Path |-> IndexOf(q)]

LEMMA EventTypes ==
  ASSUME NEW p \in Path
  PROVE  /\ \A old \in Value \cup {None}, new \in Value, supercede \in BOOLEAN :
              Changed(p, old, new, supercede) \in NodeEvent
         /\ \A op \in {"i", "r"}, at \in Nat \ {0}, nm \in PathName :
              IndexOp(op, p, at, nm) \in IndexEvent
  BY DEF Changed, IndexOp, NodeEvent, IndexEvent

(* The nodes of paths that are in created appear, empty.                   *)
LEMMA TellsCreation ==
  ASSUME TreeTypeOK, NEW paths \in Seq(Path), NEW created, created \cap nodes = {},
         \A j, k \in 1 .. Len(paths) : paths[j] = paths[k] => j = k,
         NEW s, NEW Ex, \A k \in 1 .. Len(paths) : MaySkip(s, Ex, paths[k]),
         NEW v1, v1 = [q \in Path |-> IF q \in created /\ \E j \in 1 .. Len(paths) : paths[j] = q
                                      THEN EmptyMsg ELSE DB[q]]
  PROVE  /\ CreationEvents(paths, created) \in Seq(Event)
         /\ Tells(CreationEvents(paths, created), s, Ex, DB, IX, v1, IX)
<1> DEFINE n == Len(paths)
<1>1. n \in Nat /\ DOMAIN paths = 1 .. n /\ \A k \in 1 .. n : paths[k] \in Path
  OBVIOUS
<1>2. PICK ev : ev = CreationEvents(paths, created)
  OBVIOUS
<1>3. /\ DOMAIN ev = 1 .. n /\ ev = [k \in 1 .. n |-> ev[k]]
      /\ \A k \in 1 .. n : ev[k] = IF paths[k] \in created
                                   THEN Changed(paths[k], None, EmptyMsg, FALSE) ELSE Nothing
  <2> HIDE DEF n
  <2> QED
    BY <1>1, <1>2 DEF CreationEvents
<1>4. \A k \in 1 .. n : ev[k] \in Event
  <2>1. \A k \in 1 .. n : Changed(paths[k], None, EmptyMsg, FALSE) \in NodeEvent
    BY <1>1, EventTypes, ValueAssumption
  <2> QED
    BY <1>3, <2>1 DEF Event
<1>5. ev \in Seq(Event) /\ Len(ev) = n
  BY <1>1, <1>3, <1>4
<1>6. PICK iv : iv = [k \in 0 .. n |-> [q \in Path |->
                        IF q \in created /\ \E j \in 1 .. k : paths[j] = q
                        THEN EmptyMsg ELSE DB[q]]]
  OBVIOUS
<1>7. PICK ix : ix = [k \in 0 .. n |-> IX]
  OBVIOUS
<1>8. \A j, k \in 1 .. n : paths[j] = paths[k] => j = k
  OBVIOUS
<1>9. \A k \in 1 .. n : MaySkip(s, Ex, paths[k])
  OBVIOUS
<1>10. v1 = [q \in Path |-> IF q \in created /\ \E j \in 1 .. n : paths[j] = q
                           THEN EmptyMsg ELSE DB[q]]
  OBVIOUS
<1> HIDE DEF n
<1>11. iv[0] = DB /\ ix[0] = IX /\ iv[n] = v1 /\ ix[n] = IX
  <2>1. 0 \in 0 .. n /\ n \in 0 .. n
    BY <1>1
  <2>2. iv[0] = [q \in Path |-> DB[q]]
    BY <1>6, <2>1
  <2>3. DB = [q \in Path |-> DB[q]]
    BY DEF DB
  <2>4. iv[n] = v1
    BY <1>6, <1>10, <2>1
  <2>5. iv[0] = DB
    BY <2>2, <2>3
  <2> QED
    BY <1>7, <2>1, <2>4, <2>5
<1>12. ASSUME NEW k \in 1 .. n
       PROVE  /\ Records(ev[k], iv[k - 1], ix[k - 1], iv[k], ix[k])
              /\ ev[k].kind = "node" => MaySkip(s, Ex, ev[k].path)
  <2>1. k \in 0 .. n /\ k - 1 \in 0 .. n
    BY <1>1
  <2>2. ix[k] = IX /\ ix[k - 1] = IX
    BY <1>7, <2>1
  <2>3. \A q \in Path : /\ iv[k][q] = IF q \in created /\ \E j \in 1 .. k : paths[j] = q
                                      THEN EmptyMsg ELSE DB[q]
                        /\ iv[k - 1][q] = IF q \in created /\ \E j \in 1 .. k - 1 : paths[j] = q
                                          THEN EmptyMsg ELSE DB[q]
    BY <1>6, <2>1
  <2>4. \A j : j \in 1 .. k <=> j \in 1 .. k - 1 \/ j = k
    BY <1>1
  <2>5. CASE paths[k] \in created
    <3>1. ev[k] = Changed(paths[k], None, EmptyMsg, FALSE)
      BY <1>3, <2>5
    <3>2. /\ ev[k].kind = "node" /\ ev[k].path = paths[k] /\ ev[k].old = None
          /\ NewValue(ev[k]) = EmptyMsg
      BY <3>1 DEF Changed, NewValue
    <3>3. \A j \in 1 .. k - 1 : paths[j] # paths[k]
      BY <1>1, <1>8
    <3>4. iv[k - 1][paths[k]] = None
      <4>1. paths[k] \in Path /\ paths[k] \notin nodes
        BY <1>1, <2>5
      <4> QED
        BY <2>3, <3>3, <4>1 DEF DB
    <3>5. ASSUME NEW q \in Path
          PROVE  iv[k][q] = IF q = paths[k] THEN EmptyMsg ELSE iv[k - 1][q]
      BY <2>3, <2>4, <2>5
    <3> QED
      BY <1>9, <2>2, <3>2, <3>4, <3>5 DEF Records
  <2>6. CASE paths[k] \notin created
    <3>0. ev[k] = Nothing
      BY <1>3, <2>6
    <3>1. ev[k].kind = "none"
      BY <3>0 DEF Nothing
    <3>2. ASSUME NEW q \in Path PROVE iv[k][q] = iv[k - 1][q]
      BY <2>3, <2>4, <2>6
    <3> QED
      BY <2>2, <3>1, <3>2 DEF Records
  <2> QED
    BY <2>5, <2>6
<1>13. History(ev, s, Ex, iv, ix)
  BY <1>5, <1>12 DEF History
<1> QED
  BY <1>2, <1>5, <1>11, <1>13 DEF Tells

(* The database f with x at p                                              *)
Put(f, p, x) == [q \in Path |-> IF q = p THEN x ELSE f[q]]

LEMMA TellsChanged ==
  ASSUME NEW p \in Path, NEW old \in Value \cup {None}, NEW new \in Value,
         NEW supercede \in BOOLEAN, NEW s, NEW Ex, MaySkip(s, Ex, p), NEW v, NEW x, v[p] = old
  PROVE  /\ <<Changed(p, old, new, supercede)>> \in Seq(Event)
         /\ Tells(<<Changed(p, old, new, supercede)>>, s, Ex, v, x, Put(v, p, new), x)
<1>1. PICK e : e = Changed(p, old, new, supercede)
  OBVIOUS
<1>2. e \in Event
  BY <1>1, EventTypes DEF Event
<1>3. e.kind = "node" /\ e.path = p /\ e.old = old /\ NewValue(e) = new
  BY <1>1 DEF Changed, NewValue
<1>4. Records(e, v, x, Put(v, p, new), x)
  BY <1>3 DEF Records, Put
<1>5. Tells(<<e>>, s, Ex, v, x, Put(v, p, new), x)
  BY <1>3, <1>4, TellsOne
<1> QED
  BY <1>1, <1>2, <1>5

LEMMA TellsIndexOp ==
  ASSUME NEW p \in Path, NEW op \in {"i", "r"}, NEW at \in Nat \ {0}, NEW nm \in PathName,
         NEW s, NEW Ex, NEW v, v = [q \in Path |-> v[q]], NEW x, NEW new,
         new = ApplyOp(x[p], IndexOp(op, p, at, nm))
  PROVE  /\ <<IndexOp(op, p, at, nm)>> \in Seq(Event)
         /\ Tells(<<IndexOp(op, p, at, nm)>>, s, Ex, v, x, v, Put(x, p, new))
<1>1. PICK e : e = IndexOp(op, p, at, nm)
  OBVIOUS
<1>2. e \in Event
  BY <1>1, EventTypes DEF Event
<1>3. e.kind = "index" /\ e.path = p /\ new = ApplyOp(x[p], e)
  BY <1>1 DEF IndexOp
<1>4. Records(e, v, x, v, Put(x, p, new))
  BY <1>3 DEF Records, Put
<1>5. Tells(<<e>>, s, Ex, v, x, v, Put(x, p, new))
  BY <1>3, <1>4, TellsOne
<1> QED
  BY <1>1, <1>2, <1>5

LEMMA TellsRemoval ==
  ASSUME NEW p \in Path, NEW N, NEW nm \in PathName, NEW idx, ListsChildren(idx, p, N),
         NEW s, NEW Ex, NEW v, v = [q \in Path |-> v[q]], NEW x, x = [q \in Path |-> x[q]],
         x[p] = idx
  PROVE  /\ EntryRemoval(p, idx, nm) \in Seq(Event)
         /\ Tells(EntryRemoval(p, idx, nm), s, Ex, v, x, v, Put(x, p, RemoveIndexEntry(idx, nm)))
<1>1. PICK at : at = EntryOf(idx, nm)
  OBVIOUS
<1>2. at = 0 \/ (at \in 1 .. Len(idx) /\ at # 0)
  BY <1>1, EntryFacts
<1>3. idx \in Seq(PathName)
  BY DEF ListsChildren
<1>4. CASE at = 0
  <2>1. EntryRemoval(p, idx, nm) = <<>> /\ RemoveIndexEntry(idx, nm) = idx
    BY <1>1, <1>4 DEF EntryRemoval, RemoveIndexEntry
  <2>2. Put(x, p, idx) = x
    BY DEF Put
  <2>3. <<>> \in Seq(Event)
    OBVIOUS
  <2>4. Tells(<<>>, s, Ex, v, x, v, x)
    BY TellsNothing
  <2> QED
    BY <2>1, <2>2, <2>3, <2>4
<1>5. CASE at # 0
  <2>1. at \in Nat \ {0} /\ at <= Len(idx)
    BY <1>2, <1>3, <1>5
  <2>2. EntryRemoval(p, idx, nm) = <<IndexOp("r", p, at, nm)>>
        /\ RemoveIndexEntry(idx, nm) = RemoveAt(idx, at)
    BY <1>1, <1>5 DEF EntryRemoval, RemoveIndexEntry
  <2>3. ApplyOp(idx, IndexOp("r", p, at, nm)) = RemoveAt(idx, at)
    BY <2>1 DEF ApplyOp, IndexOp
  <2>4. PICK new : new = RemoveAt(idx, at)
    OBVIOUS
  <2>5. /\ <<IndexOp("r", p, at, nm)>> \in Seq(Event)
        /\ Tells(<<IndexOp("r", p, at, nm)>>, s, Ex, v, x, v, Put(x, p, new))
    BY <2>1, <2>3, <2>4, TellsIndexOp
  <2> QED
    BY <2>2, <2>4, <2>5
<1> QED
  BY <1>4, <1>5

LEMMA TellsInsertion ==
  ASSUME NEW p \in Path, NEW N, NEW nm \in PathName, NEW before, NEW idx,
         ListsChildren(idx, p, N), NEW s, NEW Ex, NEW v, v = [q \in Path |-> v[q]], NEW x,
         x[p] = idx, NEW at, at = InsertPosition(idx, before)
  PROVE  /\ <<IndexOp("i", p, at, nm)>> \in Seq(Event)
         /\ Tells(<<IndexOp("i", p, at, nm)>>, s, Ex, v, x, v, Put(x, p, InsertAt(idx, at, nm)))
<1>1. at \in 1 .. Len(idx) + 1
  BY PositionFacts
<1>2. idx \in Seq(PathName)
  BY DEF ListsChildren
<1>3. at \in Nat \ {0} /\ at <= Len(idx) + 1
  BY <1>1, <1>2
<1>4. ApplyOp(idx, IndexOp("i", p, at, nm)) = InsertAt(idx, at, nm)
  BY <1>3 DEF ApplyOp, IndexOp
<1>5. PICK new : new = InsertAt(idx, at, nm)
  OBVIOUS
<1>6. /\ <<IndexOp("i", p, at, nm)>> \in Seq(Event)
      /\ Tells(<<IndexOp("i", p, at, nm)>>, s, Ex, v, x, v, Put(x, p, new))
  BY <1>3, <1>4, <1>5, TellsIndexOp
<1> QED
  BY <1>5, <1>6

(* InsertOrderedChild: a child appears, and is entered into the index.     *)
LEMMA TellsInsert ==
  ASSUME NEW parent \in Path, NEW N, NEW nm \in PathName, NEW w \in Value, NEW before,
         NEW s, NEW Ex, NEW v, NEW x, x = [q \in Path |-> x[q]],
         ListsChildren(IndexOf(parent), parent, N), x[parent] = IndexOf(parent),
         NEW child, child = Append(parent, nm), MaySkip(s, Ex, child), v[child] = None,
         NEW new, new = IF before = RemoveFromIndex THEN IndexOf(parent)
                        ELSE InsertAt(IndexOf(parent),
                                      InsertPosition(IndexOf(parent), before), nm)
  PROVE  /\ InsertEvents(parent, nm, w, before) \in Seq(Event)
         /\ Tells(InsertEvents(parent, nm, w, before), s, Ex, v, x,
                  Put(v, child, w), Put(x, parent, new))
<1>1. PICK idx : idx = IndexOf(parent)
  OBVIOUS
<1>2. PICK at : at = InsertPosition(idx, before)
  OBVIOUS
<1>3. PICK v1 : v1 = Put(v, child, w)
  OBVIOUS
<1>4. v1 = [q \in Path |-> v1[q]]
  BY <1>3 DEF Put
<1>5. child \in Path
  BY ChildNames
<1>6. PICK a : a = <<Changed(child, None, w, FALSE)>>
  OBVIOUS
<1>7. a \in Seq(Event) /\ Tells(a, s, Ex, v, x, v1, x)
  BY <1>3, <1>5, <1>6, TellsChanged
<1>8. CASE before = RemoveFromIndex
  <2>1. InsertEvents(parent, nm, w, before) = a
    BY <1>6, <1>8 DEF InsertEvents
  <2>2. Put(x, parent, new) = x
    BY <1>8 DEF Put
  <2> QED
    BY <1>3, <1>7, <2>1, <2>2
<1>9. CASE before # RemoveFromIndex
  <2>1. PICK b : b = <<IndexOp("i", parent, at, nm)>>
    OBVIOUS
  <2>2. InsertEvents(parent, nm, w, before) = a \o b
    <3>1. PICK ea, eb : /\ ea = Changed(child, None, w, FALSE)
                        /\ eb = IndexOp("i", parent, at, nm)
      OBVIOUS
    <3>2. <<ea>> \o <<eb>> = <<ea, eb>>
      <4>1. <<ea>> \in Seq({ea, eb}) /\ eb \in {ea, eb}
        OBVIOUS
      <4>2. <<ea>> \o <<eb>> = Append(<<ea>>, eb)
        BY <4>1, ConcatFacts
      <4>3. Append(<<ea>>, eb) = <<ea, eb>>
        <5>1. PICK y, z : y = Append(<<ea>>, eb) /\ z = <<ea, eb>>
          OBVIOUS
        <5>2. y \in Seq({ea, eb}) /\ Len(y) = 2 /\ y[1] = ea /\ y[2] = eb
          BY <4>1, <5>1
        <5>3. z \in Seq({ea, eb}) /\ Len(z) = 2 /\ z[1] = ea /\ z[2] = eb
          BY <5>1
        <5>4. y = z
          BY <5>2, <5>3, SeqEqual
        <5> QED
          BY <5>1, <5>4
      <4> QED
        BY <4>2, <4>3
    <3>3. InsertEvents(parent, nm, w, before) = <<ea, eb>>
      BY <1>1, <1>2, <1>9, <3>1 DEF InsertEvents
    <3> QED
      BY <1>6, <2>1, <3>1, <3>2, <3>3
  <2>3. new = InsertAt(idx, at, nm)
    BY <1>1, <1>2, <1>9
  <2>4. b \in Seq(Event) /\ Tells(b, s, Ex, v1, x, v1, Put(x, parent, new))
    BY <1>1, <1>2, <1>4, <2>1, <2>3, TellsInsertion
  <2>5. a \o b \in Seq(Event) /\ Tells(a \o b, s, Ex, v, x, v1, Put(x, parent, new))
    BY <1>7, <2>4, TellsBoth
  <2> QED
    BY <1>3, <2>2, <2>5
<1> QED
  BY <1>8, <1>9

(* ReorderChild: out of the index and in again.                            *)
LEMMA TellsReorder ==
  ASSUME IndexInv, NEW parent \in nodes, parent \in Path, NEW nm \in PathName,
         NEW child, child = Append(parent, nm), NEW before, NEW s, NEW Ex
  PROVE  /\ ReorderEvents(child, before) \in Seq(Event)
         /\ Tells(ReorderEvents(child, before), s, Ex, DB, IX, DB,
                  Put(IX, parent, ReorderedIndex(index[parent], nm, before)))
<1>1. Parent(child) = parent /\ NodeName(child) = nm
  BY ChildNames
<1>2. PICK idx : idx = index[parent]
  OBVIOUS
<1>3. ListsChildren(idx, parent, nodes)
  BY <1>2 DEF IndexInv
<1>4. /\ DB = [q \in Path |-> DB[q]] /\ IX = [q \in Path |-> IX[q]] /\ IX[parent] = idx
  BY <1>2 DEF DB, IX, IndexOf
<1>5. PICK v, x : v = DB /\ x = IX
  OBVIOUS
<1>6. PICK rest : rest = RemoveIndexEntry(idx, nm)
  OBVIOUS
<1>7. ListsChildren(rest, parent, nodes)
  BY <1>3, <1>6, ListsRemoved
<1>8. PICK a : a = EntryRemoval(parent, idx, nm)
  OBVIOUS
<1>9. PICK x1 : x1 = Put(x, parent, rest)
  OBVIOUS
<1>10. a \in Seq(Event) /\ Tells(a, s, Ex, v, x, v, x1)
  BY <1>3, <1>4, <1>5, <1>6, <1>8, <1>9, TellsRemoval
<1>11. CASE before = nm
  <2>1. ReorderEvents(child, before) = <<>> /\ ReorderedIndex(idx, nm, before) = idx
    BY <1>1, <1>11 DEF ReorderEvents, ReorderedIndex
  <2>2. Put(x, parent, idx) = x
    BY <1>4, <1>5 DEF Put
  <2>3. <<>> \in Seq(Event) /\ Tells(<<>>, s, Ex, v, x, v, x)
    BY TellsNothing
  <2> QED
    BY <1>2, <1>5, <2>1, <2>2, <2>3
<1>12. CASE before # nm /\ before = RemoveFromIndex
  <2>1. ReorderEvents(child, before) = a
    BY <1>1, <1>2, <1>8, <1>12 DEF ReorderEvents
  <2>2. ReorderedIndex(idx, nm, before) = rest
    BY <1>6, <1>12 DEF ReorderedIndex
  <2> QED
    BY <1>2, <1>5, <1>9, <1>10, <2>1, <2>2
<1>13. CASE before # nm /\ before # RemoveFromIndex
  <2>1. PICK at : at = InsertPosition(rest, before)
    OBVIOUS
  <2>2. PICK e : e = IndexOp("i", parent, at, nm)
    OBVIOUS
  <2>3. ReorderEvents(child, before) = Append(a, e)
    BY <1>1, <1>2, <1>6, <1>8, <1>13, <2>1, <2>2 DEF ReorderEvents
  <2>4. ReorderedIndex(idx, nm, before) = InsertAt(rest, at, nm)
    BY <1>6, <1>13, <2>1 DEF ReorderedIndex
  <2>5. v = [q \in Path |-> v[q]] /\ x1[parent] = rest
    BY <1>4, <1>5, <1>9 DEF Put
  <2>6. <<e>> \in Seq(Event) /\ Tells(<<e>>, s, Ex, v, x1, v, Put(x1, parent, InsertAt(rest, at, nm)))
    BY <1>7, <2>1, <2>2, <2>5, TellsInsertion
  <2>7. a \o <<e>> \in Seq(Event)
        /\ Tells(a \o <<e>>, s, Ex, v, x, v, Put(x1, parent, InsertAt(rest, at, nm)))
    BY <1>10, <2>6, TellsBoth
  <2>8. a \o <<e>> = Append(a, e)
    <3>1. e \in Event
      BY <2>6
    <3> QED
      BY <1>10, <3>1, ConcatFacts
  <2>9. Put(x1, parent, InsertAt(rest, at, nm)) = Put(x, parent, InsertAt(rest, at, nm))
    BY <1>9 DEF Put
  <2> QED
    BY <1>2, <1>5, <2>3, <2>4, <2>7, <2>8, <2>9
<1> QED
  BY <1>11, <1>12, <1>13

(* What SetDataNode() tells of the node it is called for                   *)
AtTarget(target, old, created, v, flags, before) ==
  CASE target \notin nodes \cup created -> <<>>
    [] target \in created /\ flags.addToIndex ->
         InsertEvents(Parent(target), NodeName(target), v, before)
    [] OTHER ->
         (IF flags.addToIndex \/ before # RemoveFromIndex THEN <<>>
          ELSE EntryRemoval(Parent(target), IndexOf(Parent(target)), NodeName(target)))
         \o (IF StoresPayload(target, created, flags)
             THEN <<Changed(target, old, v, flags.supercede)>> ELSE <<>>)

LEMMA TellsAtTarget ==
  ASSUME IndexInv, NEW parent \in Path, NEW nm \in PathName, NEW target,
         target = Append(parent, nm), NEW created, NEW s, NEW Ex, MaySkip(s, Ex, target),
         NEW v \in Value, NEW flags \in SetFlags, NEW before, NEW old \in Value \cup {None},
         target \in created => old = None,
         NEW db, db = [q \in Path |-> db[q]], db[target] = old,
         NEW db1, db1 = IF StoresPayload(target, created, flags) THEN Put(db, target, v) ELSE db,
         NEW ix1, ix1 = Put(IX, parent, IndexAfterSet(IndexOf(parent), target, created, flags, before))
  PROVE  /\ AtTarget(target, old, created, v, flags, before) \in Seq(Event)
         /\ Tells(AtTarget(target, old, created, v, flags, before), s, Ex, db, IX, db1, ix1)
<1>1. target \in Path /\ Parent(target) = parent /\ NodeName(target) = nm
  BY ChildNames
<1>2. PICK idx : idx = IndexOf(parent)
  OBVIOUS
<1>3. ListsChildren(idx, parent, nodes)
  BY <1>2, IndexOfLists
<1>4. IX = [q \in Path |-> IX[q]] /\ IX[parent] = idx
  BY <1>2 DEF IX
<1>5. PICK x : x = IX
  OBVIOUS
<1>6. PICK new : new = IndexAfterSet(idx, target, created, flags, before)
  OBVIOUS
<1>7. ix1 = Put(x, parent, new)
  BY <1>2, <1>5, <1>6
<1>8. flags.supercede \in BOOLEAN /\ flags.addToIndex \in BOOLEAN
  BY InputAssumption
<1>9. PICK ev : ev = AtTarget(target, old, created, v, flags, before)
  OBVIOUS
<1>10. Put(x, parent, idx) = x
  BY <1>4, <1>5 DEF Put
<1>11. <<>> \in Seq(Event) /\ \A d, i : Tells(<<>>, s, Ex, d, i, d, i)
  BY TellsNothing
<1>12. CASE target \notin nodes \cup created
  <2>1. ev = <<>>
    BY <1>9, <1>12 DEF AtTarget
  <2>2. new = idx
    BY <1>6, <1>12 DEF IndexAfterSet
  <2>3. db1 = db
    BY <1>12 DEF StoresPayload
  <2> QED
    BY <1>5, <1>7, <1>9, <1>10, <1>11, <2>1, <2>2, <2>3
<1>13. CASE target \in created /\ flags.addToIndex
  <2>1. ev = InsertEvents(parent, nm, v, before)
    BY <1>1, <1>9, <1>13 DEF AtTarget
  <2>2. new = IF before = RemoveFromIndex THEN idx
              ELSE InsertAt(idx, InsertPosition(idx, before), nm)
    BY <1>1, <1>6, <1>13 DEF IndexAfterSet
  <2>3. db1 = Put(db, target, v) /\ db[target] = None
    BY <1>13 DEF StoresPayload
  <2>4. /\ InsertEvents(parent, nm, v, before) \in Seq(Event)
        /\ Tells(InsertEvents(parent, nm, v, before), s, Ex, db, x,
                 Put(db, target, v), Put(x, parent, new))
    <3>1. ListsChildren(IndexOf(parent), parent, nodes) /\ x[parent] = IndexOf(parent)
      BY <1>2, <1>3, <1>4, <1>5
    <3>2. x = [q \in Path |-> x[q]]
      BY <1>4, <1>5
    <3>3. new = IF before = RemoveFromIndex THEN IndexOf(parent)
                ELSE InsertAt(IndexOf(parent), InsertPosition(IndexOf(parent), before), nm)
      BY <1>2, <2>2
    <3> QED
      BY <2>3, <3>1, <3>2, <3>3, TellsInsert
  <2> QED
    BY <1>5, <1>7, <1>9, <2>1, <2>3, <2>4
<1>14. CASE target \in nodes \cup created /\ ~(target \in created /\ flags.addToIndex)
  <2>1. PICK a : a = IF flags.addToIndex \/ before # RemoveFromIndex THEN <<>>
                     ELSE EntryRemoval(parent, idx, nm)
    OBVIOUS
  <2>2. PICK b : b = IF StoresPayload(target, created, flags)
                     THEN <<Changed(target, old, v, flags.supercede)>> ELSE <<>>
    OBVIOUS
  <2>3. ev = a \o b
    BY <1>1, <1>2, <1>9, <1>14, <2>1, <2>2 DEF AtTarget
  <2>4. a \in Seq(Event) /\ Tells(a, s, Ex, db, x, db, Put(x, parent, new))
    <3>1. CASE flags.addToIndex \/ before # RemoveFromIndex
      <4>1. new = idx
        BY <1>6, <1>14, <3>1 DEF IndexAfterSet
      <4> QED
        BY <1>10, <1>11, <2>1, <3>1, <4>1
    <3>2. CASE ~(flags.addToIndex \/ before # RemoveFromIndex)
      <4>1. new = RemoveIndexEntry(idx, nm)
        BY <1>1, <1>6, <1>14, <3>2 DEF IndexAfterSet
      <4>2. /\ EntryRemoval(parent, idx, nm) \in Seq(Event)
            /\ Tells(EntryRemoval(parent, idx, nm), s, Ex, db, x, db,
                     Put(x, parent, RemoveIndexEntry(idx, nm)))
        BY <1>3, <1>4, <1>5, TellsRemoval
      <4> QED
        BY <2>1, <3>2, <4>1, <4>2
    <3> QED
      BY <3>1, <3>2
  <2>5. b \in Seq(Event) /\ Tells(b, s, Ex, db, Put(x, parent, new), db1, Put(x, parent, new))
    <3>1. PICK x1 : x1 = Put(x, parent, new)
      OBVIOUS
    <3>2. CASE StoresPayload(target, created, flags)
      <4>1. b = <<Changed(target, old, v, flags.supercede)>> /\ db1 = Put(db, target, v)
        BY <2>2, <3>2
      <4>2. /\ <<Changed(target, old, v, flags.supercede)>> \in Seq(Event)
            /\ Tells(<<Changed(target, old, v, flags.supercede)>>, s, Ex, db, x1,
                     Put(db, target, v), x1)
        BY <1>1, <1>8, TellsChanged
      <4> QED
        BY <3>1, <4>1, <4>2
    <3>3. CASE ~StoresPayload(target, created, flags)
      BY <1>11, <2>2, <3>1, <3>3
    <3> QED
      BY <3>2, <3>3
  <2>6. a \o b \in Seq(Event) /\ Tells(a \o b, s, Ex, db, x, db1, Put(x, parent, new))
    BY <2>4, <2>5, TellsBoth
  <2> QED
    BY <1>5, <1>7, <1>9, <2>3, <2>6
<1> QED
  BY <1>12, <1>13, <1>14

LEMMA MaySkipOwn ==
  ASSUME NEW s, NEW Ex, NEW p, s \in Ex \/ IsWithin(p, SessionPath(s))
  PROVE  MaySkip(s, Ex, p)
  BY DEF MaySkip, Heard

(* SetDataNode: the intermediate nodes, and then the node itself           *)
LEMMA TellsSetData ==
  ASSUME TreeFullInv, IndexInv, NEW s \in Session, NEW rel \in RelPath, NEW v \in Value,
         NEW flags \in SetFlags, ~flags.quiet, NEW before,
         ISetDataNode(s, rel, v, flags, before)
  PROVE  /\ SetDataEvents(s, rel, v, flags, before) \in Seq(Event)
         /\ Tells(SetDataEvents(s, rel, v, flags, before), s, {}, DB, IX, DB', IX')
<1>0. /\ TreeTypeOK /\ TreeShape /\ CountsOK /\ s \in sessions
      /\ SetDataNode(s, rel, v, flags)
  BY DEF TreeFullInv, TreeInv, ISetDataNode, SetDataNode
<1>1. PICK n : n = Len(rel)
  OBVIOUS
<1>2. n \in Nat \ {0} /\ SubSeq(rel, 1, n) = rel /\ rel \in Seq(Name)
  <2>1. rel \in Seq(Name) /\ rel # <<>>
    BY InputAssumption
  <2> QED
    BY <1>1, <2>1
<1>3. PICK at : at = [k \in 1 .. n |-> AbsPath(s, SubSeq(rel, 1, k))]
  OBVIOUS
<1>4. \A k \in 1 .. n : at[k] = AbsPath(s, SubSeq(rel, 1, k))
  BY <1>3
<1>5. \A k \in 1 .. n : at[k] \in Path /\ Len(at[k]) = k + 2 /\ OwnedBy(at[k], s)
  <2>1. ASSUME NEW k \in 1 .. n PROVE at[k] \in Path /\ Len(at[k]) = k + 2 /\ OwnedBy(at[k], s)
    BY <1>1, <1>4, AbsPathNames
  <2> QED
    BY <2>1
<1>6. PICK target : target = AbsPath(s, rel)
  OBVIOUS
<1>7. n \in 1 .. n /\ target = at[n]
  <2>1. n \in 1 .. n
    BY <1>2
  <2>2. at[n] = AbsPath(s, SubSeq(rel, 1, n))
    BY <1>4, <2>1
  <2> QED
    BY <1>2, <1>6, <2>1, <2>2
<1>8. PICK parent, nm : parent = Parent(target) /\ nm = NodeName(target)
  OBVIOUS
<1>9. /\ target \in Path /\ parent \in Path /\ nm \in PathName /\ target = Append(parent, nm)
      /\ Len(target) = n + 2
  <2>1. target \in Path /\ Len(target) > 1 /\ Len(target) = n + 2
    BY <1>2, <1>5, <1>7
  <2> QED
    BY <1>8, <2>1, ParentAndName
<1>10. \A k \in 1 .. n : MaySkip(s, {}, at[k])
  <2>1. ASSUME NEW k \in 1 .. n PROVE MaySkip(s, {}, at[k])
    <3>1. at[k] \in Path /\ Len(at[k]) > 2 /\ OwnedBy(at[k], s)
      BY <1>2, <1>5
    <3>2. IsWithin(at[k], SessionPath(s))
      BY <3>1, OwnedWithin
    <3> QED
      BY <3>2, MaySkipOwn
  <2> QED
    BY <2>1
<1>11. PICK created : created = CreatedBySetDataNode(s, rel, flags)
  OBVIOUS
<1>12. /\ created \cap nodes = {}
       /\ \A p \in created : p \in Path /\ \E k \in 1 .. n : p = at[k]
  <2>1. \A p \in created : p \in Missing(s, rel)
    BY <1>11 DEF CreatedBySetDataNode, Missing
  <2>2. ASSUME NEW p \in created
        PROVE  p \notin nodes /\ \E k \in 1 .. n : p = at[k]
    BY <1>1, <1>4, <2>1 DEF Missing
  <2> QED
    BY <1>5, <2>2
<1>13. target \in nodes \cup created => parent \in nodes \cup created
  <2>1. \A p \in created : Parent(p) \in nodes \cup created
    BY <1>0, <1>11, CreatedFacts
  <2>2. target \in nodes => parent \in nodes
    <3>1. Len(target) > 1
      BY <1>2, <1>9
    <3> QED
      BY <1>0, <1>8, <3>1 DEF TreeShape
  <2> QED
    BY <1>8, <2>1, <2>2
<1>14. PICK above : above = [k \in 1 .. n - 1 |-> AbsPath(s, SubSeq(rel, 1, k))]
  OBVIOUS
<1>15. /\ above \in Seq(Path) /\ Len(above) = n - 1
       /\ \A k \in 1 .. n - 1 : k \in 1 .. n /\ above[k] = at[k]
  <2>1. n - 1 \in Nat /\ \A k \in 1 .. n - 1 : k \in 1 .. n
    BY <1>2
  <2>2. \A k \in 1 .. n - 1 : above[k] = at[k] /\ above[k] \in Path
    BY <1>4, <1>5, <1>14, <2>1
  <2> QED
    BY <1>14, <2>1, <2>2
<1>16. PICK old : old = IF target \in created THEN None ELSE data[target]
  OBVIOUS
<1>17. PICK a : a = CreationEvents(above, created)
  OBVIOUS
<1>18. PICK old1 : old1 = IF target \in nodes THEN data[target] ELSE None
  OBVIOUS
<1>19. PICK b : b = AtTarget(target, old1, created, v, flags, before)
  OBVIOUS
<1>20. PICK db : db = [q \in Path |-> IF q \in created /\ \E j \in 1 .. n - 1 : above[j] = q
                                     THEN EmptyMsg ELSE DB[q]]
  OBVIOUS
<1>21. a \in Seq(Event) /\ Tells(a, s, {}, DB, IX, db, IX)
  <2>1. \A j, k \in 1 .. Len(above) : above[j] = above[k] => j = k
    <3>1. ASSUME NEW j \in 1 .. n - 1, NEW k \in 1 .. n - 1, above[j] = above[k]
          PROVE  j = k
      <4>1. Len(at[j]) = j + 2 /\ Len(at[k]) = k + 2 /\ at[j] = at[k]
        BY <1>5, <1>15, <3>1
      <4> QED
        BY <4>1
    <3> QED
      BY <1>15, <3>1
  <2>2. \A k \in 1 .. Len(above) : MaySkip(s, {}, above[k])
    BY <1>10, <1>15
  <2>3. db = [q \in Path |-> IF q \in created /\ \E j \in 1 .. Len(above) : above[j] = q
                             THEN EmptyMsg ELSE DB[q]]
    BY <1>15, <1>20
  <2> QED
    BY <1>0, <1>12, <1>15, <1>17, <2>1, <2>2, <2>3, TellsCreation
<1>22. \A j \in 1 .. n - 1 : above[j] # target
  <2>1. ASSUME NEW j \in 1 .. n - 1, above[j] = target PROVE FALSE
    <3>1. Len(at[j]) = j + 2 /\ at[j] = target
      BY <1>5, <1>15, <2>1
    <3> QED
      BY <1>2, <1>9, <3>1
  <2> QED
    BY <2>1
<1>23. /\ db[target] = old1 /\ old1 \in Value \cup {None} /\ (target \in created => old1 = None)
       /\ db = [q \in Path |-> db[q]]
  <2>1. db[target] = DB[target] /\ db = [q \in Path |-> db[q]]
    BY <1>9, <1>20, <1>22
  <2>2. DB[target] = old1
    BY <1>9, <1>18 DEF DB
  <2>3. old1 \in Value \cup {None}
    BY <1>0, <1>18 DEF TreeTypeOK
  <2> QED
    BY <1>12, <1>18, <2>1, <2>2, <2>3
<1>24. PICK db1, ix1 :
         /\ db1 = IF StoresPayload(target, created, flags) THEN Put(db, target, v) ELSE db
         /\ ix1 = Put(IX, parent, IndexAfterSet(IndexOf(parent), target, created, flags, before))
  OBVIOUS
<1>25. b \in Seq(Event) /\ Tells(b, s, {}, db, IX, db1, ix1)
  <2>1. MaySkip(s, {}, target)
    BY <1>7, <1>10
  <2> QED
    BY <1>9, <1>19, <1>23, <1>24, <2>1, TellsAtTarget, Zenon
<1>26. a \o b \in Seq(Event) /\ Tells(a \o b, s, {}, DB, IX, db1, ix1)
  BY <1>21, <1>25, TellsBoth
<1>27. SetDataEvents(s, rel, v, flags, before) = a \o b
  <2>1. PICK c : c = AtTarget(target, old, created, v, flags, before)
    OBVIOUS
  <2>2. c = b
    <3>1. target \in nodes \cup created => old = old1
      BY <1>12, <1>16, <1>18
    <3>2. CASE target \in nodes \cup created
      BY <1>19, <2>1, <3>1, <3>2
    <3>3. CASE target \notin nodes \cup created
      BY <1>19, <2>1, <3>3 DEF AtTarget
    <3> QED
      BY <3>2, <3>3
  <2>3. PICK ab : ab = a \o b
    OBVIOUS
  <2>4. ab \in Seq(Event) /\ ab = [k \in DOMAIN ab |-> ab[k]]
    <3>1. ab \in Seq(Event)
      BY <1>26, <2>3
    <3>2. ab \in [1 .. Len(ab) -> Event]
      BY <3>1, LenProperties
    <3> QED
      BY <3>1, <3>2
  <2>5. SetDataEvents(s, rel, v, flags, before) = [k \in DOMAIN ab |-> ab[k]]
    <3>1. ab = CreationEvents(above, created) \o AtTarget(target, old, created, v, flags, before)
      BY <1>17, <2>1, <2>2, <2>3
    <3> QED
      BY <1>1, <1>6, <1>11, <1>14, <1>16, <3>1 DEF SetDataEvents, AtTarget
  <2> QED
    BY <2>3, <2>4, <2>5
<1>28. db1 = DB'
  <2>1. /\ nodes' = nodes \cup created
        /\ \A p \in nodes \cup created :
             data'[p] = IF p = target /\ StoresPayload(p, created, flags) THEN v
                        ELSE IF p \in created THEN EmptyMsg ELSE data[p]
    BY <1>0, <1>6, <1>11 DEF SetDataNode, nodes
  <2>2. DB' = [q \in Path |-> IF q \in nodes \cup created THEN data'[q] ELSE None]
    BY <2>1 DEF DB
  <2>3. db1 = [q \in Path |-> db1[q]]
    BY <1>23, <1>24 DEF Put
  <2>4. ASSUME NEW q \in Path
        PROVE  db1[q] = IF q \in nodes \cup created THEN data'[q] ELSE None
    <3>1. db[q] = IF q \in created /\ q # target THEN EmptyMsg ELSE DB[q]
      <4>1. q \in created => ((\E j \in 1 .. n - 1 : above[j] = q) <=> q # target)
        <5>1. ASSUME q \in created, q # target PROVE \E j \in 1 .. n - 1 : above[j] = q
          <6>1. PICK k \in 1 .. n : q = at[k]
            BY <1>12, <5>1
          <6>2. k # n
            BY <1>7, <5>1, <6>1
          <6>3. k \in 1 .. n - 1
            BY <1>2, <6>2
          <6> QED
            BY <1>15, <6>1, <6>3
        <5> QED
          BY <1>22, <5>1
      <4> QED
        BY <1>20, <4>1
    <3>2. DB[q] = IF q \in nodes THEN data[q] ELSE None
      BY DEF DB
    <3>3. CASE q = target
      <4>1. CASE StoresPayload(target, created, flags)
        <5>1. q \in nodes \cup created
          BY <3>3, <4>1 DEF StoresPayload
        <5>2. db1[q] = v
          BY <1>24, <3>3, <4>1 DEF Put
        <5> QED
          BY <2>1, <3>3, <4>1, <5>1, <5>2
      <4>2. CASE ~StoresPayload(target, created, flags)
        <5>1. q \notin created /\ db1[q] = db[q]
          BY <1>24, <3>3, <4>2 DEF StoresPayload
        <5> QED
          BY <2>1, <3>1, <3>2, <3>3, <4>2, <5>1
      <4> QED
        BY <4>1, <4>2
    <3>4. CASE q # target
      <4>1. db1[q] = db[q]
        BY <1>24, <3>4 DEF Put
      <4> QED
        BY <1>12, <2>1, <3>1, <3>2, <3>4, <4>1
    <3> QED
      BY <3>3, <3>4
  <2> QED
    BY <2>2, <2>3, <2>4
<1>29. ix1 = IX'
  <2>1. /\ nodes' = nodes \cup created
        /\ index' = [p \in nodes' |-> IF p = parent
                       THEN IndexAfterSet(IndexOf(p), target, created, flags, before)
                       ELSE IndexOf(p)]
    BY <1>0, <1>6, <1>8, <1>11 DEF ISetDataNode, SetDataNode, nodes
  <2>2. IX' = [q \in Path |-> IF q \in nodes' THEN index'[q] ELSE <<>>]
    BY DEF IX, IndexOf
  <2>3. ix1 = [q \in Path |-> ix1[q]]
    BY <1>24 DEF Put
  <2>4. PICK new : new = IndexAfterSet(IndexOf(parent), target, created, flags, before)
    OBVIOUS
  <2>5. ASSUME NEW q \in Path
        PROVE  ix1[q] = IF q \in nodes' THEN index'[q] ELSE <<>>
    <3>1. ix1[q] = IF q = parent THEN new ELSE IndexOf(q)
      BY <1>24, <2>4 DEF Put, IX
    <3>2. q \in nodes' => index'[q] = IF q = parent THEN new ELSE IndexOf(q)
      BY <2>1, <2>4
    <3>3. q \notin nodes' => IndexOf(q) = <<>>
      BY <2>1 DEF IndexOf
    <3>4. parent \notin nodes' => new = IndexOf(parent)
      BY <1>13, <2>1, <2>4 DEF IndexAfterSet
    <3> QED
      BY <3>1, <3>2, <3>3, <3>4
  <2> QED
    BY <2>2, <2>3, <2>5
<1> QED
  BY <1>26, <1>27, <1>28, <1>29

-----------------------------------------------------------------------------
(***************************************************************************)
(* RemoveChild of many nodes, one after the other                          *)
(***************************************************************************)

LEMMA OrderUnique ==
  ASSUME NEW idx, NEW left, NEW a, NEW b, KeepsOrder(a, idx, left), KeepsOrder(b, idx, left)
  PROVE  a = b
<1>1. PICK g, m : Ranks(g, m, left) /\ a = [k \in 1 .. m |-> idx[g[k]]]
  BY DEF KeepsOrder
<1>2. PICK h, n : Ranks(h, n, left) /\ b = [k \in 1 .. n |-> idx[h[k]]]
  BY DEF KeepsOrder
<1>3. \A k \in 1 .. m : k \in 1 .. n /\ h[k] = g[k]
  BY <1>1, <1>2 DEF Ranks
<1>4. \A k \in 1 .. n : k \in 1 .. m
  BY <1>1, <1>2 DEF Ranks
<1>5. 1 .. m = 1 .. n
  BY <1>3, <1>4
<1> QED
  BY <1>1, <1>2, <1>3, <1>5

(* Without place j the places after it move up.                            *)
LEMMA RankWithout ==
  ASSUME NEW n \in Nat, NEW left \in SUBSET (1 .. n), NEW j \in left, NEW i \in left,
         i # j, NEW g, NEW m, Ranks(g, m, left)
  PROVE  /\ Rank(left \ {j}, i) = IF i < j THEN Rank(left, i) ELSE Rank(left, i) - 1
         /\ i < j <=> Rank(left, i) < Rank(left, j)
<1>1. IsFiniteSet(left)
  <2>1. IsFiniteSet(1 .. n)
    BY FS_Interval
  <2> QED
    BY <2>1, FS_Subset
<1>2. PICK A, B : A = {k \in left : k <= i} /\ B = {k \in left : k <= j}
  OBVIOUS
<1>3. i \in Nat /\ j \in Nat /\ \A k \in left : k \in Nat
  OBVIOUS
<1>4. IsFiniteSet(A) /\ IsFiniteSet(B) /\ A \in SUBSET left /\ B \in SUBSET left
  BY <1>1, <1>2, FS_Subset
<1>5. Rank(left, i) = Cardinality(A) /\ Rank(left, j) = Cardinality(B)
  BY <1>2 DEF Rank
<1>6. /\ Rank(left, i) \in Nat /\ Rank(left, j) \in Nat
      /\ Rank(left, i) # Rank(left, j)
  BY DEF Ranks
<1>7. PICK A1 : A1 = {k \in left \ {j} : k <= i}
  OBVIOUS
<1>8. Rank(left \ {j}, i) = Cardinality(A1)
  BY <1>7 DEF Rank
<1>9. CASE i < j
  <2>1. A1 = A
    BY <1>2, <1>3, <1>7, <1>9
  <2>2. A \in SUBSET B
    <3>1. \A k \in left : k <= i => k <= j
      BY <1>3, <1>9
    <3> QED
      BY <1>2, <3>1
  <2>3. Cardinality(A) <= Cardinality(B)
    BY <1>4, <2>2, FS_Subset
  <2> QED
    BY <1>5, <1>6, <1>8, <1>9, <2>1, <2>3
<1>10. CASE ~ (i < j)
  <2>1. j < i
    BY <1>3, <1>10
  <2>2. A1 = A \ {j} /\ j \in A
    BY <1>2, <1>3, <1>7, <2>1
  <2>3. Cardinality(A1) = Cardinality(A) - 1
    BY <1>4, <2>2, FS_RemoveElement
  <2>4. B \in SUBSET A
    <3>1. \A k \in left : k <= j => k <= i
      BY <1>3, <2>1
    <3> QED
      BY <1>2, <3>1
  <2>5. Cardinality(B) <= Cardinality(A)
    BY <1>4, <2>4, FS_Subset
  <2> QED
    BY <1>5, <1>6, <1>8, <1>10, <2>3, <2>5
<1> QED
  BY <1>9, <1>10

LEMMA RanksWithout ==
  ASSUME NEW n \in Nat, NEW left \in SUBSET (1 .. n), NEW g, NEW m, Ranks(g, m, left),
         NEW j \in left, NEW h,
         h = [k \in 1 .. m - 1 |-> g[IF k < Rank(left, j) THEN k ELSE k + 1]]
  PROVE  Ranks(h, m - 1, left \ {j})
<1>1. PICK r : r = Rank(left, j)
  OBVIOUS
<1>2. /\ m \in Nat /\ r \in 1 .. m /\ g[r] = j
      /\ \A k \in 1 .. m : g[k] \in left /\ Rank(left, g[k]) = k
      /\ \A i \in left : Rank(left, i) \in 1 .. m /\ g[Rank(left, i)] = i
  BY <1>1 DEF Ranks
<1>3. m - 1 \in Nat
  BY <1>2
<1>4. \A k \in 1 .. m - 1 : h[k] = g[IF k < r THEN k ELSE k + 1]
  BY <1>1
<1>5. ASSUME NEW i \in left \ {j}
      PROVE  /\ Rank(left \ {j}, i) = IF i < j THEN Rank(left, i) ELSE Rank(left, i) - 1
             /\ i < j <=> Rank(left, i) < r
             /\ Rank(left, i) # r
  <2>1. i \in left /\ i # j
    OBVIOUS
  <2>2. /\ Rank(left \ {j}, i) = IF i < j THEN Rank(left, i) ELSE Rank(left, i) - 1
        /\ i < j <=> Rank(left, i) < Rank(left, j)
    BY <2>1, RankWithout
  <2>3. Rank(left, i) # r
    BY <1>2, <2>1
  <2> QED
    BY <1>1, <2>2, <2>3
<1>6. ASSUME NEW k \in 1 .. m - 1
      PROVE  h[k] \in left \ {j} /\ Rank(left \ {j}, h[k]) = k
  <2>1. PICK l : l = IF k < r THEN k ELSE k + 1
    OBVIOUS
  <2>2. l \in 1 .. m /\ l # r /\ (l < r <=> k < r)
    BY <1>2, <2>1
  <2>3. h[k] = g[l] /\ g[l] \in left /\ Rank(left, g[l]) = l
    BY <1>2, <1>4, <2>1, <2>2
  <2>4. g[l] # j
    BY <1>1, <2>2, <2>3
  <2>5. Rank(left \ {j}, g[l]) = IF l < r THEN l ELSE l - 1
    BY <1>5, <2>3, <2>4
  <2> QED
    BY <1>2, <2>1, <2>2, <2>3, <2>4, <2>5
<1>7. ASSUME NEW i \in left \ {j}
      PROVE  Rank(left \ {j}, i) \in 1 .. m - 1 /\ h[Rank(left \ {j}, i)] = i
  <2>1. PICK a, b : a = Rank(left, i) /\ b = Rank(left \ {j}, i)
    OBVIOUS
  <2>2. a \in 1 .. m /\ g[a] = i /\ a # r /\ b = IF a < r THEN a ELSE a - 1
    BY <1>2, <1>5, <2>1
  <2>3. b \in 1 .. m - 1
    BY <1>2, <2>2
  <2>4. h[b] = g[IF b < r THEN b ELSE b + 1]
    BY <1>4, <2>3
  <2>5. a = IF b < r THEN b ELSE b + 1
    BY <1>2, <2>2
  <2> QED
    BY <2>1, <2>2, <2>3, <2>4, <2>5
<1>8. h \in [1 .. m - 1 -> left \ {j}]
  BY <1>6
<1> QED
  BY <1>3, <1>6, <1>7, <1>8 DEF Ranks

(* RemoveIndexEntry() of one more child                                    *)
LEMMA RemovesOneMore ==
  ASSUME NEW idx, NEW p, NEW N, ListsChildren(idx, p, N), NEW nm, NEW lost
  PROVE  RemoveIndexEntry(EntriesExcept(idx, lost), nm)
           = EntriesExcept(idx, lost \cup {EntryOf(idx, nm)})
<1>1. PICK j, n : j = EntryOf(idx, nm) /\ n = Len(idx)
  OBVIOUS
<1>2. idx \in Seq(PathName) /\ n \in Nat
  BY <1>1 DEF ListsChildren
<1>3. PICK new, left : new = EntriesExcept(idx, lost) /\ left = (1 .. n) \ lost
  OBVIOUS
<1>4. ListsChildren(new, p, N)
  <2>1. \A i \in 1 .. Len(idx) : i \notin lost => Append(p, idx[i]) \in N
    BY DEF ListsChildren
  <2> QED
    BY <1>3, <2>1, ListsKept
<1>5. KeepsOrder(new, idx, left)
  BY <1>1, <1>2, <1>3, EntriesKept
<1>6. PICK g, m : Ranks(g, m, left) /\ new = [k \in 1 .. m |-> idx[g[k]]]
  BY <1>5 DEF KeepsOrder
<1>7. /\ m \in Nat /\ new \in Seq(PathName) /\ Len(new) = m /\ DOMAIN new = 1 .. m
      /\ \A k \in 1 .. m : g[k] \in left /\ new[k] = idx[g[k]] /\ g[k] \in 1 .. n
  <2>1. new \in Seq(PathName)
    BY <1>4 DEF ListsChildren
  <2>2. m \in Nat /\ DOMAIN new = 1 .. m
    BY <1>6 DEF Ranks
  <2>3. Len(new) = m
    BY <2>1, <2>2
  <2>4. \A k \in 1 .. m : g[k] \in left /\ new[k] = idx[g[k]]
    BY <1>6 DEF Ranks
  <2> QED
    BY <1>3, <2>1, <2>2, <2>3, <2>4
<1>8. PICK fin : fin = EntriesExcept(idx, lost \cup {j})
  OBVIOUS
<1>9. KeepsOrder(fin, idx, left \ {j})
  <2>1. KeepsOrder(fin, idx, (1 .. n) \ (lost \cup {j}))
    BY <1>1, <1>2, <1>8, EntriesKept
  <2>2. (1 .. n) \ (lost \cup {j}) = left \ {j}
    BY <1>3
  <2> QED
    BY <2>1, <2>2
<1>10. /\ j = 0 => \A i \in 1 .. n : idx[i] # nm
       /\ j # 0 => j \in 1 .. n /\ \A i \in 1 .. n : idx[i] = nm <=> i = j
  BY <1>1, EntryFacts
<1>11. PICK r : r = EntryOf(new, nm)
  OBVIOUS
<1>12. /\ r = 0 => \A i \in 1 .. m : new[i] # nm
       /\ r # 0 => r \in 1 .. m /\ new[r] = nm
  <2>1. \/ /\ EntryOf(new, nm) = 0
           /\ \A i \in 1 .. Len(new) : new[i] # nm
        \/ /\ EntryOf(new, nm) \in 1 .. Len(new) /\ EntryOf(new, nm) # 0
           /\ \A i \in 1 .. Len(new) : new[i] = nm <=> i = EntryOf(new, nm)
    BY <1>4, EntryFacts
  <2> QED
    BY <1>7, <1>11, <2>1
<1>13. CASE j \notin left
  <2>1. \A k \in 1 .. m : new[k] # nm
    <3>1. ASSUME NEW k \in 1 .. m, new[k] = nm PROVE FALSE
      BY <1>7, <1>10, <1>13, <3>1
    <3> QED
      BY <3>1
  <2>2. r = 0
    BY <1>12, <2>1
  <2>3. RemoveIndexEntry(new, nm) = new
    BY <1>11, <2>2 DEF RemoveIndexEntry
  <2>4. left \ {j} = left
    BY <1>13
  <2>5. new = fin
    BY <1>5, <1>9, <2>4, OrderUnique
  <2> QED
    BY <1>1, <1>3, <1>8, <2>3, <2>5
<1>14. CASE j \in left
  <2>1. j \in 1 .. n /\ j # 0
    BY <1>2, <1>3, <1>14
  <2>2. PICK k : k = Rank(left, j)
    OBVIOUS
  <2>3. k \in 1 .. m /\ g[k] = j
    BY <1>6, <1>14, <2>2 DEF Ranks
  <2>4. new[k] = nm
    BY <1>7, <1>10, <2>1, <2>3
  <2>5. r \in 1 .. m /\ r # 0 /\ new[r] = nm
    BY <1>7, <1>12, <2>3, <2>4
  <2>6. r = k
    <3>1. g[r] = j
      BY <1>7, <1>10, <2>1, <2>5
    <3> QED
      BY <1>6, <2>2, <2>5, <3>1 DEF Ranks
  <2>7. RemoveIndexEntry(new, nm) = RemoveAt(new, k)
    BY <1>11, <2>5, <2>6 DEF RemoveIndexEntry
  <2>8. PICK rem : rem = RemoveAt(new, k)
    OBVIOUS
  <2>9. /\ DOMAIN rem = 1 .. m - 1 /\ rem \in Seq(PathName)
        /\ \A i \in 1 .. m - 1 : rem[i] = new[IF i < k THEN i ELSE i + 1]
    <3>1. k \in DOMAIN new /\ new \in Seq(PathName) /\ Len(new) = m
      BY <1>7, <2>3
    <3>2. /\ rem \in Seq(PathName)
          /\ DOMAIN rem = 1 .. Len(new) - 1
          /\ \A i \in 1 .. Len(new) - 1 : rem[i] = new[IF i < k THEN i ELSE i + 1]
      BY <2>8, <3>1, RemoveAtFacts
    <3> QED
      BY <3>1, <3>2
  <2>10. PICK h : h = [i \in 1 .. m - 1 |-> g[IF i < k THEN i ELSE i + 1]]
    OBVIOUS
  <2>11. Ranks(h, m - 1, left \ {j})
    <3>1. left \in SUBSET (1 .. n)
      BY <1>3
    <3>2. h = [i \in 1 .. m - 1 |-> g[IF i < Rank(left, j) THEN i ELSE i + 1]]
      BY <2>2, <2>10
    <3> QED
      BY <1>2, <1>6, <1>14, <3>1, <3>2, RanksWithout
  <2>12. rem = [i \in 1 .. m - 1 |-> idx[h[i]]]
    <3>1. ASSUME NEW i \in 1 .. m - 1 PROVE rem[i] = idx[h[i]]
      <4>1. PICK l : l = IF i < k THEN i ELSE i + 1
        OBVIOUS
      <4>2. l \in 1 .. m
        BY <1>7, <2>3, <4>1
      <4>3. rem[i] = new[l] /\ h[i] = g[l]
        BY <2>9, <2>10, <4>1
      <4> QED
        BY <1>7, <4>2, <4>3
    <3>2. rem = [i \in DOMAIN rem |-> rem[i]]
      <4>1. rem \in [1 .. Len(rem) -> PathName]
        BY <2>9, LenProperties
      <4> QED
        BY <4>1
    <3> QED
      BY <2>9, <3>1, <3>2
  <2>13. KeepsOrder(rem, idx, left \ {j})
    BY <2>11, <2>12 DEF KeepsOrder
  <2>14. rem = fin
    BY <1>9, <2>13, OrderUnique
  <2> QED
    BY <1>1, <1>3, <1>8, <2>7, <2>8, <2>14
<1> QED
  BY <1>13, <1>14

LEMMA ParentOfNode ==
  ASSUME TreeTypeOK, TreeShape, NEW p \in nodes
  PROVE  /\ p \in Path /\ Parent(p) \in Path /\ NodeName(p) \in PathName
         /\ Len(p) \in Nat \ {0} /\ Len(Parent(p)) = Len(p) - 1
<1>1. p \in Path /\ Len(p) >= 1
  BY DEF TreeTypeOK, TreeShape
<1>2. Len(p) \in Nat \ {0} /\ Len(p) \in 1 .. Len(p)
  BY <1>1 DEF Path
<1>3. NodeName(p) \in PathName
  BY <1>1, <1>2 DEF NodeName, Path
<1>4. SubSeq(p, 1, Len(p) - 1) \in Seq(PathName) /\ Len(SubSeq(p, 1, Len(p) - 1)) = Len(p) - 1
  <2>1. PICK n : n = Len(p) - 1
    OBVIOUS
  <2>2. n \in Nat /\ n <= Len(p) /\ n + 1 - 1 = n
    BY <1>2, <2>1
  <2>3. p \in Seq(PathName)
    BY <1>1 DEF Path
  <2>4. SubSeq(p, 1, n) \in Seq(PathName) /\ Len(SubSeq(p, 1, n)) = n
    <3>1. CASE n = 0
      BY <2>3, <3>1
    <3>2. CASE n # 0
      BY <2>2, <2>3, <3>2
    <3> QED
      BY <3>1, <3>2
  <2> QED
    BY <2>1, <2>4
<1> QED
  BY <1>1, <1>2, <1>3, <1>4 DEF Parent, Path

LEMMA IndexBeforeLists ==
  ASSUME IndexInv, NEW order, NEW k
  PROVE  ListsChildren(IndexBefore(order, k), Parent(order[k]), nodes)
<1>1. PICK idx : idx = IndexOf(Parent(order[k]))
  OBVIOUS
<1>2. ListsChildren(idx, Parent(order[k]), nodes)
  BY <1>1, IndexOfLists
<1>3. PICK lost : lost = {EntryOf(idx, NodeName(order[i])) :
                        i \in {j \in 1 .. k - 1 : Parent(order[j]) = Parent(order[k])}}
  OBVIOUS
<1>4. IndexBefore(order, k) = EntriesExcept(idx, lost)
  BY <1>1, <1>3 DEF IndexBefore
<1>5. \A i \in 1 .. Len(idx) : i \notin lost => Append(Parent(order[k]), idx[i]) \in nodes
  BY <1>2 DEF ListsChildren
<1> QED
  BY <1>2, <1>4, <1>5, ListsKept

RemoveOne(E, s, order, k) ==
  NotifyChanged(
    Notify(E, s, EntryRemoval(Parent(order[k]), IndexBefore(order, k), NodeName(order[k]))),
    s, Removed(order[k]))

LEMMA NotifyType ==
  ASSUME BaseInv, NEW D \in DType, NEW s, NEW events \in Seq(Event)
  PROVE  Notify(D, s, events) \in DType
<1>1. PICK f : IsNotifySeq(f, D, s, events) /\ Notify(D, s, events) = f[Len(events)]
  BY NotifySeqFold
<1>2. Len(events) \in 0 .. Len(events)
  OBVIOUS
<1> QED
  BY <1>1, <1>2 DEF IsNotifySeq

(* RemoveChild of one node: its parent's index no longer lists it, and it  *)
(* is gone.                                                                *)
LEMMA RemoveOneSync ==
  ASSUME BaseInv, TreeShape, IndexInv, NEW s \in Session, NEW order, NEW k,
         NEW p \in nodes, p = order[k], NEW D \in DType
  PROVE  /\ RemoveOne(D, s, order, k) \in DType
         /\ \A C \in Clients : \A Ex, iv, ix :
              /\ MaySkip(s, Ex, p) /\ InSync(C, D, Ex, iv, ix)
              /\ iv = [q \in Path |-> iv[q]] /\ ix = [q \in Path |-> ix[q]]
              /\ iv[p] = data[p] /\ ix[Parent(p)] = IndexBefore(order, k)
              => InSync(C, RemoveOne(D, s, order, k), Ex, Put(iv, p, None),
                        Put(ix, Parent(p), RemoveIndexEntry(IndexBefore(order, k), NodeName(p))))
<1>0. TreeTypeOK
  BY DEF BaseInv
<1>1. p \in Path /\ Parent(p) \in Path /\ NodeName(p) \in PathName /\ data[p] \in Value
  BY <1>0, ParentOfNode DEF TreeTypeOK
<1>2. PICK idx, P, nm : idx = IndexBefore(order, k) /\ P = Parent(p) /\ nm = NodeName(p)
  OBVIOUS
<1>3. ListsChildren(idx, P, nodes)
  BY <1>2, IndexBeforeLists
<1>4. PICK ev : ev = EntryRemoval(P, idx, nm)
  OBVIOUS
<1>5. \A Ex, iv, ix :
        /\ iv = [q \in Path |-> iv[q]] /\ ix = [q \in Path |-> ix[q]] /\ ix[P] = idx
        => Tells(ev, s, Ex, iv, ix, iv, Put(ix, P, RemoveIndexEntry(idx, nm)))
  BY <1>1, <1>2, <1>3, <1>4, TellsRemoval
<1>6. ev \in Seq(Event)
  <2>1. PICK v, x : v = [q \in Path |-> None] /\ x = [q \in Path |-> idx]
    OBVIOUS
  <2>2. v = [q \in Path |-> v[q]] /\ x = [q \in Path |-> x[q]] /\ x[P] = idx
    BY <1>1, <1>2, <2>1
  <2> QED
    BY <1>1, <1>2, <1>3, <1>4, <2>2, TellsRemoval
<1>7. PICK e : e = Removed(p)
  OBVIOUS
<1>8. e \in NodeEvent /\ e \in Event
  BY <1>1, <1>7 DEF Removed, NodeEvent, Event
<1>9. e.kind = "node" /\ e.path = p /\ e.old = data[p] /\ NewValue(e) = None
  BY <1>7 DEF Removed, NewValue
<1>10. PICK E : E = Notify(D, s, ev)
  OBVIOUS
<1>11. E \in DType
  BY <1>6, <1>10, NotifyType
<1>12. RemoveOne(D, s, order, k) = NotifyChanged(E, s, e)
  BY <1>2, <1>4, <1>7, <1>10 DEF RemoveOne
<1>13. NotifyChanged(E, s, e) \in DType
  <2>1. NotifyEvent(E, s, e) \in DType
    BY <1>8, <1>11, NotifyEventType
  <2> QED
    BY <1>9, <2>1 DEF NotifyEvent
<1>14. ASSUME NEW C \in Clients, NEW Ex, NEW iv, NEW ix, MaySkip(s, Ex, p),
              InSync(C, D, Ex, iv, ix), iv = [q \in Path |-> iv[q]],
              ix = [q \in Path |-> ix[q]], iv[p] = data[p], ix[P] = idx
       PROVE  InSync(C, NotifyChanged(E, s, e), Ex, Put(iv, p, None),
                     Put(ix, P, RemoveIndexEntry(idx, nm)))
  <2>1. PICK x1 : x1 = Put(ix, P, RemoveIndexEntry(idx, nm))
    OBVIOUS
  <2>2. Tells(ev, s, Ex, iv, ix, iv, x1)
    BY <1>5, <1>14, <2>1
  <2>3. InSync(C, E, Ex, iv, x1)
    BY <1>6, <1>10, <1>14, <2>2, NotifyTells
  <2>4. Records(e, iv, x1, Put(iv, p, None), x1)
    BY <1>9, <1>14 DEF Records, Put
  <2>5. MaySkip(s, Ex, e.path)
    BY <1>9, <1>14
  <2>6. InSync(C, NotifyChanged(E, s, e), Ex, Put(iv, p, None), x1)
    BY <1>8, <1>11, <2>3, <2>4, <2>5, NodeEventSync
  <2> QED
    BY <2>1, <2>6
<1> QED
  BY <1>2, <1>12, <1>13, <1>14

IsRemoveSeq(f, D, s, order, n) ==
  /\ f \in [0 .. n -> DType]
  /\ f[0] = D
  /\ \A k \in 1 .. n : f[k] = RemoveOne(f[k - 1], s, order, k)

LEMMA RemovedFold ==
  ASSUME BaseInv, TreeShape, IndexInv, NEW s \in Session, NEW order, NEW n \in Nat,
         DOMAIN order = 1 .. n, \A k \in 1 .. n : order[k] \in nodes, NEW D \in DType
  PROVE  \E f : IsRemoveSeq(f, D, s, order, n) /\ NotifyRemoved(D, s, order) = f[n]
<1> DEFINE ks == [k \in DOMAIN order |-> k]
           A == DType
           H == CHOOSE g : g = [S \in SUBSET (DOMAIN ks) |->
                  IF S = {} THEN D ELSE RemoveOne(g[S \ {Max(S)}], s, order, ks[Max(S)])]
<1>1. DOMAIN ks = 1 .. n /\ \A k \in 1 .. n : ks[k] = k /\ order[k] \in nodes
  OBVIOUS
<1>2. D \in A
  OBVIOUS
<1>3. PICK step : step = [k \in 1 .. n |-> [x \in A |-> RemoveOne(x, s, order, ks[k])]]
  OBVIOUS
<1>4. \A k \in 1 .. n, x \in A : RemoveOne(x, s, order, ks[k]) \in A
  BY <1>1, RemoveOneSync
<1>5. NotifyRemoved(D, s, order) = H[DOMAIN ks]
  BY DEF NotifyRemoved, RemoveOne, FoldLeft, MapThenFoldSet
<1> HIDE DEF ks, A, H
<1>6. /\ StepsIn(step, n, A)
      /\ \A k \in 1 .. n, x \in A : step[k][x] = RemoveOne(x, s, order, ks[k])
  BY <1>3, <1>4 DEF StepsIn
<1>7. PICK it : IsSeqFold(it, n, A, D, step)
  BY <1>1, <1>2, <1>6, SeqFoldExists
<1>8. ASSUME NEW S \in SUBSET (1 .. n), S # {}
      PROVE  it[S] = RemoveOne(it[S \ {Max(S)}], s, order, ks[Max(S)])
  <2>1. Max(S) \in 1 .. n /\ S \ {Max(S)} \in SUBSET (1 .. n)
    BY <1>1, <1>8, MaxOfPositions
  <2>2. it[S \ {Max(S)}] \in A /\ it[S] = step[Max(S)][it[S \ {Max(S)}]]
    BY <1>7, <1>8, <2>1 DEF IsSeqFold
  <2> QED
    BY <1>6, <2>1, <2>2
<1>9. it = [S \in SUBSET (1 .. n) |->
              IF S = {} THEN D ELSE RemoveOne(it[S \ {Max(S)}], s, order, ks[Max(S)])]
  BY <1>7, <1>8 DEF IsSeqFold
<1>10. H = [S \in SUBSET (1 .. n) |->
              IF S = {} THEN D ELSE RemoveOne(H[S \ {Max(S)}], s, order, ks[Max(S)])]
  BY <1>1, <1>9 DEF H
<1>11. Unfolds(H, n, A, D, step)
  <2>1. H[{}] = D
    BY <1>10
  <2>2. \A S \in SUBSET (1 .. n) : S # {} /\ H[S \ {Max(S)}] \in A =>
          H[S] = step[Max(S)][H[S \ {Max(S)}]]
    <3>1. ASSUME NEW S \in SUBSET (1 .. n), S # {}, H[S \ {Max(S)}] \in A
          PROVE  H[S] = step[Max(S)][H[S \ {Max(S)}]]
      <4>1. Max(S) \in 1 .. n
        BY <3>1, MaxOfPositions
      <4>2. H[S] = RemoveOne(H[S \ {Max(S)}], s, order, ks[Max(S)])
        BY <1>10, <3>1
      <4> QED
        BY <1>6, <3>1, <4>1, <4>2
    <3> QED
      BY <3>1
  <2> QED
    BY <2>1, <2>2 DEF Unfolds
<1>12. PICK f : IsTrace(f, n, A, D, step) /\ f[n] = H[1 .. n]
  BY <1>1, <1>2, <1>6, <1>11, SeqTrace
<1>13. f \in [0 .. n -> A] /\ f[0] = D
  BY <1>12 DEF IsTrace
<1>14. ASSUME NEW k \in 1 .. n PROVE f[k] = RemoveOne(f[k - 1], s, order, ks[k])
  <2>1. k - 1 \in 0 .. n
    BY <1>1
  <2>2. f[k - 1] \in A /\ f[k] = step[k][f[k - 1]]
    BY <1>12, <1>13, <2>1 DEF IsTrace
  <2> QED
    BY <1>6, <2>2
<1> QED
  BY <1>1, <1>5, <1>12, <1>13, <1>14 DEF IsRemoveSeq, A

LEMMA OrderFacts ==
  ASSUME NEW gone, IsFiniteSet(gone), NEW order \in SetToSeqs(gone)
  PROVE  \E n \in Nat : /\ DOMAIN order = 1 .. n
                        /\ \A k \in 1 .. n : order[k] \in gone
                        /\ \A j, k \in 1 .. n : order[j] = order[k] => j = k
                        /\ \A q \in gone : \E k \in 1 .. n : order[k] = q
<1>1. PICK n : n = Cardinality(gone)
  OBVIOUS
<1>2. n \in Nat
  BY <1>1, FS_CardinalityType
<1>3. order \in [1 .. n -> gone] /\ \A j, k \in 1 .. n : order[j] = order[k] => j = k
  BY <1>1 DEF SetToSeqs
<1>4. order \in Injection(1 .. n, gone)
  BY <1>3, Fun_IsInj
<1>5. IsFiniteSet(1 .. n) /\ Cardinality(1 .. n) = Cardinality(gone)
  BY <1>1, <1>2, FS_Interval
<1>6. order \in Surjection(1 .. n, gone)
  BY <1>4, <1>5, FS_Injection
<1>7. \A q \in gone : \E k \in 1 .. n : order[k] = q
  BY <1>6 DEF Surjection
<1> QED
  BY <1>2, <1>3, <1>7

LEMMA ExceptNothing ==
  ASSUME NEW idx \in Seq(PathName)
  PROVE  EntriesExcept(idx, {}) = idx
<1>1. PICK n : n = Len(idx)
  OBVIOUS
<1>2. n \in Nat /\ idx = [k \in 1 .. n |-> idx[k]] /\ (1 .. n) \ {} = 1 .. n
  <2>1. idx \in [1 .. n -> PathName]
    BY <1>1, LenProperties
  <2> QED
    BY <1>1, <2>1
<1>3. ASSUME NEW i \in 1 .. n PROVE Rank(1 .. n, i) = i
  <2>1. {j \in 1 .. n : j <= i} = 1 .. i
    BY <1>2
  <2>2. Cardinality(1 .. i) = i
    BY <1>2, FS_Interval
  <2> QED
    BY <2>1, <2>2 DEF Rank
<1>4. PICK g : g = [k \in 1 .. n |-> k]
  OBVIOUS
<1>5. Ranks(g, n, 1 .. n)
  BY <1>2, <1>3, <1>4 DEF Ranks
<1>6. KeepsOrder(idx, idx, 1 .. n)
  <2>1. idx = [k \in 1 .. n |-> idx[g[k]]]
    BY <1>2, <1>4
  <2> QED
    BY <1>5, <2>1 DEF KeepsOrder
<1>7. KeepsOrder(EntriesExcept(idx, {}), idx, 1 .. n)
  BY <1>1, <1>2, EntriesKept
<1> QED
  BY <1>6, <1>7, OrderUnique

LEMMA ExceptAll ==
  ASSUME NEW idx \in Seq(PathName), NEW lost, \A i \in 1 .. Len(idx) : i \in lost
  PROVE  EntriesExcept(idx, lost) = <<>>
<1>1. (1 .. Len(idx)) \ lost = {}
  OBVIOUS
<1>2. KeepsOrder(EntriesExcept(idx, lost), idx, {})
  BY <1>1, EntriesKept
<1>3. PICK g, m : Ranks(g, m, {}) /\ EntriesExcept(idx, lost) = [k \in 1 .. m |-> idx[g[k]]]
  BY <1>2 DEF KeepsOrder
<1>4. m \in Nat /\ \A k \in 1 .. m : FALSE
  BY <1>3 DEF Ranks
<1>5. m = 0
  <2>1. m # 0 => 1 \in 1 .. m
    BY <1>4
  <2> QED
    BY <1>4, <2>1
<1> QED
  BY <1>3, <1>5

(* The places of q's index that the first k removals take                  *)
Lost(order, k, q) ==
  {EntryOf(IndexOf(q), NodeName(order[i])) : i \in {j \in 1 .. k : Parent(order[j]) = q}}

LEMMA LostMore ==
  ASSUME NEW order, NEW k \in Nat \ {0}
  PROVE  /\ IndexBefore(order, k) =
              EntriesExcept(IndexOf(Parent(order[k])), Lost(order, k - 1, Parent(order[k])))
         /\ Lost(order, k, Parent(order[k])) =
              Lost(order, k - 1, Parent(order[k]))
              \cup {EntryOf(IndexOf(Parent(order[k])), NodeName(order[k]))}
         /\ \A q : q # Parent(order[k]) => Lost(order, k, q) = Lost(order, k - 1, q)
<1>1. \A j : j \in 1 .. k <=> j \in 1 .. k - 1 \/ j = k
  OBVIOUS
<1>2. IndexBefore(order, k) =
        EntriesExcept(IndexOf(Parent(order[k])), Lost(order, k - 1, Parent(order[k])))
  BY DEF IndexBefore, Lost
<1>3. Lost(order, k, Parent(order[k])) =
        Lost(order, k - 1, Parent(order[k]))
        \cup {EntryOf(IndexOf(Parent(order[k])), NodeName(order[k]))}
  BY <1>1 DEF Lost
<1>4. ASSUME NEW q, q # Parent(order[k]) PROVE Lost(order, k, q) = Lost(order, k - 1, q)
  BY <1>1, <1>4 DEF Lost
<1> QED
  BY <1>2, <1>3, <1>4

(* The database when the first k nodes of order are gone                   *)
DBBefore(order, k) ==
  [q \in Path |-> IF q \in nodes /\ \A i \in 1 .. k : order[i] # q THEN data[q] ELSE None]
IXBefore(order, k) == [q \in Path |-> EntriesExcept(IndexOf(q), Lost(order, k, q))]

(* The n elements of order are those of gone.                              *)
Enumerates(order, n, gone) ==
  /\ DOMAIN order = 1 .. n
  /\ \A k \in 1 .. n : order[k] \in gone
  /\ \A j, k \in 1 .. n : order[j] = order[k] => j = k
  /\ \A q \in gone : \E k \in 1 .. n : order[k] = q

(* Subtrees go as a whole.                                                 *)
Whole(gone) == \A q \in nodes : Len(q) > 1 /\ Parent(q) \in gone => q \in gone

LEMMA RemovedStep ==
  ASSUME TreeTypeOK, TreeShape, IndexInv, NEW n \in Nat, NEW order, NEW gone \in SUBSET nodes,
         Enumerates(order, n, gone), NEW k \in 1 .. n, NEW p, p = order[k]
  PROVE  /\ DBBefore(order, k - 1)[p] = data[p]
         /\ IXBefore(order, k - 1)[Parent(p)] = IndexBefore(order, k)
         /\ DBBefore(order, k) = Put(DBBefore(order, k - 1), p, None)
         /\ IXBefore(order, k) =
              Put(IXBefore(order, k - 1), Parent(p),
                  RemoveIndexEntry(IndexBefore(order, k), NodeName(p)))
<1>1. p \in nodes /\ p \in Path /\ Parent(p) \in Path /\ k \in Nat \ {0}
  <2>1. p \in nodes
    BY DEF Enumerates
  <2> QED
    BY <2>1, ParentOfNode
<1>2. \A j : j \in 1 .. k <=> j \in 1 .. k - 1 \/ j = k
  OBVIOUS
<1>3. \A i \in 1 .. k - 1 : order[i] # p
  BY DEF Enumerates
<1>4. DBBefore(order, k - 1)[p] = data[p]
  BY <1>1, <1>3 DEF DBBefore
<1>5. PICK P, idx, nm : P = Parent(p) /\ idx = IndexOf(P) /\ nm = NodeName(p)
  OBVIOUS
<1>6. ListsChildren(idx, P, nodes)
  BY <1>5, IndexOfLists
<1>7. PICK lost : lost = Lost(order, k - 1, P)
  OBVIOUS
<1>8. IndexBefore(order, k) = EntriesExcept(idx, lost)
  BY <1>1, <1>5, <1>7, LostMore
<1>9. IXBefore(order, k - 1)[P] = IndexBefore(order, k)
  BY <1>1, <1>5, <1>7, <1>8 DEF IXBefore
<1>10. DBBefore(order, k) = Put(DBBefore(order, k - 1), p, None)
  <2>1. ASSUME NEW q \in Path
        PROVE  (IF q \in nodes /\ \A i \in 1 .. k : order[i] # q THEN data[q] ELSE None)
               = IF q = p THEN None ELSE DBBefore(order, k - 1)[q]
    <3>1. (\A i \in 1 .. k : order[i] # q) <=> (\A i \in 1 .. k - 1 : order[i] # q) /\ q # p
      BY <1>2
    <3> QED
      BY <3>1 DEF DBBefore
  <2> QED
    BY <2>1 DEF DBBefore, Put
<1>11. EntriesExcept(idx, Lost(order, k, P)) = RemoveIndexEntry(IndexBefore(order, k), nm)
  <2>1. Lost(order, k, P) = lost \cup {EntryOf(idx, nm)}
    BY <1>1, <1>5, <1>7, LostMore
  <2> QED
    BY <1>6, <1>8, <2>1, RemovesOneMore
<1>12. IXBefore(order, k) = Put(IXBefore(order, k - 1), P,
                                RemoveIndexEntry(IndexBefore(order, k), nm))
  <2>1. ASSUME NEW q \in Path
        PROVE  EntriesExcept(IndexOf(q), Lost(order, k, q))
               = IF q = P THEN RemoveIndexEntry(IndexBefore(order, k), nm)
                 ELSE IXBefore(order, k - 1)[q]
    <3>1. CASE q = P
      BY <1>5, <1>11, <3>1
    <3>2. CASE q # P
      <4>1. Lost(order, k, q) = Lost(order, k - 1, q)
        BY <1>1, <1>5, <3>2, LostMore
      <4> QED
        BY <3>2, <4>1 DEF IXBefore
    <3> QED
      BY <3>1, <3>2
  <2> QED
    BY <2>1 DEF IXBefore, Put
<1> QED
  BY <1>4, <1>5, <1>9, <1>10, <1>12

(* Before the first and after the last                                     *)
LEMMA RemovedEnds ==
  ASSUME TreeTypeOK, TreeShape, IndexInv, NEW gone \in SUBSET nodes, Whole(gone),
         NEW n \in Nat, NEW order, Enumerates(order, n, gone)
  PROVE  /\ DBBefore(order, 0) = DB /\ IXBefore(order, 0) = IX
         /\ DBBefore(order, n) = [q \in Path |-> IF q \in nodes \ gone THEN data[q] ELSE None]
         /\ IXBefore(order, n) =
              [q \in Path |-> IF q \in nodes \ gone THEN IndexWithout(gone)[q] ELSE <<>>]
<1>0. 1 .. 0 = {}
  OBVIOUS
<1>1. \A q : ListsChildren(IndexOf(q), q, nodes) /\ IndexOf(q) \in Seq(PathName)
  BY IndexOfLists DEF ListsChildren
<1>2. DBBefore(order, 0) = DB
  BY <1>0 DEF DBBefore, DB
<1>3. IXBefore(order, 0) = IX
  <2>1. ASSUME NEW q \in Path PROVE EntriesExcept(IndexOf(q), Lost(order, 0, q)) = IndexOf(q)
    <3>1. Lost(order, 0, q) = {}
      BY <1>0 DEF Lost
    <3> QED
      BY <1>1, <3>1, ExceptNothing
  <2> QED
    BY <2>1 DEF IXBefore, IX
<1>4. \A q : (\E k \in 1 .. n : order[k] = q) <=> q \in gone
  BY DEF Enumerates
<1>5. DBBefore(order, n) = [q \in Path |-> IF q \in nodes \ gone THEN data[q] ELSE None]
  BY <1>4 DEF DBBefore
<1>6. ASSUME NEW q \in Path, q \in nodes \ gone
      PROVE  EntriesExcept(IndexOf(q), Lost(order, n, q)) = IndexWithout(gone)[q]
  <2>1. IndexOf(q) = index[q]
    BY <1>6 DEF IndexOf
  <2>2. ASSUME NEW x \in gone, Parent(x) = q PROVE x \in ChildrenOf(q)
    <3>1. Len(x) \in Nat /\ Len(q) \in Nat \ {0} /\ Len(q) = Len(x) - 1
      BY <1>6, <2>2, ParentOfNode
    <3>2. Len(x) > 1
      BY <3>1
    <3> QED
      BY <2>2, <3>2 DEF ChildrenOf
  <2>3. \A x \in ChildrenOf(q) : Parent(x) = q
    BY DEF ChildrenOf
  <2>4. Lost(order, n, q) = {EntryOf(index[q], NodeName(x)) : x \in gone \cap ChildrenOf(q)}
    <3>1. ASSUME NEW i \in 1 .. n, Parent(order[i]) = q
          PROVE  order[i] \in gone \cap ChildrenOf(q)
      BY <1>4, <2>2, <3>1
    <3>2. ASSUME NEW x \in gone \cap ChildrenOf(q)
          PROVE  \E i \in 1 .. n : Parent(order[i]) = q /\ order[i] = x
      BY <1>4, <2>3
    <3> QED
      BY <2>1, <3>1, <3>2 DEF Lost
  <2> QED
    BY <1>6, <2>1, <2>4 DEF IndexWithout
<1>7. ASSUME NEW q \in Path, q \notin nodes \ gone
      PROVE  EntriesExcept(IndexOf(q), Lost(order, n, q)) = <<>>
  <2>1. PICK idx : idx = IndexOf(q)
    OBVIOUS
  <2>2. idx \in Seq(PathName)
    BY <1>1, <2>1
  <2>3. ASSUME NEW i \in 1 .. Len(idx) PROVE i \in Lost(order, n, q)
    <3>1. q \in gone
      <4>1. CASE q \notin nodes
        BY <2>1, <2>3, <4>1 DEF IndexOf
      <4> QED
        BY <1>7, <4>1
    <3>2. PICK nm : nm = idx[i]
      OBVIOUS
    <3>3. nm \in PathName
      BY <2>2, <3>2
    <3>4. PICK x : x = Append(q, nm)
      OBVIOUS
    <3>5. x \in nodes /\ Parent(x) = q /\ NodeName(x) = nm /\ Len(x) = Len(q) + 1
      <4>1. x \in nodes
        BY <1>1, <2>1, <3>2, <3>4 DEF ListsChildren
      <4> QED
        BY <3>3, <3>4, <4>1, ChildNames
    <3>6. Len(x) > 1
      <4>1. Len(q) \in Nat \ {0}
        BY <3>1, ParentOfNode
      <4> QED
        BY <3>5, <4>1
    <3>7. x \in gone
      BY <3>1, <3>5, <3>6 DEF Whole
    <3>8. PICK k \in 1 .. n : order[k] = x
      BY <1>4, <3>7
    <3>9. EntryOf(idx, nm) = i
      <4>1. ListsChildren(idx, q, nodes)
        BY <1>1, <2>1
      <4> QED
        BY <3>2, <4>1, EntryFacts
    <3> QED
      BY <2>1, <3>5, <3>8, <3>9 DEF Lost
  <2> QED
    BY <2>1, <2>2, <2>3, ExceptAll
<1>8. IXBefore(order, n) =
        [q \in Path |-> IF q \in nodes \ gone THEN IndexWithout(gone)[q] ELSE <<>>]
  BY <1>6, <1>7 DEF IXBefore
<1> QED
  BY <1>2, <1>3, <1>5, <1>8

(* The clients hear of every node that RemoveChild() takes, and of every   *)
(* entry it takes out of an index.                                         *)
LEMMA RemovedSync ==
  ASSUME BaseInv, TreeShape, IndexInv, NEW s \in Session, NEW gone \in SUBSET nodes, Whole(gone),
         NEW order \in SetToSeqs(gone), NEW C \in Clients, NEW D, NEW Ex,
         \A p \in gone : MaySkip(s, Ex, p), InSync(C, D, Ex, DB, IX),
         NEW db1, db1 = [q \in Path |-> IF q \in nodes \ gone THEN data[q] ELSE None],
         NEW ix1, ix1 = [q \in Path |-> IF q \in nodes \ gone THEN IndexWithout(gone)[q] ELSE <<>>]
  PROVE  InSync(C, NotifyRemoved(D, s, order), Ex, db1, ix1)
<1>0. TreeTypeOK /\ IsFiniteSet(gone) /\ D \in DType
  <2>1. TreeTypeOK /\ IsFiniteSet(nodes)
    BY DEF BaseInv, TreeTypeOK
  <2> QED
    BY <2>1, FS_Subset DEF InSync
<1>1. PICK n \in Nat : /\ DOMAIN order = 1 .. n
                       /\ \A k \in 1 .. n : order[k] \in gone
                       /\ \A j, k \in 1 .. n : order[j] = order[k] => j = k
                       /\ \A q \in gone : \E k \in 1 .. n : order[k] = q
  BY <1>0, OrderFacts
<1>2. Enumerates(order, n, gone) /\ \A k \in 1 .. n : order[k] \in nodes
  BY <1>1 DEF Enumerates
<1>3. PICK f : IsRemoveSeq(f, D, s, order, n) /\ NotifyRemoved(D, s, order) = f[n]
  BY <1>0, <1>1, <1>2, RemovedFold
<1>4. /\ DBBefore(order, 0) = DB /\ IXBefore(order, 0) = IX
      /\ DBBefore(order, n) = db1 /\ IXBefore(order, n) = ix1
  BY <1>0, <1>2, RemovedEnds
<1>5. PICK W : W = {k \in 0 .. n : InSync(C, f[k], Ex, DBBefore(order, k), IXBefore(order, k))}
  OBVIOUS
<1>6. 0 \in W
  <2>1. f[0] = D /\ 0 \in 0 .. n
    BY <1>3 DEF IsRemoveSeq
  <2> QED
    BY <1>4, <1>5, <2>1
<1>7. ASSUME NEW k \in 1 .. n, k - 1 \in W PROVE k \in W
  <2>1. /\ k - 1 \in 0 .. n /\ k \in 0 .. n /\ f[k - 1] \in DType
        /\ f[k] = RemoveOne(f[k - 1], s, order, k)
    BY <1>3 DEF IsRemoveSeq
  <2>2. PICK p : p = order[k]
    OBVIOUS
  <2>3. p \in nodes /\ MaySkip(s, Ex, p)
    BY <1>1, <1>2, <2>2
  <2>4. PICK iv, ix : iv = DBBefore(order, k - 1) /\ ix = IXBefore(order, k - 1)
    OBVIOUS
  <2>5. /\ iv[p] = data[p]
        /\ ix[Parent(p)] = IndexBefore(order, k)
        /\ DBBefore(order, k) = Put(iv, p, None)
        /\ IXBefore(order, k) =
             Put(ix, Parent(p), RemoveIndexEntry(IndexBefore(order, k), NodeName(p)))
    BY <1>0, <1>2, <2>2, <2>4, RemovedStep
  <2>6. iv = [q \in Path |-> iv[q]] /\ ix = [q \in Path |-> ix[q]]
    BY <2>4 DEF DBBefore, IXBefore
  <2>7. InSync(C, f[k - 1], Ex, iv, ix)
    BY <1>5, <1>7, <2>4
  <2>8. InSync(C, RemoveOne(f[k - 1], s, order, k), Ex, Put(iv, p, None),
               Put(ix, Parent(p), RemoveIndexEntry(IndexBefore(order, k), NodeName(p))))
    BY <2>1, <2>2, <2>3, <2>5, <2>6, <2>7, RemoveOneSync
  <2> QED
    BY <1>5, <2>1, <2>5, <2>8
<1>8. n \in W
  <2>1. \A k \in 0 .. n : k \in W
    BY <1>6, <1>7, PositionInduction
  <2>2. n \in 0 .. n
    OBVIOUS
  <2> QED
    BY <2>1, <2>2
<1> QED
  BY <1>3, <1>4, <1>5, <1>8

-----------------------------------------------------------------------------
(***************************************************************************)
(* The inductive invariant: nothing waits in the Messages being gathered   *)
(* between two commands, and every client is in step with the database.    *)
(***************************************************************************)

Idle ==
  setting = None => /\ pend = [t \in Session |-> NoItems]
                    /\ ipend = [t \in Session |-> <<>>]

DeliveryInv ==
  /\ TreeFullInv /\ IndexInv /\ IsFiniteSet(sessions)
  /\ client \in Clients
  /\ Idle
  /\ InSync(client, Pending, {}, DB, IX)

LEMMA BecomesIs ==
  ASSUME NEW D \in DType, Becomes(D)
  PROVE  Pending' = D
  BY DEF Becomes, Pending, DType

(* What the invariant asks of the state after a step                       *)
NextItem(C, D, iv, u, q) ==
  /\ u \in sessions' /\ Heard(u, q) => XItem(C, D, u, q) = Visible(u, q, iv[q])'
  /\ u \notin sessions' => XItem(C, D, u, q) = None

NextIndex(C, D, ix, u, q) ==
  /\ u \in sessions' /\ Heard(u, q) =>
       XIndex(C, D, u, q) = IF Matched(u, q)' THEN ix[q] ELSE <<>>
  /\ u \notin sessions' => XIndex(C, D, u, q) = <<>>

LEMMA SyncNext ==
  ASSUME NEW C, NEW D \in DType, NEW iv, NEW ix,
         client' = C, Pending' = D, DB' = iv, IX' = ix,
         \A u \in Session, q \in Path : NextItem(C, D, iv, u, q),
         Filter = {NoFilter} => \A u \in Session, q \in Path : NextIndex(C, D, ix, u, q)
  PROVE  InSync(client, Pending, {}, DB, IX)'
<1>1. \A u \in Session, q \in Path :
        /\ u \in sessions' \ {} /\ Heard(u, q)' =>
             XItem(client, Pending, u, q)' = Visible(u, q, DB[q])'
        /\ u \notin sessions' => XItem(client, Pending, u, q)' = None
  <2>1. ASSUME NEW u \in Session, NEW q \in Path
        PROVE  /\ u \in sessions' \ {} /\ Heard(u, q)' =>
                    XItem(client, Pending, u, q)' = Visible(u, q, DB[q])'
               /\ u \notin sessions' => XItem(client, Pending, u, q)' = None
    <3>1. XItem(client, Pending, u, q)' = XItem(C, D, u, q)
      BY DEF XItem, Seen, ItemAt
    <3>2. Visible(u, q, DB[q])' = Visible(u, q, iv[q])'
      BY DEF Visible, MatchesNode
    <3>3. Heard(u, q)' = Heard(u, q)
      BY DEF Heard
    <3>4. NextItem(C, D, iv, u, q)
      OBVIOUS
    <3> QED
      BY <3>1, <3>2, <3>3, <3>4 DEF NextItem
  <2> QED
    BY <2>1
<1>2. Filter = {NoFilter} =>
        \A u \in Session, q \in Path :
          /\ u \in sessions' \ {} /\ Heard(u, q)' =>
               XIndex(client, Pending, u, q)' = IF Matched(u, q)' THEN IX'[q] ELSE <<>>
          /\ u \notin sessions' => XIndex(client, Pending, u, q)' = <<>>
  <2>1. ASSUME NEW u \in Session, NEW q \in Path, Filter = {NoFilter}
        PROVE  /\ u \in sessions' \ {} /\ Heard(u, q)' =>
                    XIndex(client, Pending, u, q)' = IF Matched(u, q)' THEN IX'[q] ELSE <<>>
               /\ u \notin sessions' => XIndex(client, Pending, u, q)' = <<>>
    <3>1. XIndex(client, Pending, u, q)' = XIndex(C, D, u, q)
      BY DEF XIndex, Seen, ClientIndex
    <3>3. Heard(u, q)' = Heard(u, q)
      BY DEF Heard
    <3>4. NextIndex(C, D, ix, u, q)
      BY <2>1
    <3> QED
      BY <3>1, <3>3, <3>4 DEF NextIndex
  <2> QED
    BY <2>1
<1>3. Pending' \in DType
  OBVIOUS
<1> QED
  BY <1>1, <1>2, <1>3 DEF InSync, ItemsSync, IndexSync

(* A step that leaves the sessions and their subscriptions alone           *)
LEMMA SyncSame ==
  ASSUME NEW C, NEW D, NEW iv, NEW ix, client' = C, Pending' = D, DB' = iv, IX' = ix,
         InSync(C, D, {}, iv, ix), UNCHANGED <<sessions, subs, filters>>
  PROVE  InSync(client, Pending, {}, DB, IX)'
<1>1. \A u, q : /\ Visible(u, q, iv[q])' = Visible(u, q, iv[q])
                /\ Matched(u, q)' = Matched(u, q)
  BY DEF Visible, MatchesNode, Matched
<1>2. \A u \in Session, q \in Path : NextItem(C, D, iv, u, q)
  BY <1>1 DEF NextItem, InSync, ItemsSync
<1>3. Filter = {NoFilter} => \A u \in Session, q \in Path : NextIndex(C, D, ix, u, q)
  BY <1>1 DEF NextIndex, InSync, IndexSync
<1>4. D \in DType
  BY DEF InSync
<1> QED
  BY <1>2, <1>3, <1>4, SyncNext

LEMMA InvFacts ==
  ASSUME DeliveryInv
  PROVE  /\ TreeTypeOK /\ MarksMatchSubscriptions /\ TreeShape /\ CountsOK /\ IndexInv
         /\ BaseInv /\ client \in Clients /\ Pending \in DType /\ IsFiniteSet(sessions)
         /\ InSync(client, Pending, {}, DB, IX)
  BY DEF DeliveryInv, TreeFullInv, TreeInv, BaseInv, InSync

(* A push at the end of a command: nothing is left waiting.                *)
LEMMA PushedInSync ==
  ASSUME NEW E, NEW C \in Clients, NEW Ex, NEW iv, NEW ix, InSync(C, E, Ex, iv, ix)
  PROVE  InSync(C, Push(E), Ex, iv, ix) /\ Push(E) \in DType
<1>1. E \in DType
  BY DEF InSync
<1>2. Push(E) \in DType /\ Keeps(C, E, Push(E))
  BY <1>1, PushKeeps
<1> QED
  BY <1>1, <1>2, KeepsSync

LEMMA PushedIdle ==
  ASSUME NEW E \in DType, Becomes(Push(E))
  PROVE  Idle'
<1>1. /\ Push(E).pend = [t \in Session |-> NoItems]
      /\ Push(E).ipend = [t \in Session |-> <<>>]
  BY PushFacts
<1> QED
  BY <1>1 DEF Becomes, Idle

(* AttachedToServer: the new session subscribes to nothing yet.            *)
LEMMA AttachDelivery ==
  ASSUME DeliveryInv, NEW s \in Session, DAttachedToServer(s)
  PROVE  /\ InSync(client, Pending, {}, DB, IX)' /\ client' \in Clients /\ Idle'
         /\ IsFiniteSet(sessions')
<1>0. /\ TreeTypeOK /\ TreeShape /\ BaseInv /\ client \in Clients /\ Pending \in DType
      /\ IsFiniteSet(sessions) /\ InSync(client, Pending, {}, DB, IX)
  BY InvFacts
<1>1. /\ IAttachedToServer(s) /\ AttachedToServer(s) /\ s \notin sessions
      /\ Becomes(Push(Notify(Pending, s, AttachEvents(s))))
      /\ client' = client /\ setting' = setting
  BY DEF DAttachedToServer, IAttachedToServer, AttachedToServer
<1>2. PICK paths, created : /\ paths = <<HostPath(s), SessionPath(s)>>
                            /\ created = {HostPath(s), SessionPath(s)} \ nodes
  OBVIOUS
<1>3. /\ paths \in Seq(Path) /\ Len(paths) = 2 /\ paths[1] = HostPath(s)
      /\ paths[2] = SessionPath(s) /\ HostPath(s) # SessionPath(s) /\ 1 .. 2 = {1, 2}
  <2>1. HostPath(s) \in Path /\ SessionPath(s) \in Path /\ HostPath(s) # SessionPath(s)
    BY SessionNames
  <2> QED
    BY <1>2, <2>1
<1>4. PICK v1 : v1 = [q \in Path |-> IF q \in created /\ \E j \in 1 .. Len(paths) : paths[j] = q
                                    THEN EmptyMsg ELSE DB[q]]
  OBVIOUS
<1>5. PICK ev : ev = AttachEvents(s)
  OBVIOUS
<1>6. ev \in Seq(Event) /\ Tells(ev, s, {}, DB, IX, v1, IX)
  <2>1. ev = CreationEvents(paths, created)
    BY <1>2, <1>5 DEF AttachEvents
  <2>2. \A k \in 1 .. Len(paths) : MaySkip(s, {}, paths[k])
    BY <1>1 DEF MaySkip
  <2>3. \A j, k \in 1 .. Len(paths) : paths[j] = paths[k] => j = k
    BY <1>3
  <2>4. created \cap nodes = {}
    BY <1>2
  <2> QED
    BY <1>0, <1>3, <1>4, <2>1, <2>2, <2>3, <2>4, TellsCreation
<1>7. PICK E : E = Notify(Pending, s, ev)
  OBVIOUS
<1>8. InSync(client, E, {}, v1, IX)
  BY <1>0, <1>6, <1>7, NotifyTells
<1>9. PICK D : D = Push(E)
  OBVIOUS
<1>10. D \in DType /\ InSync(client, D, {}, v1, IX) /\ E \in DType
  BY <1>0, <1>8, <1>9, PushedInSync DEF InSync
<1>11. Becomes(D) /\ Pending' = D /\ Idle'
  BY <1>1, <1>5, <1>7, <1>9, <1>10, BecomesIs, PushedIdle
<1>12. DB' = v1
  <2>1. /\ nodes' = nodes \cup created
        /\ \A q \in nodes \cup created : data'[q] = IF q \in created THEN EmptyMsg ELSE data[q]
    BY <1>1, <1>2 DEF AttachedToServer, nodes
  <2>2. DB' = [q \in Path |-> IF q \in nodes \cup created THEN data'[q] ELSE None]
    BY <2>1 DEF DB
  <2>3. \A q \in created : \E j \in 1 .. Len(paths) : paths[j] = q
    BY <1>2, <1>3
  <2>4. ASSUME NEW q \in Path
        PROVE  v1[q] = IF q \in nodes \cup created THEN data'[q] ELSE None
    BY <1>2, <1>4, <2>1, <2>3 DEF DB
  <2> QED
    BY <1>4, <2>2, <2>4
<1>13. IX' = IX
  <2>1. nodes' = nodes \cup created /\ index' = [p \in nodes' |-> IndexOf(p)]
    BY <1>1, <1>2 DEF IAttachedToServer, AttachedToServer, nodes
  <2>2. IX' = [q \in Path |-> IF q \in nodes' THEN index'[q] ELSE <<>>]
    BY DEF IX, IndexOf
  <2>3. ASSUME NEW q \in Path
        PROVE  (IF q \in nodes' THEN index'[q] ELSE <<>>) = IndexOf(q)
    BY <2>1 DEF IndexOf
  <2> QED
    BY <2>2, <2>3 DEF IX
<1>14. /\ sessions' = sessions \cup {s} /\ UNCHANGED <<subs, filters>> /\ subs[s] = {}
  BY <1>0, <1>1 DEF AttachedToServer, TreeTypeOK
<1>15. \A u, q : /\ Visible(u, q, v1[q])' = Visible(u, q, v1[q])
                 /\ Matched(u, q)' = Matched(u, q)
  BY <1>14 DEF Visible, MatchesNode, Matched
<1>16. \A q : ~Matched(s, q) /\ Visible(s, q, v1[q]) = None
  BY <1>14 DEF Visible, MatchesNode, Matched, MatchingSubs
<1>17. PICK C, ix : C = client /\ ix = IX
  OBVIOUS
<1>18. \A u \in Session, q \in Path : NextItem(C, D, v1, u, q)
  BY <1>1, <1>10, <1>14, <1>15, <1>16, <1>17 DEF NextItem, InSync, ItemsSync
<1>19. Filter = {NoFilter} => \A u \in Session, q \in Path : NextIndex(C, D, ix, u, q)
  BY <1>1, <1>10, <1>14, <1>15, <1>16, <1>17 DEF NextIndex, InSync, IndexSync
<1>20. InSync(client, Pending, {}, DB, IX)'
  BY <1>1, <1>10, <1>11, <1>12, <1>13, <1>17, <1>18, <1>19, SyncNext
<1>21. IsFiniteSet(sessions')
  BY <1>0, <1>14, FS_AddElement
<1> QED
  BY <1>0, <1>1, <1>11, <1>20, <1>21

(* SetDataNode, also when more values of the same command follow           *)
LEMMA SetDataDelivery ==
  ASSUME DeliveryInv, Unquiet, NEW s \in Session, NEW rel \in RelPath, NEW v \in Value,
         NEW flags \in SetFlags, NEW before, NEW more \in BOOLEAN,
         DSetDataNode(s, rel, v, flags, before, more)
  PROVE  /\ InSync(client, Pending, {}, DB, IX)' /\ client' \in Clients /\ Idle'
         /\ IsFiniteSet(sessions')
<1>0. /\ BaseInv /\ client \in Clients /\ Pending \in DType /\ TreeFullInv /\ IndexInv
      /\ IsFiniteSet(sessions) /\ InSync(client, Pending, {}, DB, IX)
  BY InvFacts DEF DeliveryInv
<1>1. PICK ev : ev = SetDataEvents(s, rel, v, flags, before)
  OBVIOUS
<1>2. PICK E : E = Notify(Pending, s, ev)
  OBVIOUS
<1>3. /\ ISetDataNode(s, rel, v, flags, before)
      /\ Becomes(IF more THEN E ELSE Push(E))
      /\ setting' = IF more THEN [by |-> s, flags |-> flags] ELSE None
      /\ client' = client
  BY <1>1, <1>2 DEF DSetDataNode
<1>4. UNCHANGED <<sessions, subs, filters>>
  BY <1>3 DEF ISetDataNode, SetDataNode
<1>5. ev \in Seq(Event) /\ Tells(ev, s, {}, DB, IX, DB', IX')
  BY <1>0, <1>1, <1>3, TellsSetData DEF Unquiet
<1>6. PICK v1, x1 : v1 = DB' /\ x1 = IX'
  OBVIOUS
<1>7. InSync(client, E, {}, v1, x1)
  BY <1>0, <1>2, <1>5, <1>6, NotifyTells
<1>8. PICK D : D = IF more THEN E ELSE Push(E)
  OBVIOUS
<1>9. D \in DType /\ E \in DType /\ InSync(client, D, {}, v1, x1)
  BY <1>0, <1>7, <1>8, PushedInSync DEF InSync
<1>10. Becomes(D) /\ Pending' = D
  BY <1>3, <1>8, <1>9, BecomesIs
<1>11. Idle'
  <2>1. CASE more
    <3>1. setting' # None
      BY <1>3, <2>1, DeliveryAssumption
    <3> QED
      BY <3>1 DEF Idle
  <2>2. CASE ~more
    BY <1>3, <1>9, <2>2, PushedIdle
  <2> QED
    BY <2>1, <2>2
<1>12. PICK C : C = client
  OBVIOUS
<1>13. InSync(client, Pending, {}, DB, IX)'
  BY <1>3, <1>4, <1>6, <1>9, <1>10, <1>12, SyncSame
<1> QED
  BY <1>0, <1>3, <1>4, <1>11, <1>13

(* What the commands on nodes and indices that end with a push have in     *)
(* common                                                                  *)
LEMMA CommandDelivery ==
  ASSUME DeliveryInv, NEW E, NEW v1, NEW x1, InSync(client, E, {}, v1, x1),
         v1 = DB', x1 = IX', Becomes(Push(E)), UNCHANGED <<sessions, subs, filters, client>>
  PROVE  /\ InSync(client, Pending, {}, DB, IX)' /\ client' \in Clients /\ Idle'
         /\ IsFiniteSet(sessions')
<1>0. client \in Clients /\ IsFiniteSet(sessions)
  BY InvFacts
<1>1. PICK D, C : D = Push(E) /\ C = client
  OBVIOUS
<1>2. D \in DType /\ E \in DType /\ InSync(C, D, {}, v1, x1)
  BY <1>0, <1>1, PushedInSync DEF InSync
<1>3. Pending' = D /\ Idle'
  BY <1>1, <1>2, BecomesIs, PushedIdle
<1>4. InSync(client, Pending, {}, DB, IX)'
  BY <1>1, <1>2, <1>3, SyncSame
<1> QED
  BY <1>0, <1>3, <1>4

LEMMA InsertDelivery ==
  ASSUME DeliveryInv, NEW s \in Session, NEW parent \in nodes, NEW nm \in Name,
         NEW v \in Value, NEW before, DInsertOrderedData(s, parent, nm, v, before)
  PROVE  /\ InSync(client, Pending, {}, DB, IX)' /\ client' \in Clients /\ Idle'
         /\ IsFiniteSet(sessions')
<1>0. /\ TreeTypeOK /\ TreeShape /\ BaseInv /\ client \in Clients /\ IndexInv
      /\ InSync(client, Pending, {}, DB, IX)
  BY InvFacts
<1>1. PICK ev : ev = InsertEvents(parent, nm, v, before)
  OBVIOUS
<1>2. PICK E : E = Notify(Pending, s, ev)
  OBVIOUS
<1>3. /\ IInsertOrderedData(s, parent, nm, v, before) /\ InsertOrderedData(s, parent, nm, v)
      /\ Becomes(Push(E)) /\ client' = client
  BY <1>1, <1>2 DEF DInsertOrderedData, IInsertOrderedData
<1>4. UNCHANGED <<sessions, subs, filters, client>>
  BY <1>3 DEF InsertOrderedData
<1>5. PICK child : child = Append(parent, nm)
  OBVIOUS
<1>6. parent \in Path /\ nm \in PathName /\ child \in Path /\ child \notin nodes
  <2>1. parent \in Path /\ nm \in PathName
    BY <1>0 DEF TreeTypeOK, PathName
  <2>2. child \notin nodes
    BY <1>3, <1>5 DEF InsertOrderedData
  <2> QED
    BY <1>5, <2>1, <2>2, ChildNames
<1>7. MaySkip(s, {}, child)
  <2>1. IsWithin(parent, SessionPath(s)) /\ SessionPath(s) \in Path
    BY <1>3, SessionPathType DEF InsertOrderedData, UserNodesOf, SubtreeOf
  <2>2. Parent(child) = parent /\ Len(child) = Len(parent) + 1 /\ Len(parent) \in Nat \ {0}
    BY <1>0, <1>5, <1>6, ChildNames, ParentOfNode
  <2>3. Len(child) > 1
    BY <2>2
  <2>4. IsWithin(child, SessionPath(s))
    BY <1>6, <2>1, <2>2, <2>3, WithinParent
  <2> QED
    BY <2>4, MaySkipOwn
<1>8. PICK new : new = IF before = RemoveFromIndex THEN IndexOf(parent)
                       ELSE InsertAt(IndexOf(parent), InsertPosition(IndexOf(parent), before), nm)
  OBVIOUS
<1>9. PICK v1, x1 : v1 = Put(DB, child, v) /\ x1 = Put(IX, parent, new)
  OBVIOUS
<1>10. ev \in Seq(Event) /\ Tells(ev, s, {}, DB, IX, v1, x1)
  <2>1. PICK d, x : d = DB /\ x = IX
    OBVIOUS
  <2>2. /\ x = [q \in Path |-> x[q]] /\ x[parent] = IndexOf(parent) /\ d[child] = None
    BY <1>6, <2>1 DEF DB, IX
  <2>3. ListsChildren(IndexOf(parent), parent, nodes)
    BY <1>0, IndexOfLists
  <2>4. /\ InsertEvents(parent, nm, v, before) \in Seq(Event)
        /\ Tells(InsertEvents(parent, nm, v, before), s, {}, d, x,
                 Put(d, child, v), Put(x, parent, new))
    BY <1>5, <1>6, <1>7, <1>8, <2>2, <2>3, TellsInsert
  <2> QED
    BY <1>1, <1>9, <2>1, <2>4
<1>11. InSync(client, E, {}, v1, x1)
  BY <1>0, <1>2, <1>10, NotifyTells
<1>12. nodes' = nodes \cup {child}
  BY <1>3, <1>5 DEF InsertOrderedData, nodes
<1>13. v1 = DB'
  <2>1. \A q \in nodes \cup {child} : data'[q] = IF q = child THEN v ELSE data[q]
    BY <1>3, <1>5 DEF InsertOrderedData
  <2>2. DB' = [q \in Path |-> IF q \in nodes' THEN data'[q] ELSE None]
    BY DEF DB
  <2>3. ASSUME NEW q \in Path
        PROVE  (IF q = child THEN v ELSE DB[q]) = IF q \in nodes' THEN data'[q] ELSE None
    BY <1>12, <2>1 DEF DB
  <2> QED
    BY <1>9, <2>2, <2>3 DEF Put
<1>14. x1 = IX'
  <2>1. index' = [p \in nodes' |->
                   IF p = parent /\ before # RemoveFromIndex
                   THEN InsertAt(index[p], InsertPosition(index[p], before), nm)
                   ELSE IndexOf(p)]
    BY <1>3 DEF IInsertOrderedData
  <2>2. IndexOf(parent) = index[parent] /\ parent \in nodes'
    BY <1>12 DEF IndexOf
  <2>3. \A q \in nodes' : index'[q] = IF q = parent THEN new ELSE IndexOf(q)
    BY <1>8, <2>1, <2>2
  <2>4. IX' = [q \in Path |-> IF q \in nodes' THEN index'[q] ELSE <<>>]
    BY DEF IX, IndexOf
  <2>5. ASSUME NEW q \in Path
        PROVE  (IF q = parent THEN new ELSE IX[q]) = IF q \in nodes' THEN index'[q] ELSE <<>>
    BY <1>12, <2>2, <2>3 DEF IX, IndexOf
  <2> QED
    BY <1>9, <2>4, <2>5 DEF Put
<1> QED
  BY <1>3, <1>4, <1>11, <1>13, <1>14, CommandDelivery

LEMMA ReorderDelivery ==
  ASSUME DeliveryInv, NEW s \in Session, NEW child \in nodes, NEW before,
         DReorderData(s, child, before)
  PROVE  /\ InSync(client, Pending, {}, DB, IX)' /\ client' \in Clients /\ Idle'
         /\ IsFiniteSet(sessions')
<1>0. /\ TreeTypeOK /\ TreeShape /\ BaseInv /\ client \in Clients /\ IndexInv
      /\ InSync(client, Pending, {}, DB, IX)
  BY InvFacts
<1>1. PICK ev : ev = ReorderEvents(child, before)
  OBVIOUS
<1>2. PICK E : E = Notify(Pending, s, ev)
  OBVIOUS
<1>3. ReorderData(s, child, before) /\ Becomes(Push(E)) /\ client' = client
  BY <1>1, <1>2 DEF DReorderData
<1>4. UNCHANGED <<sessions, subs, filters, client, data>>
  BY <1>3 DEF ReorderData, treeVars
<1>5. PICK parent, nm : parent = Parent(child) /\ nm = NodeName(child)
  OBVIOUS
<1>6. /\ parent \in nodes /\ parent \in Path /\ nm \in PathName /\ child = Append(parent, nm)
  <2>1. child \in Path /\ Len(child) > 2
    BY <1>0, <1>3 DEF ReorderData, UserNodesOf, TreeTypeOK
  <2>2. Len(child) > 1
    BY <2>1 DEF Path
  <2>3. parent \in nodes
    BY <1>0, <1>5, <2>2 DEF TreeShape
  <2> QED
    BY <1>5, <2>1, <2>2, <2>3, ParentAndName
<1>7. PICK new : new = ReorderedIndex(index[parent], nm, before)
  OBVIOUS
<1>8. PICK v1, x1 : v1 = DB /\ x1 = Put(IX, parent, new)
  OBVIOUS
<1>9. ev \in Seq(Event) /\ Tells(ev, s, {}, DB, IX, v1, x1)
  BY <1>0, <1>1, <1>6, <1>7, <1>8, TellsReorder
<1>10. InSync(client, E, {}, v1, x1)
  BY <1>0, <1>2, <1>9, NotifyTells
<1>11. v1 = DB'
  BY <1>4, <1>8 DEF DB, nodes
<1>12. x1 = IX'
  <2>1. nodes' = nodes /\ DOMAIN index = nodes
    BY <1>0, <1>4 DEF nodes, IndexInv
  <2>2. index' = [index EXCEPT ![parent] = new]
    BY <1>3, <1>5, <1>7 DEF ReorderData
  <2>3. \A q \in nodes : index'[q] = IF q = parent THEN new ELSE index[q]
    BY <1>6, <2>1, <2>2
  <2>4. IX' = [q \in Path |-> IF q \in nodes THEN index'[q] ELSE <<>>]
    BY <2>1 DEF IX, IndexOf
  <2>5. ASSUME NEW q \in Path
        PROVE  (IF q = parent THEN new ELSE IX[q]) = IF q \in nodes THEN index'[q] ELSE <<>>
    BY <1>6, <2>3 DEF IX, IndexOf
  <2> QED
    BY <1>8, <2>4, <2>5 DEF Put
<1> QED
  BY <1>3, <1>4, <1>10, <1>11, <1>12, CommandDelivery

(* The database without the nodes in gone                                  *)
LEMMA RemovedDatabase ==
  ASSUME NEW gone, data' = [q \in nodes \ gone |-> data[q]], index' = IndexWithout(gone)
  PROVE  /\ DB' = [q \in Path |-> IF q \in nodes \ gone THEN data[q] ELSE None]
         /\ IX' = [q \in Path |-> IF q \in nodes \ gone THEN IndexWithout(gone)[q] ELSE <<>>]
<1>1. nodes' = nodes \ gone
  BY DEF nodes
<1>2. DB' = [q \in Path |-> IF q \in nodes' THEN data'[q] ELSE None]
  BY DEF DB
<1>3. ASSUME NEW q \in Path
      PROVE  (IF q \in nodes' THEN data'[q] ELSE None)
               = IF q \in nodes \ gone THEN data[q] ELSE None
  BY <1>1
<1>4. DB' = [q \in Path |-> IF q \in nodes \ gone THEN data[q] ELSE None]
  BY <1>2, <1>3
<1>5. IX' = [q \in Path |-> IF q \in nodes' THEN index'[q] ELSE <<>>]
  BY DEF IX, IndexOf
<1> QED
  BY <1>1, <1>4, <1>5

LEMMA RemoveDelivery ==
  ASSUME DeliveryInv, NEW s \in Session, NEW pat, NEW f, DDoRemoveData(s, pat, f)
  PROVE  /\ InSync(client, Pending, {}, DB, IX)' /\ client' \in Clients /\ Idle'
         /\ IsFiniteSet(sessions')
<1>0. /\ TreeTypeOK /\ TreeShape /\ BaseInv /\ client \in Clients /\ IndexInv
      /\ InSync(client, Pending, {}, DB, IX)
  BY InvFacts
<1>1. PICK targets : targets = RemoveTargets(s, pat, f)
  OBVIOUS
<1>2. PICK gone : gone = RemovedWith(targets)
  OBVIOUS
<1>3. /\ IDoRemoveData(s, pat, f) /\ DoRemoveData(s, pat, f) /\ client' = client
      /\ \E order \in RemovalOrders(gone) : Becomes(Push(NotifyRemoved(Pending, s, order)))
  BY <1>1, <1>2 DEF DDoRemoveData, IDoRemoveData
<1>4. PICK order \in SetToSeqs(gone) : Becomes(Push(NotifyRemoved(Pending, s, order)))
  BY <1>3 DEF RemovalOrders
<1>5. UNCHANGED <<sessions, subs, filters, client>>
  BY <1>3 DEF DoRemoveData
<1>6. \A t \in targets : t \in nodes /\ t \in Path /\ IsWithin(t, SessionPath(s))
  BY <1>0, <1>1 DEF RemoveTargets, UserNodesOf, SubtreeOf, TreeTypeOK
<1>7. gone = {q \in nodes : \E t \in targets : IsWithin(q, t)}
  BY <1>2 DEF RemovedWith
<1>8. gone \in SUBSET nodes /\ nodes \subseteq Path /\ SessionPath(s) \in Path
  BY <1>0, <1>7, SessionPathType DEF TreeTypeOK
<1>9. Whole(gone)
  <2>1. ASSUME NEW q \in nodes, Len(q) > 1, Parent(q) \in gone
        PROVE  q \in gone
    <3>1. PICK t \in targets : IsWithin(Parent(q), t)
      BY <1>7, <2>1
    <3>2. IsWithin(q, t)
      BY <1>6, <1>8, <2>1, <3>1, WithinParent
    <3> QED
      BY <1>7, <3>2
  <2> QED
    BY <2>1 DEF Whole
<1>10. ASSUME NEW p \in gone PROVE MaySkip(s, {}, p)
  <2>1. PICK t \in targets : IsWithin(p, t)
    BY <1>7
  <2>2. /\ p \in Path /\ t \in Path /\ Len(t) \in Nat /\ Len(p) \in Nat
        /\ Len(SessionPath(s)) \in Nat
    BY <1>6, <1>8 DEF Path
  <2>3. /\ Len(t) <= Len(p) /\ \A i \in 1 .. Len(t) : p[i] = t[i]
        /\ Len(SessionPath(s)) <= Len(t)
        /\ \A i \in 1 .. Len(SessionPath(s)) : t[i] = SessionPath(s)[i]
    BY <1>6, <1>8, <2>1, <2>2, WithinNames
  <2>4. /\ Len(SessionPath(s)) <= Len(p)
        /\ \A i \in 1 .. Len(SessionPath(s)) : i \in 1 .. Len(t)
    BY <2>2, <2>3
  <2>5. IsWithin(p, SessionPath(s))
    BY <1>8, <2>2, <2>3, <2>4, WithinNames
  <2> QED
    BY <2>5, MaySkipOwn
<1>11. PICK v1, x1 :
         /\ v1 = [q \in Path |-> IF q \in nodes \ gone THEN data[q] ELSE None]
         /\ x1 = [q \in Path |-> IF q \in nodes \ gone THEN IndexWithout(gone)[q] ELSE <<>>]
  OBVIOUS
<1>12. PICK E : E = NotifyRemoved(Pending, s, order)
  OBVIOUS
<1>13. InSync(client, E, {}, v1, x1)
  BY <1>0, <1>8, <1>9, <1>10, <1>11, <1>12, RemovedSync
<1>14. v1 = DB' /\ x1 = IX'
  <2>1. data' = [q \in nodes \ gone |-> data[q]] /\ index' = IndexWithout(gone)
    BY <1>1, <1>2, <1>3 DEF DoRemoveData, IDoRemoveData
  <2> QED
    BY <1>11, <2>1, RemovedDatabase
<1> QED
  BY <1>4, <1>5, <1>12, <1>13, <1>14, CommandDelivery

(* AboutToDetachFromServer: the subtree of the session and its client go.  *)
LEMMA DetachDelivery ==
  ASSUME DeliveryInv, NEW s \in Session, DAboutToDetachFromServer(s)
  PROVE  /\ InSync(client, Pending, {}, DB, IX)' /\ client' \in Clients /\ Idle'
         /\ IsFiniteSet(sessions')
<1>0. /\ TreeTypeOK /\ TreeShape /\ BaseInv /\ client \in Clients /\ IndexInv
      /\ Pending \in DType /\ IsFiniteSet(sessions) /\ InSync(client, Pending, {}, DB, IX)
  BY InvFacts
<1>1. PICK gone : gone = CleanedUp(s)
  OBVIOUS
<1>2. /\ IAboutToDetachFromServer(s) /\ AboutToDetachFromServer(s)
      /\ client' = [client EXCEPT ![s] = NoClient] /\ setting' = setting
      /\ \E order \in RemovalOrders(gone) :
           Becomes([Push(NotifyRemoved(Pending, s, order)) EXCEPT !.out[s] = <<>>])
  BY <1>1 DEF DAboutToDetachFromServer, IAboutToDetachFromServer
<1>3. PICK order \in SetToSeqs(gone) :
        Becomes([Push(NotifyRemoved(Pending, s, order)) EXCEPT !.out[s] = <<>>])
  BY <1>2 DEF RemovalOrders
<1>4. /\ s \in sessions /\ sessions' = sessions \ {s}
      /\ data' = [q \in nodes \ gone |-> data[q]] /\ index' = IndexWithout(gone)
      /\ subs' = [subs EXCEPT ![s] = {}]
      /\ filters' = [filters EXCEPT ![s] = [pat \in Pattern |-> NoFilter]]
  BY <1>1, <1>2 DEF AboutToDetachFromServer, IAboutToDetachFromServer
<1>5. gone \in SUBSET nodes /\ Whole(gone)
  <2>1. gone \in SUBSET nodes
    BY <1>1 DEF CleanedUp, SubtreeOf
  <2>2. SessionPath(s) \in Path /\ HostPath(s) \in Path /\ nodes \subseteq Path
    BY <1>0, SessionPathType DEF TreeTypeOK
  <2>3. ASSUME NEW q \in nodes, Len(q) > 1, Parent(q) \in gone
        PROVE  q \in gone
    <3>1. CASE Parent(q) \in SubtreeOf(SessionPath(s))
      <4>1. IsWithin(q, SessionPath(s))
        BY <2>2, <2>3, <3>1, WithinParent DEF SubtreeOf
      <4> QED
        BY <1>1, <4>1 DEF CleanedUp, SubtreeOf
    <3>2. CASE Parent(q) \notin SubtreeOf(SessionPath(s))
      <4>1. Parent(q) = HostPath(s) /\ ChildrenOf(HostPath(s)) \subseteq SubtreeOf(SessionPath(s))
        BY <1>1, <2>3, <3>2 DEF CleanedUp
      <4>2. q \in SubtreeOf(SessionPath(s))
        BY <2>3, <4>1 DEF ChildrenOf
      <4> QED
        BY <1>1, <4>2 DEF CleanedUp
    <3> QED
      BY <3>1, <3>2
  <2> QED
    BY <2>1, <2>3 DEF Whole
<1>6. \A p \in gone : MaySkip(s, {s}, p)
  BY DEF MaySkip
<1>7. PICK v1, x1 :
        /\ v1 = [q \in Path |-> IF q \in nodes \ gone THEN data[q] ELSE None]
        /\ x1 = [q \in Path |-> IF q \in nodes \ gone THEN IndexWithout(gone)[q] ELSE <<>>]
  OBVIOUS
<1>8. PICK E : E = NotifyRemoved(Pending, s, order)
  OBVIOUS
<1>9. InSync(client, E, {s}, v1, x1)
  <2>1. InSync(client, Pending, {s}, DB, IX)
    BY <1>0 DEF InSync, ItemsSync, IndexSync
  <2> QED
    BY <1>0, <1>5, <1>6, <1>7, <1>8, <2>1, RemovedSync
<1>10. PICK P : P = Push(E)
  OBVIOUS
<1>11. P \in DType /\ E \in DType /\ InSync(client, P, {s}, v1, x1)
  BY <1>0, <1>9, <1>10, PushedInSync DEF InSync
<1>12. PICK D : D = [P EXCEPT !.out[s] = <<>>]
  OBVIOUS
<1>13. PICK C : C = [client EXCEPT ![s] = NoClient]
  OBVIOUS
<1>14. QueueEffect(client, P, D, s, <<>>)
  <2>1. <<>> \in Seq(MsgType)
    OBVIOUS
  <2> QED
    BY <1>0, <1>11, <1>12, <2>1, QueueChanges
<1>15. D \in DType /\ D.pend = P.pend /\ D.ipend = P.ipend /\ Becomes(D) /\ Pending' = D
  <2>1. D \in DType /\ D.pend = P.pend /\ D.ipend = P.ipend
    BY <1>14 DEF QueueEffect
  <2>2. Becomes(D)
    BY <1>3, <1>8, <1>10, <1>12
  <2> QED
    BY <2>1, <2>2, BecomesIs
<1>16. Idle'
  <2>1. D.pend = [t \in Session |-> NoItems] /\ D.ipend = [t \in Session |-> <<>>]
    BY <1>10, <1>11, <1>15, PushFacts
  <2> QED
    BY <1>15, <2>1 DEF Idle, Becomes
<1>17. NoClient \in ClientType /\ C \in Clients
  <2>1. NoClient \in ClientType
    BY EmptyPartial DEF NoClient, ClientType
  <2> QED
    BY <1>0, <1>13, <2>1 DEF Clients
<1>18. ASSUME NEW u \in Session, u # s
       PROVE  \A q : XItem(C, D, u, q) = XItem(client, P, u, q)
                     /\ XIndex(C, D, u, q) = XIndex(client, P, u, q)
  <2>1. C[u] = client[u]
    BY <1>0, <1>13, <1>18 DEF Clients
  <2>2. \A q : XItem(C, D, u, q) = XItem(client, D, u, q)
               /\ XIndex(C, D, u, q) = XIndex(client, D, u, q)
    BY <2>1 DEF XItem, XIndex, Seen
  <2>3. \A q : XItem(client, D, u, q) = XItem(client, P, u, q)
               /\ XIndex(client, D, u, q) = XIndex(client, P, u, q)
    BY <1>14, <1>18 DEF QueueEffect
  <2> QED
    BY <2>2, <2>3
<1>19. \A q : XItem(C, D, s, q) = None /\ XIndex(C, D, s, q) = <<>>
  <2>1. C[s] = NoClient /\ D.out[s] = <<>>
    <3>1. D.out = [P.out EXCEPT ![s] = <<>>] /\ P.out \in [Session -> Seq(MsgType)]
      BY <1>11, <1>14, DFields DEF QueueEffect
    <3> QED
      BY <1>0, <1>13, <3>1 DEF Clients
  <2>2. D.pend[s] = NoItems /\ D.ipend[s] = <<>>
    BY <1>10, <1>11, <1>15, PushFacts
  <2>3. Push(D).out[s] = <<>>
    BY <1>15, <2>1, <2>2, PushedQueue
  <2>4. Seen(C, D, s) = NoClient
    BY <1>17, <2>1, <2>3, ReadNothing DEF Seen
  <2>5. DOMAIN NoClient.items = {} /\ DOMAIN NoClient.index = {}
    BY EmptyPartial DEF NoClient
  <2> QED
    BY <2>4, <2>5 DEF XItem, XIndex, ItemAt, ClientIndex
<1>20. ASSUME NEW u \in Session, u # s
       PROVE  \A q : /\ Visible(u, q, v1[q])' = Visible(u, q, v1[q])
                     /\ Matched(u, q)' = Matched(u, q)
  <2>1. subs'[u] = subs[u] /\ filters'[u] = filters[u]
    BY <1>0, <1>4, <1>20 DEF TreeTypeOK
  <2> QED
    BY <2>1 DEF Visible, MatchesNode, Matched
<1>21. v1 = DB' /\ x1 = IX'
  BY <1>4, <1>7, RemovedDatabase
<1>22. ASSUME NEW u \in Session, NEW q \in Path
       PROVE  NextItem(C, D, v1, u, q) /\ (Filter = {NoFilter} => NextIndex(C, D, x1, u, q))
  <2>1. CASE u = s
    BY <1>4, <1>19, <2>1 DEF NextItem, NextIndex
  <2>2. CASE u # s
    BY <1>4, <1>11, <1>18, <1>20, <2>2 DEF NextItem, NextIndex, InSync, ItemsSync, IndexSync
  <2> QED
    BY <2>1, <2>2
<1>23. client' = C
  BY <1>2, <1>13
<1>24. InSync(client, Pending, {}, DB, IX)'
  BY <1>15, <1>21, <1>22, <1>23, SyncNext
<1>25. IsFiniteSet(sessions')
  BY <1>0, <1>4, FS_RemoveElement
<1> QED
  BY <1>16, <1>17, <1>23, <1>24, <1>25

(* With nothing being gathered a client will see what is in its queue.     *)
LEMMA NothingGathered ==
  ASSUME NEW C \in Clients, NEW D \in DType, NEW t \in Session,
         D.pend[t] = NoItems, D.ipend[t] = <<>>
  PROVE  \A q : /\ XItem(C, D, t, q) = ItemAt(Arrived(C, D, t), q)
                /\ XIndex(C, D, t, q) = ClientIndex(Arrived(C, D, t), q)
<1>1. DOMAIN <<>> = {}
  OBVIOUS
<1>2. \A q, x : ItemAfter(ItemsMessage(NoItems), q, x) = x
  BY <1>1 DEF ItemAfter, ItemsMessage, NoItems
<1>3. \A q, x : IndexAfter(IndexMessage(<<>>), q, x) = x
  BY <1>1 DEF IndexAfter, IndexMessage
<1> QED
  BY <1>2, <1>3, SeenIs

(* The client reads a Message: nothing changes in what it will have seen.  *)
LEMMA ReadsDelivery ==
  ASSUME DeliveryInv, NEW s \in Session, ClientReads(s)
  PROVE  /\ InSync(client, Pending, {}, DB, IX)' /\ client' \in Clients /\ Idle'
         /\ IsFiniteSet(sessions')
<1>0. /\ client \in Clients /\ Pending \in DType /\ IsFiniteSet(sessions)
      /\ InSync(client, Pending, {}, DB, IX)
  BY InvFacts
<1>1. PICK C, E, queue : C = client /\ E = Pending /\ queue = out[s]
  OBVIOUS
<1>2. PICK C1, D : /\ C1 = [C EXCEPT ![s] = Receive(@, Head(queue))]
                   /\ D = [E EXCEPT !.out[s] = Tail(queue)]
  OBVIOUS
<1>3. /\ C \in Clients /\ E \in DType /\ InSync(C, E, {}, DB, IX)
      /\ queue = E.out[s] /\ queue \in Seq(MsgType) /\ C[s] \in ClientType
  <2>1. queue = E.out[s]
    BY <1>1 DEF Pending
  <2> QED
    BY <1>0, <1>1, <2>1, DFields DEF Clients
<1>4. /\ queue # <<>> /\ client' = C1 /\ out' = [out EXCEPT ![s] = Tail(queue)]
      /\ UNCHANGED <<data, index, sessions, subs, filters, pend, ipend, setting>>
  BY <1>1, <1>2 DEF ClientReads, dataVars, treeVars, indexVars
<1>5. /\ Head(queue) \in MsgType /\ Tail(queue) \in Seq(MsgType)
      /\ FoldLeft(Receive, Receive(C[s], Head(queue)), Tail(queue))
           = FoldLeft(Receive, C[s], queue)
  BY <1>3, <1>4, ReadHead
<1>6. C1 \in Clients
  <2>1. Receive(C[s], Head(queue)) \in ClientType
    BY <1>3, <1>5, ReceiveFacts
  <2> QED
    BY <1>2, <1>3, <2>1 DEF Clients
<1>7. QueueEffect(C1, E, D, s, Tail(queue))
  BY <1>2, <1>3, <1>5, <1>6, QueueChanges
<1>8. D \in DType /\ D.pend = E.pend /\ D.ipend = E.ipend /\ D.out = [E.out EXCEPT ![s] = Tail(queue)]
  BY <1>7 DEF QueueEffect
<1>9. Pending' = D
  <2>1. Becomes(D)
    BY <1>1, <1>4, <1>8 DEF Becomes, Pending
  <2> QED
    BY <1>8, <2>1, BecomesIs
<1>10. ASSUME NEW u \in Session PROVE Arrived(C1, D, u) = Arrived(C, E, u)
  <2>1. CASE u = s
    <3>1. C1[s] = Receive(C[s], Head(queue)) /\ D.out[s] = Tail(queue)
      BY <1>2, <1>3, <1>8, DFields DEF Clients
    <3> QED
      BY <1>3, <1>5, <2>1, <3>1 DEF Arrived
  <2>2. CASE u # s
    <3>1. C1[u] = C[u] /\ D.out[u] = E.out[u]
      BY <1>2, <1>3, <1>8, <2>2, DFields DEF Clients
    <3> QED
      BY <3>1 DEF Arrived
  <2> QED
    BY <2>1, <2>2
<1>11. ASSUME NEW u \in Session, NEW q
       PROVE  XItem(C1, D, u, q) = XItem(C, E, u, q) /\ XIndex(C1, D, u, q) = XIndex(C, E, u, q)
  BY <1>3, <1>6, <1>8, <1>10, SeenIs
<1>12. InSync(C1, D, {}, DB, IX)
  BY <1>3, <1>8, <1>11 DEF InSync, ItemsSync, IndexSync
<1>13. PICK iv, ix : iv = DB /\ ix = IX
  OBVIOUS
<1>14. DB' = iv /\ IX' = ix
  BY <1>4, <1>13 DEF DB, IX, IndexOf, nodes
<1>15. InSync(client, Pending, {}, DB, IX)'
  BY <1>4, <1>9, <1>12, <1>13, <1>14, SyncSame
<1>16. Idle'
  BY <1>4 DEF DeliveryInv, Idle
<1> QED
  BY <1>0, <1>4, <1>6, <1>15, <1>16

(* Unsubscribing: what the client drops at the PONG is what its session no *)
(* longer subscribes to.                                                   *)
LEMMA UnsubscribeDelivery ==
  ASSUME DeliveryInv, NEW s \in Session, NEW pat \in Pattern, DUnsubscribe(s, pat)
  PROVE  /\ InSync(client, Pending, {}, DB, IX)' /\ client' \in Clients /\ Idle'
         /\ IsFiniteSet(sessions')
<1>0. /\ TreeTypeOK /\ client \in Clients /\ Pending \in DType /\ IsFiniteSet(sessions)
      /\ InSync(client, Pending, {}, DB, IX)
  BY InvFacts
<1>1. PICK keep : keep = {[pat |-> p, filter |-> filters[s][p]] : p \in subs[s] \ {pat}}
  OBVIOUS
<1>2. PICK m : m = [kind |-> "pong", keep |-> keep]
  OBVIOUS
<1>3. /\ Ready /\ IUnsubscribe(s, pat) /\ Unsubscribe(s, pat)
      /\ out' = [out EXCEPT ![s] = Append(@, m)] /\ UNCHANGED <<pend, ipend, client, setting>>
  BY <1>1, <1>2 DEF DUnsubscribe, IUnsubscribe
<1>4. /\ s \in sessions /\ pat \in subs[s] /\ subs' = [subs EXCEPT ![s] = @ \ {pat}]
      /\ filters' = [filters EXCEPT ![s][pat] = NoFilter]
      /\ UNCHANGED <<data, index, sessions>>
  BY <1>3 DEF Unsubscribe, IUnsubscribe, indexVars
<1>5. /\ subs[s] \in SUBSET Pattern /\ \A p \in Pattern : filters[s][p] \in Filter
      /\ subs'[s] = subs[s] \ {pat} /\ \A p \in subs'[s] : filters'[s][p] = filters[s][p]
      /\ \A u \in Session \ {s} : subs'[u] = subs[u] /\ filters'[u] = filters[u]
  BY <1>0, <1>4 DEF TreeTypeOK
<1>6. m \in MsgType /\ m.kind = "pong" /\ m.keep = keep
  BY <1>1, <1>2, <1>5 DEF MsgType, PongMsg
<1>7. PICK E, D, queue : /\ E = Pending /\ queue = Append(out[s], m)
                         /\ D = [E EXCEPT !.out[s] = queue]
  OBVIOUS
<1>8. /\ E \in DType /\ InSync(client, E, {}, DB, IX) /\ E.out[s] = out[s]
      /\ out[s] \in Seq(MsgType) /\ queue \in Seq(MsgType)
  <2>1. E.out[s] = out[s]
    BY <1>7 DEF Pending
  <2>2. out[s] \in Seq(MsgType)
    BY <1>0, <1>7, <2>1, DFields
  <2> QED
    BY <1>0, <1>6, <1>7, <2>1, <2>2
<1>9. QueueEffect(client, E, D, s, queue)
  BY <1>0, <1>7, <1>8, QueueChanges
<1>10. D \in DType /\ D.pend = E.pend /\ D.ipend = E.ipend /\ D.out = [E.out EXCEPT ![s] = queue]
  BY <1>9 DEF QueueEffect
<1>11. Pending' = D
  <2>1. Becomes(D)
    BY <1>3, <1>7, <1>10 DEF Becomes, Pending
  <2> QED
    BY <1>10, <2>1, BecomesIs
<1>12. /\ E.pend[s] = NoItems /\ E.ipend[s] = <<>>
       /\ D.pend[s] = NoItems /\ D.ipend[s] = <<>>
  BY <1>3, <1>7, <1>10 DEF DeliveryInv, Idle, Ready, Pending
<1>13. ASSUME NEW q
       PROVE  /\ XItem(client, D, s, q) = ItemAfter(m, q, XItem(client, E, s, q))
              /\ XIndex(client, D, s, q) = IndexAfter(m, q, XIndex(client, E, s, q))
  <2>1. Arrived(client, D, s) = Receive(Arrived(client, E, s), m)
    <3>1. client[s] \in ClientType
      BY <1>0 DEF Clients
    <3>2. FoldLeft(Receive, client[s], queue) = Receive(FoldLeft(Receive, client[s], out[s]), m)
      BY <1>6, <1>7, <1>8, <3>1, ReadAppend
    <3> QED
      BY <1>8, <1>9, <3>2 DEF QueueEffect, Arrived
  <2>2. Arrived(client, E, s) \in ClientType
    BY <1>0, <1>8, SeenIs
  <2>3. /\ ItemAt(Arrived(client, D, s), q) = ItemAfter(m, q, ItemAt(Arrived(client, E, s), q))
        /\ ClientIndex(Arrived(client, D, s), q) = IndexAfter(m, q, ClientIndex(Arrived(client, E, s), q))
    BY <1>6, <2>1, <2>2, ReceiveFacts
  <2> QED
    BY <1>0, <1>8, <1>10, <1>12, <2>3, NothingGathered
<1>14. ASSUME NEW q, NEW v
       PROVE  /\ ItemAfter(m, q, Visible(s, q, v)) = Visible(s, q, v)'
              /\ Matched(s, q)' <=> \E k \in keep : PathMatches(k.pat, q)
  <2>1. \A p \in subs'[s] : [pat |-> p, filter |-> filters[s][p]] \in keep
    BY <1>1, <1>5
  <2>2. \A k \in keep : k.pat \in subs'[s] /\ k.filter = filters'[s][k.pat]
    BY <1>1, <1>5
  <2>3. \A x : (\E k \in keep : PathMatches(k.pat, q) /\ x \in k.filter)
               <=> \E p \in subs'[s] : PathMatches(p, q) /\ x \in filters'[s][p]
    <3>1. ASSUME NEW x, NEW p \in subs'[s], PathMatches(p, q), x \in filters'[s][p]
          PROVE  \E k \in keep : PathMatches(k.pat, q) /\ x \in k.filter
      <4>1. PICK k : k = [pat |-> p, filter |-> filters[s][p]]
        OBVIOUS
      <4>2. k \in keep /\ k.pat = p /\ k.filter = filters'[s][p]
        BY <1>5, <2>1, <4>1
      <4> QED
        BY <3>1, <4>2
    <3> QED
      BY <2>2, <3>1
  <2>4. (\E k \in keep : PathMatches(k.pat, q)) <=> \E p \in subs'[s] : PathMatches(p, q)
    <3>1. ASSUME NEW p \in subs'[s], PathMatches(p, q)
          PROVE  \E k \in keep : PathMatches(k.pat, q)
      <4>1. PICK k : k = [pat |-> p, filter |-> filters[s][p]]
        OBVIOUS
      <4>2. k \in keep /\ k.pat = p
        BY <2>1, <4>1
      <4> QED
        BY <3>1, <4>2
    <3> QED
      BY <2>2, <3>1
  <2>5. /\ MatchesNode(s, q, v) <=>
             \E p \in subs[s] : PathMatches(p, q) /\ (v = None \/ v \in filters[s][p])
        /\ MatchesNode(s, q, v)' <=>
             \E p \in subs'[s] : PathMatches(p, q) /\ (v = None \/ v \in filters'[s][p])
    BY DEF MatchesNode, MatchingSubs
  <2>6. \A x : ItemAfter(m, q, x) =
          IF \E p \in subs'[s] : PathMatches(p, q) /\ x \in filters'[s][p] THEN x ELSE None
    BY <1>6, <2>3 DEF ItemAfter
  <2>7. MatchesNode(s, q, v)' /\ v # None => MatchesNode(s, q, v)
    BY <1>5, <2>5
  <2>8. /\ Visible(s, q, v) = IF v # None /\ MatchesNode(s, q, v) THEN v ELSE None
        /\ Visible(s, q, v)' = IF v # None /\ MatchesNode(s, q, v)' THEN v ELSE None
    BY DEF Visible
  <2>9. ItemAfter(m, q, Visible(s, q, v)) = Visible(s, q, v)'
    <3>1. CASE v # None /\ MatchesNode(s, q, v)
      BY <2>5, <2>6, <2>8, <3>1
    <3>2. CASE ~ (v # None /\ MatchesNode(s, q, v))
      BY <2>6, <2>7, <2>8, <3>2
    <3> QED
      BY <3>1, <3>2
  <2> QED
    BY <2>4, <2>9 DEF Matched, MatchingSubs
<1>15. \A q, x : IndexAfter(m, q, x) = IF \E k \in keep : PathMatches(k.pat, q) THEN x ELSE <<>>
  BY <1>6 DEF IndexAfter
<1>16. PICK C, iv, ix : C = client /\ iv = DB /\ ix = IX
  OBVIOUS
<1>17. client' = C /\ DB' = iv /\ IX' = ix
  BY <1>3, <1>4, <1>16 DEF DB, IX, IndexOf, nodes
<1>18. ASSUME NEW u \in Session, NEW q \in Path
       PROVE  NextItem(C, D, iv, u, q) /\ (Filter = {NoFilter} => NextIndex(C, D, ix, u, q))
  <2>1. /\ u \in sessions /\ Heard(u, q) => XItem(C, E, u, q) = Visible(u, q, iv[q])
        /\ u \notin sessions => XItem(C, E, u, q) = None
        /\ Filter = {NoFilter} =>
             /\ u \in sessions /\ Heard(u, q) =>
                  XIndex(C, E, u, q) = IF Matched(u, q) THEN ix[q] ELSE <<>>
             /\ u \notin sessions => XIndex(C, E, u, q) = <<>>
    BY <1>8, <1>16 DEF InSync, ItemsSync, IndexSync
  <2>2. CASE u = s
    <3>1. NextItem(C, D, iv, s, q)
      BY <1>4, <1>13, <1>14, <1>16, <2>1, <2>2 DEF NextItem
    <3>2. Matched(s, q)' => Matched(s, q)
      BY <1>5 DEF Matched, MatchingSubs
    <3>3. Filter = {NoFilter} => NextIndex(C, D, ix, s, q)
      BY <1>4, <1>13, <1>14, <1>15, <1>16, <2>1, <2>2, <3>2 DEF NextIndex
    <3> QED
      BY <2>2, <3>1, <3>3
  <2>3. CASE u # s
    <3>1. Visible(u, q, iv[q])' = Visible(u, q, iv[q]) /\ Matched(u, q)' = Matched(u, q)
      BY <1>5, <2>3 DEF Visible, MatchesNode, Matched
    <3>2. XItem(C, D, u, q) = XItem(C, E, u, q) /\ XIndex(C, D, u, q) = XIndex(C, E, u, q)
      BY <1>9, <1>16, <2>3 DEF QueueEffect
    <3> QED
      BY <1>4, <2>1, <3>1, <3>2 DEF NextItem, NextIndex
  <2> QED
    BY <2>2, <2>3
<1>19. InSync(client, Pending, {}, DB, IX)'
  BY <1>10, <1>11, <1>17, <1>18, SyncNext
<1>20. Idle'
  BY <1>3 DEF DeliveryInv, Idle
<1> QED
  BY <1>0, <1>3, <1>4, <1>19, <1>20

-----------------------------------------------------------------------------
(***************************************************************************)
(* Subscribing                                                             *)
(***************************************************************************)

(* What a changed filter f leaves to be sent to session s: the nodes that  *)
(* f accepts, and the removal of nodes that it does not                    *)
Gathered(D, s, f) ==
  /\ D.ipend[s] = <<>>
  /\ \A q \in DOMAIN D.pend[s].items : data[q] \in f /\ D.pend[s].items[q] = data[q]
  /\ \A q \in D.pend[s].removed : data[q] \notin f

LEMMA NothingIsGathered ==
  ASSUME NEW D, NEW s, NEW f, D.pend[s] = NoItems, D.ipend[s] = <<>>
  PROVE  Gathered(D, s, f)
<1>1. DOMAIN NoItems.items = {} /\ NoItems.removed = {}
  BY DEF NoItems
<1> QED
  BY <1>1 DEF Gathered

LEMMA AuxGathers ==
  ASSUME NEW D \in DType, NEW s \in Session, NEW f, Gathered(D, s, f), NEW p \in Path,
         NEW v \in Value, v = data[p], NEW r \in BOOLEAN, r <=> data[p] \notin f,
         NEW E, E = NodeChangedAux(D, s, p, v, r, FALSE)
  PROVE  Gathered(E, s, f)
<1>1. PICK D0 : D0 = IF r /\ p \in DOMAIN D.pend[s].items THEN Push(D) ELSE D
  OBVIOUS
<1>2. PICK D2 : D2 = IF r THEN [D0 EXCEPT !.pend[s].removed = @ \cup {p}]
                     ELSE [D0 EXCEPT !.pend[s].items = With(@, p, v)]
  OBVIOUS
<1>3. E = IF NumNames(D2.pend[s]) >= MaxItems THEN Push(D2) ELSE D2
  BY <1>1, <1>2 DEF NodeChangedAux
<1>4. ASSUME NEW F \in DType PROVE Gathered(Push(F), s, f)
  BY PushFacts, NothingIsGathered
<1>5. D0 \in DType /\ Gathered(D0, s, f)
  BY <1>1, <1>4, PushFacts
<1>6. D2.ipend = D0.ipend
  BY <1>2, <1>5 DEF DType
<1>7. D2 \in DType /\ Gathered(D2, s, f)
  <2>0. PICK C : C \in Clients
    BY SomeClients
  <2>1. CASE r
    <3>1. p \notin DOMAIN D0.pend[s].items
      <4>1. DOMAIN NoItems.items = {}
        BY DEF NoItems
      <4> QED
        BY <1>1, <2>1, <4>1, PushFacts
    <3>2. D2 = [D0 EXCEPT !.pend[s].removed = @ \cup {p}]
      BY <1>2, <2>1
    <3>3. D2 \in DType
      BY <1>5, <2>0, <3>1, <3>2, PutRemoved
    <3>4. /\ D2.pend[s].removed = D0.pend[s].removed \cup {p}
          /\ D2.pend[s].items = D0.pend[s].items
      <4>1. D0.pend[s] \in PendType
        BY <1>5, DFields
      <4> QED
        BY <1>5, <3>2, <4>1 DEF PendType, DType
    <3>5. D2.ipend[s] = <<>> /\ \A q \in D0.pend[s].removed : data[q] \notin f
      BY <1>5, <1>6 DEF Gathered
    <3>6. \A q \in DOMAIN D2.pend[s].items : data[q] \in f /\ D2.pend[s].items[q] = data[q]
      BY <1>5, <3>4 DEF Gathered
    <3>7. \A q \in D2.pend[s].removed : data[q] \notin f
      BY <2>1, <3>4, <3>5
    <3> QED
      BY <3>3, <3>5, <3>6, <3>7 DEF Gathered
  <2>2. CASE ~r
    <3>1. D2 = [D0 EXCEPT !.pend[s].items = With(@, p, v)]
      BY <1>2, <2>2
    <3>2. D2 \in DType
      BY <1>5, <2>0, <3>1, PutItem
    <3>3. /\ D2.pend[s].removed = D0.pend[s].removed
          /\ D2.pend[s].items = With(D0.pend[s].items, p, v)
          /\ D0.pend[s].items \in ItemsType
      <4>1. D0.pend[s] \in PendType
        BY <1>5, DFields
      <4> QED
        BY <1>5, <3>1, <4>1 DEF PendType, DType
    <3>4. IsWith(D2.pend[s].items, D0.pend[s].items, p, v)
      BY <3>3, ItemsWith
    <3>5. D2.ipend[s] = <<>> /\ \A q \in D0.pend[s].removed : data[q] \notin f
      BY <1>5, <1>6 DEF Gathered
    <3>6. \A q \in DOMAIN D0.pend[s].items : data[q] \in f /\ D0.pend[s].items[q] = data[q]
      BY <1>5 DEF Gathered
    <3>7. \A q \in DOMAIN D2.pend[s].items : data[q] \in f /\ D2.pend[s].items[q] = data[q]
      BY <2>2, <3>4, <3>6 DEF IsWith
    <3>8. \A q \in D2.pend[s].removed : data[q] \notin f
      BY <3>3, <3>5
    <3> QED
      BY <3>2, <3>5, <3>7, <3>8 DEF Gathered
  <2> QED
    BY <2>1, <2>2
<1> QED
  BY <1>3, <1>4, <1>7

RefilteredNodes(s, pat) == {q \in nodes : pat \in subs[s] /\ PathMatches(pat, q)}

RefilterOne(q, E, s, pat, f) ==
  IF (data[q] \in filters[s][pat]) = (data[q] \in f) THEN E
  ELSE NodeChangedAux(E, s, q, data[q], data[q] \notin f, FALSE)

IsRefilterTrace(h, pick, D, S, s, pat, f) ==
  /\ Picks(pick, S)
  /\ h \in [SUBSET S -> DType]
  /\ h[{}] = D
  /\ \A N \in SUBSET S : N # {} => h[N] = RefilterOne(pick[N], h[N \ {pick[N]}], s, pat, f)

(* What session s has of p after its filter was changed from g to f        *)
Refiltered(p, x, g, f) ==
  IF (data[p] \in g) = (data[p] \in f) THEN x ELSE IF data[p] \in f THEN data[p] ELSE None

LEMMA RefilterOneEffect ==
  ASSUME TreeTypeOK, NEW D \in DType, NEW s \in Session, NEW pat, NEW f, NEW q \in nodes
  PROVE  /\ RefilterOne(q, D, s, pat, f) \in DType
         /\ \A C \in Clients :
              ItemBecomes(C, D, RefilterOne(q, D, s, pat, f), s, q,
                          Refiltered(q, XItem(C, D, s, q), filters[s][pat], f))
         /\ Gathered(D, s, f) => Gathered(RefilterOne(q, D, s, pat, f), s, f)
<1>1. q \in Path /\ data[q] \in Value
  BY DEF TreeTypeOK
<1>2. CASE (data[q] \in filters[s][pat]) = (data[q] \in f)
  BY <1>2 DEF RefilterOne, Refiltered, ItemBecomes
<1>3. CASE (data[q] \in filters[s][pat]) # (data[q] \in f)
  <2>3. PICK r \in BOOLEAN : r = (data[q] \notin f)
    OBVIOUS
  <2>1. PICK E : E = NodeChangedAux(D, s, q, data[q], r, FALSE)
    OBVIOUS
  <2>2. RefilterOne(q, D, s, pat, f) = E
    BY <1>3, <2>1, <2>3 DEF RefilterOne
  <2>4. \A C \in Clients : E \in DType /\ ItemBecomes(C, D, E, s, q, IF r THEN None ELSE data[q])
    BY <1>1, <2>1, <2>3, NodeChangedAuxEffect
  <2>5. \A x : Refiltered(q, x, filters[s][pat], f) = IF r THEN None ELSE data[q]
    BY <1>3, <2>3 DEF Refiltered
  <2>6. Gathered(D, s, f) => Gathered(E, s, f)
    BY <1>1, <2>1, <2>3, AuxGathers
  <2> QED
    BY <2>2, <2>4, <2>5, <2>6, SomeClients
<1> QED
  BY <1>2, <1>3

LEMMA RefilterFold ==
  ASSUME TreeTypeOK, NEW D \in DType, NEW s \in Session, NEW pat, NEW f,
         NEW S, S = RefilteredNodes(s, pat)
  PROVE  \E h, pick : IsRefilterTrace(h, pick, D, S, s, pat, f) /\ ChangeQueryFilter(D, s, pat, f) = h[S]
<1> DEFINE A == DType
           any(N) == CHOOSE x \in N : TRUE
           H == CHOOSE g : g = [N \in SUBSET S |->
                  IF N = {} THEN D ELSE RefilterOne(any(N), g[N \ {any(N)}], s, pat, f)]
<1>1. IsFiniteSet(S)
  BY FS_Subset DEF TreeTypeOK, RefilteredNodes
<1>2. D \in A
  OBVIOUS
<1>3. PICK step : step = [k \in S |-> [x \in A |-> RefilterOne(k, x, s, pat, f)]]
  OBVIOUS
<1>4. \A k \in S, x \in A : RefilterOne(k, x, s, pat, f) \in A
  BY RefilterOneEffect DEF RefilteredNodes
<1>5. ChangeQueryFilter(D, s, pat, f) = H[S]
  BY DEF RefilteredNodes, ChangeQueryFilter, RefilterOne, FoldSet, MapThenFoldSet
<1>6. PICK pick : pick = [N \in (SUBSET S) \ {{}} |-> any(N)]
  OBVIOUS
<1>7. /\ \A N \in (SUBSET S) \ {{}} : pick[N] \in N
      /\ \A N \in SUBSET S : N # {} => any(N) = pick[N]
  BY <1>6
<1> HIDE DEF A, H, any
<1>8. \A k \in S, x \in A : step[k][x] = RefilterOne(k, x, s, pat, f) /\ step[k][x] \in A
  BY <1>3, <1>4
<1>9. PICK it : IsFold(it, S, A, D, pick, step)
  BY <1>1, <1>2, <1>7, <1>8, FoldExists
<1>10. it \in [SUBSET S -> A] /\ it[{}] = D
  BY <1>9 DEF IsFold
<1>11. ASSUME NEW N \in SUBSET S, N # {}
      PROVE  it[N] = RefilterOne(pick[N], it[N \ {pick[N]}], s, pat, f)
  <2>1. pick[N] \in S /\ N \ {pick[N]} \in SUBSET S
    BY <1>7, <1>11
  <2>2. it[N \ {pick[N]}] \in A /\ it[N] = step[pick[N]][it[N \ {pick[N]}]]
    BY <1>9, <1>10, <1>11, <2>1 DEF IsFold
  <2> QED
    BY <1>8, <2>1, <2>2
<1>12. it = [N \in SUBSET S |->
              IF N = {} THEN D ELSE RefilterOne(any(N), it[N \ {any(N)}], s, pat, f)]
  BY <1>7, <1>10, <1>11
<1>13. H = [N \in SUBSET S |->
              IF N = {} THEN D ELSE RefilterOne(any(N), H[N \ {any(N)}], s, pat, f)]
  BY <1>12 DEF H
<1> DEFINE W == {N \in SUBSET S : H[N] = it[N]}
<1>14. {} \in W
  BY <1>10, <1>13
<1>15. ASSUME NEW N \in SUBSET S, N # {}, N \ {pick[N]} \in W PROVE N \in W
  <2>1. any(N) = pick[N]
    BY <1>7, <1>15
  <2>2. H[N] = RefilterOne(pick[N], H[N \ {pick[N]}], s, pat, f)
    BY <1>13, <1>15, <2>1
  <2> QED
    BY <1>11, <1>15, <2>2
<1>16. S \in W
  <2> HIDE DEF W
  <2>1. \A N \in SUBSET S : N \in W
    <3>1. \A N \in SUBSET S : N # {} /\ N \ {pick[N]} \in W => N \in W
      BY <1>15
    <3>2. \A N \in (SUBSET S) \ {{}} : pick[N] \in N
      BY <1>7
    <3> QED
      BY <1>1, <1>14, <3>1, <3>2, SubsetInduction
  <2> QED
    BY <2>1
<1>17. \A N \in SUBSET S : N # {} => it[N] = RefilterOne(pick[N], it[N \ {pick[N]}], s, pat, f)
  BY <1>11
<1>18. IsRefilterTrace(it, pick, D, S, s, pat, f)
  BY <1>7, <1>10, <1>17 DEF IsRefilterTrace, Picks, A
<1> QED
  BY <1>5, <1>16, <1>18

RefilterEffect(C, D, E, S, s, g, f) ==
  \A u \in Session, q \in Path :
    /\ XIndex(C, E, u, q) = XIndex(C, D, u, q)
    /\ XItem(C, E, u, q) = IF u = s /\ q \in S THEN Refiltered(q, XItem(C, D, u, q), g, f)
                           ELSE XItem(C, D, u, q)

LEMMA RefilterSet ==
  ASSUME TreeTypeOK, NEW C \in Clients, NEW D \in DType, NEW s \in Session, NEW pat, NEW f,
         Gathered(D, s, f), NEW S \in SUBSET nodes, NEW h, NEW pick,
         IsRefilterTrace(h, pick, D, S, s, pat, f)
  PROVE  /\ h[S] \in DType /\ Gathered(h[S], s, f)
         /\ RefilterEffect(C, D, h[S], S, s, filters[s][pat], f)
<1>0. IsFiniteSet(S) /\ S \subseteq Path
  BY FS_Subset DEF TreeTypeOK
<1>1. PICK g : g = filters[s][pat]
  OBVIOUS
<1>2. /\ \A N \in (SUBSET S) \ {{}} : pick[N] \in N
      /\ \A N \in SUBSET S : h[N] \in DType
      /\ h[{}] = D
      /\ \A N \in SUBSET S : N # {} => h[N] = RefilterOne(pick[N], h[N \ {pick[N]}], s, pat, f)
  BY DEF IsRefilterTrace, Picks
<1>3. \A N \in (SUBSET S) \ {{}} : pick[N] \in N
  BY <1>2
<1> DEFINE W == {N \in SUBSET S : Gathered(h[N], s, f) /\ RefilterEffect(C, D, h[N], N, s, g, f)}
<1>4. {} \in W
  BY <1>2 DEF RefilterEffect
<1>5. ASSUME NEW N \in SUBSET S, N # {}, N \ {pick[N]} \in W PROVE N \in W
  <2>1. PICK t : t = pick[N]
    OBVIOUS
  <2>2. PICK F : F = h[N \ {t}]
    OBVIOUS
  <2>3. /\ t \in N /\ t \in nodes /\ t \in Path /\ F \in DType /\ Gathered(F, s, f)
        /\ RefilterEffect(C, D, F, N \ {t}, s, g, f)
    BY <1>0, <1>2, <1>5, <2>1, <2>2
  <2>4. h[N] = RefilterOne(t, F, s, pat, f)
    BY <1>2, <1>5, <2>1, <2>2
  <2>5. /\ ItemBecomes(C, F, h[N], s, t, Refiltered(t, XItem(C, F, s, t), g, f))
        /\ Gathered(h[N], s, f)
    BY <1>1, <2>3, <2>4, RefilterOneEffect
  <2>6. XItem(C, F, s, t) = XItem(C, D, s, t)
    BY <2>3 DEF RefilterEffect
  <2>7. RefilterEffect(C, D, h[N], N, s, g, f)
    BY <2>3, <2>5, <2>6 DEF RefilterEffect, ItemBecomes
  <2> QED
    BY <2>5, <2>7
<1>6. S \in W
  <2> HIDE DEF W
  <2>1. \A N \in SUBSET S : N \in W
    <3>1. \A N \in SUBSET S : N # {} /\ N \ {pick[N]} \in W => N \in W
      BY <1>5
    <3> QED
      BY <1>0, <1>3, <1>4, <3>1, SubsetInduction
  <2> QED
    BY <2>1
<1> QED
  BY <1>1, <1>2, <1>6

(* ChangeQueryFilterCallback on all the nodes that the string matches      *)
LEMMA ChangeQueryFilterEffect ==
  ASSUME TreeTypeOK, NEW C \in Clients, NEW D \in DType, NEW s \in Session, NEW pat, NEW f,
         Gathered(D, s, f), NEW S, S = RefilteredNodes(s, pat)
  PROVE  /\ ChangeQueryFilter(D, s, pat, f) \in DType
         /\ Gathered(ChangeQueryFilter(D, s, pat, f), s, f)
         /\ RefilterEffect(C, D, ChangeQueryFilter(D, s, pat, f), S, s, filters[s][pat], f)
<1>1. S \in SUBSET nodes
  BY DEF RefilteredNodes
<1>2. PICK h, pick : /\ IsRefilterTrace(h, pick, D, S, s, pat, f)
                     /\ ChangeQueryFilter(D, s, pat, f) = h[S]
  BY RefilterFold
<1> QED
  BY <1>1, <1>2, RefilterSet

-----------------------------------------------------------------------------
(* What is sent to a client that asks for nodes: the queue out, and the    *)
(* items and the ops that are being gathered.                              *)

ReplyType == [out : Seq(MsgType), items : ItemsType, ops : OpsType]

SendItems(R) ==
  [R EXCEPT
     !.out   = (IF R.items = <<>> THEN R.out
                ELSE Append(R.out, ItemsMessage([NoItems EXCEPT !.items = R.items]))),
     !.items = <<>>]
SendIndices(R) ==
  [R EXCEPT
     !.out = (IF R.ops = <<>> THEN R.out ELSE Append(R.out, IndexMessage(R.ops))),
     !.ops = <<>>]
AddItem(R, q) ==
  LET R1 == [R EXCEPT !.items = With(@, q, data[q])]
  IN IF Cardinality(DOMAIN R1.items) >= MaxItems THEN SendItems(R1) ELSE R1
AddIndex(R, q) ==
  LET R1 == IF index[q] = <<>> THEN R
            ELSE [R EXCEPT !.ops = With(@, q, IndexSnapshot(q))]
  IN IF Cardinality(DOMAIN R1.ops) >= MaxItems THEN SendIndices(R1) ELSE R1

(* What the client c makes of it                                           *)
GotItem(c, R, q) ==
  IF q \in DOMAIN R.items THEN R.items[q] ELSE ItemAt(FoldLeft(Receive, c, R.out), q)
GotIndex(c, R, q) ==
  IF q \in DOMAIN R.ops
  THEN FoldLeft(ApplyOp, ClientIndex(FoldLeft(Receive, c, R.out), q), R.ops[q])
  ELSE ClientIndex(FoldLeft(Receive, c, R.out), q)

SameReply(c, R1, R2) ==
  \A q : GotItem(c, R2, q) = GotItem(c, R1, q) /\ GotIndex(c, R2, q) = GotIndex(c, R1, q)

LEMMA ReplyFields ==
  ASSUME NEW R \in ReplyType
  PROVE  R.out \in Seq(MsgType) /\ R.items \in ItemsType /\ R.ops \in OpsType
BY DEF ReplyType

LEMMA SendItemsKeeps ==
  ASSUME NEW c \in ClientType, NEW R \in ReplyType
  PROVE  /\ SendItems(R) \in ReplyType /\ SameReply(c, R, SendItems(R))
         /\ SendItems(R).items = <<>> /\ SendItems(R).ops = R.ops
<1>1. PICK m : m = ItemsMessage([NoItems EXCEPT !.items = R.items])
  OBVIOUS
<1>2. PICK new : new = IF R.items = <<>> THEN R.out ELSE Append(R.out, m)
  OBVIOUS
<1>3. m \in MsgType /\ m.kind = "items" /\ m.items = R.items /\ m.removed = {}
  BY <1>1, ReplyFields DEF ItemsMessage, NoItems, MsgType, ItemsMsg
<1>4. new \in Seq(MsgType) /\ R.out \in Seq(MsgType) /\ <<>> \in ItemsType
  BY <1>2, <1>3, ReplyFields, EmptyItems
<1>5. PICK R1 : R1 = SendItems(R)
  OBVIOUS
<1>6. R1 \in ReplyType /\ R1.out = new /\ R1.items = <<>> /\ R1.ops = R.ops
  BY <1>1, <1>2, <1>4, <1>5 DEF SendItems, ReplyType
<1>7. PICK c0, c1 : c0 = FoldLeft(Receive, c, R.out) /\ c1 = FoldLeft(Receive, c, new)
  OBVIOUS
<1>8. DOMAIN <<>> = {}
  OBVIOUS
<1>9. ASSUME NEW q PROVE GotItem(c, R1, q) = GotItem(c, R, q) /\ GotIndex(c, R1, q) = GotIndex(c, R, q)
  <2>1. CASE R.items = <<>>
    BY <1>2, <1>6, <2>1 DEF GotItem, GotIndex
  <2>2. CASE R.items # <<>>
    <3>1. c0 \in ClientType /\ c1 = Receive(c0, m)
      BY <1>2, <1>3, <1>4, <1>7, <2>2, ReadAppend, ReadType
    <3>2. /\ ItemAt(c1, q) = ItemAfter(m, q, ItemAt(c0, q))
          /\ ClientIndex(c1, q) = IndexAfter(m, q, ClientIndex(c0, q))
      BY <1>3, <3>1, ReceiveFacts
    <3>3. /\ ItemAt(c1, q) = IF q \in DOMAIN R.items THEN R.items[q] ELSE ItemAt(c0, q)
          /\ ClientIndex(c1, q) = ClientIndex(c0, q)
      BY <1>3, <3>2 DEF ItemAfter, IndexAfter
    <3> QED
      BY <1>6, <1>7, <1>8, <3>3 DEF GotItem, GotIndex
  <2> QED
    BY <2>1, <2>2
<1> QED
  BY <1>5, <1>6, <1>9 DEF SameReply

LEMMA SendIndicesKeeps ==
  ASSUME NEW c \in ClientType, NEW R \in ReplyType
  PROVE  /\ SendIndices(R) \in ReplyType /\ SameReply(c, R, SendIndices(R))
         /\ SendIndices(R).ops = <<>> /\ SendIndices(R).items = R.items
<1>1. PICK m : m = IndexMessage(R.ops)
  OBVIOUS
<1>2. PICK new : new = IF R.ops = <<>> THEN R.out ELSE Append(R.out, m)
  OBVIOUS
<1>3. m \in MsgType /\ m.kind = "index" /\ m.ops = R.ops
  BY <1>1, ReplyFields DEF IndexMessage, MsgType, IndexMsg
<1>4. new \in Seq(MsgType) /\ R.out \in Seq(MsgType) /\ <<>> \in OpsType
  BY <1>2, <1>3, ReplyFields, EmptyItems
<1>5. PICK R1 : R1 = SendIndices(R)
  OBVIOUS
<1>6. R1 \in ReplyType /\ R1.out = new /\ R1.ops = <<>> /\ R1.items = R.items
  BY <1>1, <1>2, <1>4, <1>5 DEF SendIndices, ReplyType
<1>7. PICK c0, c1 : c0 = FoldLeft(Receive, c, R.out) /\ c1 = FoldLeft(Receive, c, new)
  OBVIOUS
<1>8. DOMAIN <<>> = {}
  OBVIOUS
<1>9. ASSUME NEW q PROVE GotItem(c, R1, q) = GotItem(c, R, q) /\ GotIndex(c, R1, q) = GotIndex(c, R, q)
  <2>1. CASE R.ops = <<>>
    BY <1>2, <1>6, <2>1 DEF GotItem, GotIndex
  <2>2. CASE R.ops # <<>>
    <3>1. c0 \in ClientType /\ c1 = Receive(c0, m)
      BY <1>2, <1>3, <1>4, <1>7, <2>2, ReadAppend, ReadType
    <3>2. /\ ItemAt(c1, q) = ItemAfter(m, q, ItemAt(c0, q))
          /\ ClientIndex(c1, q) = IndexAfter(m, q, ClientIndex(c0, q))
      BY <1>3, <3>1, ReceiveFacts
    <3>3. /\ ItemAt(c1, q) = ItemAt(c0, q)
          /\ ClientIndex(c1, q) = IF q \in DOMAIN R.ops
                                  THEN FoldLeft(ApplyOp, ClientIndex(c0, q), R.ops[q])
                                  ELSE ClientIndex(c0, q)
      BY <1>3, <3>2 DEF ItemAfter, IndexAfter
    <3> QED
      BY <1>6, <1>7, <1>8, <3>3 DEF GotItem, GotIndex
  <2> QED
    BY <2>1, <2>2
<1> QED
  BY <1>5, <1>6, <1>9 DEF SameReply

(* The op codes that tell of a whole index, whatever the client had        *)
LEMMA SnapshotRead ==
  ASSUME NEW q \in Path, NEW idx \in Seq(PathName), idx = index[q], NEW x \in Seq(PathName)
  PROVE  IndexSnapshot(q) \in Seq(OpType) /\ FoldLeft(ApplyOp, x, IndexSnapshot(q)) = idx
<1>1. PICK a, b, n : /\ a = <<[kind |-> "index", op |-> "c", path |-> q]>> /\ n = Len(idx)
                     /\ b = [k \in DOMAIN idx |-> IndexOp("i", q, k, idx[k])]
  OBVIOUS
<1>2. PICK ops : ops = IndexSnapshot(q)
  OBVIOUS
<1>3. ops = a \o b
  BY <1>1, <1>2 DEF IndexSnapshot
<1>4. n \in Nat /\ DOMAIN idx = 1 .. n /\ \A k \in 1 .. n : idx[k] \in PathName
  BY <1>1, LenProperties
<1>5. a \in Seq(OpType) /\ Len(a) = 1 /\ a[1].op = "c"
  BY <1>1 DEF OpType
<1>6. \A k \in 1 .. n : /\ b[k] \in OpType /\ b[k].op = "i" /\ b[k].at = k /\ b[k].name = idx[k]
                        /\ b[k] = IndexOp("i", q, k, idx[k])
  <2>1. \A k \in 1 .. n : b[k] = IndexOp("i", q, k, idx[k])
    BY <1>1, <1>4
  <2>2. \A k \in 1 .. n : k \in Nat \ {0}
    BY <1>4
  <2>3. \A k \in 1 .. n : IndexOp("i", q, k, idx[k]) \in OpType
    BY <1>4, <2>2 DEF IndexOp, OpType
  <2> QED
    BY <2>1, <2>3 DEF IndexOp
<1>7. b \in Seq(OpType) /\ Len(b) = n
  <2>1. b \in [1 .. n -> OpType]
    BY <1>1, <1>4, <1>6
  <2> QED
    BY <1>4, <2>1
<1>8. /\ ops \in Seq(OpType) /\ Len(ops) = n + 1 /\ ops[1].op = "c"
      /\ \A k \in 1 .. n : ops[k + 1] = b[k]
  <2>1. /\ ops \in Seq(OpType) /\ Len(ops) = Len(a) + Len(b)
        /\ \A i \in 1 .. Len(a) + Len(b) : ops[i] = IF i <= Len(a) THEN a[i] ELSE b[i - Len(a)]
    BY <1>3, <1>5, <1>7, ConcatProperties
  <2>2. Len(a) + Len(b) = n + 1 /\ 1 \in 1 .. n + 1 /\ 1 <= Len(a)
    BY <1>4, <1>5, <1>7
  <2>3. \A k \in 1 .. n : k + 1 \in 1 .. n + 1 /\ ~ (k + 1 <= 1) /\ (k + 1) - 1 = k
    BY <1>4
  <2> QED
    BY <1>5, <2>1, <2>2, <2>3
<1>9. PICK f : IsOpTrace(f, x, ops) /\ FoldLeft(ApplyOp, x, ops) = f[n + 1]
  BY <1>8, OpFold
<1>10. /\ f[1] = <<>>
       /\ \A k \in 1 .. n : f[k + 1] = ApplyOp(f[k], b[k])
  <2>1. \A k \in 1 .. n + 1 : f[k] = ApplyOp(f[k - 1], ops[k])
    BY <1>8, <1>9 DEF IsOpTrace
  <2>2. f[1] = ApplyOp(f[1 - 1], ops[1])
    BY <1>4, <2>1
  <2>3. f[1] = <<>>
    BY <1>8, <2>2 DEF ApplyOp
  <2>4. ASSUME NEW k \in 1 .. n PROVE f[k + 1] = ApplyOp(f[k], b[k])
    <3>1. k + 1 \in 1 .. n + 1 /\ (k + 1) - 1 = k
      BY <1>4
    <3> QED
      BY <1>8, <2>1, <3>1
  <2> QED
    BY <2>3, <2>4
<1> DEFINE W == {k \in 0 .. n : f[k + 1] = SubSeq(idx, 1, k)}
<1>11. 0 \in W
  <2>1. SubSeq(idx, 1, 0) = <<>>
    BY SubSeqEmpty, 0 \in Int, 1 \in Int, 0 < 1
  <2>2. 0 \in 0 .. n /\ 0 + 1 = 1
    BY <1>4
  <2> QED
    BY <1>10, <2>1, <2>2
<1>12. ASSUME NEW k \in 1 .. n, k - 1 \in W PROVE k \in W
  <2>1. PICK pre : pre = SubSeq(idx, 1, k - 1)
    OBVIOUS
  <2>2. pre \in Seq(PathName) /\ Len(pre) = k - 1 /\ \A j \in 1 .. k - 1 : pre[j] = idx[j]
    BY <1>1, <1>4, <2>1
  <2>3. f[k] = pre
    BY <1>4, <1>12, <2>1
  <2>4. f[k + 1] = InsertAt(pre, k, idx[k])
    <3>1. k <= Len(pre) + 1
      BY <1>4, <2>2
    <3>2. ApplyOp(pre, b[k]) = InsertAt(pre, k, idx[k])
      BY <1>6, <3>1 DEF ApplyOp
    <3> QED
      BY <1>10, <2>3, <3>2
  <2>5. PICK post : post = InsertAt(pre, k, idx[k])
    OBVIOUS
  <2>6. /\ post \in Seq(PathName) /\ DOMAIN post = 1 .. k
        /\ \A j \in 1 .. k : post[j] = IF j < k THEN pre[j] ELSE IF j = k THEN idx[k] ELSE pre[j - 1]
    <3>1. k \in 1 .. Len(pre) + 1 /\ Len(pre) + 1 = k /\ idx[k] \in PathName
      BY <1>4, <2>2
    <3>2. PICK e \in PathName : e = idx[k]
      BY <3>1
    <3>3. /\ InsertAt(pre, k, e) \in Seq(PathName)
          /\ DOMAIN InsertAt(pre, k, e) = 1 .. Len(pre) + 1
          /\ \A j \in 1 .. Len(pre) + 1 :
               InsertAt(pre, k, e)[j] = IF j < k THEN pre[j] ELSE IF j = k THEN e ELSE pre[j - 1]
      BY <2>2, <3>1, InsertAtFacts
    <3> QED
      BY <2>5, <3>1, <3>2, <3>3
  <2>7. Len(post) = k /\ \A j \in 1 .. k : post[j] = idx[j]
    <3>1. Len(post) = k
      BY <1>4, <2>6
    <3>2. \A j \in 1 .. k : j < k => j \in 1 .. k - 1
      BY <1>4
    <3>3. \A j \in 1 .. k : j < k \/ j = k
      BY <1>4
    <3> QED
      BY <2>2, <2>6, <3>1, <3>2, <3>3
  <2>8. /\ SubSeq(idx, 1, k) \in Seq(PathName) /\ Len(SubSeq(idx, 1, k)) = k
        /\ \A j \in 1 .. k : SubSeq(idx, 1, k)[j] = idx[j]
    BY <1>1, <1>4
  <2>9. post = SubSeq(idx, 1, k)
    <3>1. PICK z : z = SubSeq(idx, 1, k)
      OBVIOUS
    <3>2. post = z
      BY <2>6, <2>7, <2>8, <3>1, SeqEqual
    <3> QED
      BY <3>1, <3>2
  <2> QED
    BY <1>4, <2>4, <2>5, <2>9
<1>13. n \in W
  <2> HIDE DEF W
  <2>1. n \in 0 .. n
    BY <1>4
  <2>2. \A k \in 1 .. n : k - 1 \in W => k \in W
    BY <1>12
  <2> QED
    BY <1>4, <1>11, <2>1, <2>2, PositionInduction
<1>14. SubSeq(idx, 1, n) = idx
  BY <1>1
<1> QED
  BY <1>2, <1>8, <1>9, <1>13, <1>14

(* R1 tells the client of the nodes in S in addition to what R tells it.   *)
TellsOf(c, R, R1, S) ==
  \A q : /\ GotItem(c, R1, q) = IF q \in S THEN data[q] ELSE GotItem(c, R, q)
         /\ GotIndex(c, R1, q) = IF q \in S /\ index[q] # <<>> THEN index[q] ELSE GotIndex(c, R, q)

LEMMA AddItemGot ==
  ASSUME TreeTypeOK, NEW c \in ClientType, NEW R \in ReplyType, NEW p \in nodes,
         NEW R1, R1 = AddItem(R, p)
  PROVE  /\ R1 \in ReplyType
         /\ \A q : /\ GotItem(c, R1, q) = IF q = p THEN data[p] ELSE GotItem(c, R, q)
                   /\ GotIndex(c, R1, q) = GotIndex(c, R, q)
<1>1. p \in Path /\ data[p] \in Value
  BY DEF TreeTypeOK
<1>2. PICK v \in Value : v = data[p]
  BY <1>1
<1>3. PICK new : new = With(R.items, p, v)
  OBVIOUS
<1>4. PICK R2 : R2 = [R EXCEPT !.items = new]
  OBVIOUS
<1>5. R1 = IF Cardinality(DOMAIN R2.items) >= MaxItems THEN SendItems(R2) ELSE R2
  BY <1>2, <1>3, <1>4 DEF AddItem
<1>6. new \in ItemsType /\ IsWith(new, R.items, p, v)
  BY <1>1, <1>3, ReplyFields, ItemsWith
<1>7. R2 \in ReplyType /\ R2.items = new /\ R2.out = R.out /\ R2.ops = R.ops
  BY <1>4, <1>6 DEF ReplyType
<1>8. \A q : /\ GotItem(c, R2, q) = IF q = p THEN data[p] ELSE GotItem(c, R, q)
             /\ GotIndex(c, R2, q) = GotIndex(c, R, q)
  BY <1>2, <1>6, <1>7 DEF GotItem, GotIndex, IsWith
<1>9. R1 \in ReplyType /\ SameReply(c, R2, R1)
  BY <1>5, <1>7, SendItemsKeeps DEF SameReply
<1> QED
  BY <1>8, <1>9 DEF SameReply

LEMMA AddIndexGot ==
  ASSUME TreeTypeOK, IndexInv, NEW c \in ClientType, NEW R \in ReplyType, NEW p \in nodes,
         NEW R1, R1 = AddIndex(R, p)
  PROVE  /\ R1 \in ReplyType
         /\ \A q : /\ GotItem(c, R1, q) = GotItem(c, R, q)
                   /\ GotIndex(c, R1, q) = IF q = p /\ index[p] # <<>> THEN index[p]
                                           ELSE GotIndex(c, R, q)
<1>1. p \in Path /\ index[p] \in Seq(PathName)
  BY DEF TreeTypeOK, IndexInv, ListsChildren
<1>2. PICK ops : ops = IndexSnapshot(p)
  OBVIOUS
<1>3. /\ ops \in Seq(OpType)
      /\ \A x \in Seq(PathName) : FoldLeft(ApplyOp, x, ops) = index[p]
  <2>1. \E x : x \in Seq(PathName)
    BY <1>1
  <2> QED
    BY <1>1, <1>2, <2>1, SnapshotRead
<1>4. PICK new : new = With(R.ops, p, ops)
  OBVIOUS
<1>5. PICK R2 : R2 = IF index[p] = <<>> THEN R ELSE [R EXCEPT !.ops = new]
  OBVIOUS
<1>6. R1 = IF Cardinality(DOMAIN R2.ops) >= MaxItems THEN SendIndices(R2) ELSE R2
  BY <1>2, <1>4, <1>5 DEF AddIndex
<1>7. new \in OpsType /\ IsWith(new, R.ops, p, ops)
  <2>1. R.ops \in OpsType
    BY ReplyFields
  <2> QED
    BY <1>1, <1>3, <1>4, <2>1, WithFacts DEF OpsType
<1>8. /\ R2 \in ReplyType
      /\ \A q : /\ GotItem(c, R2, q) = GotItem(c, R, q)
                /\ GotIndex(c, R2, q) = IF q = p /\ index[p] # <<>> THEN index[p]
                                        ELSE GotIndex(c, R, q)
  <2>1. CASE index[p] = <<>>
    BY <1>5, <2>1
  <2>2. CASE index[p] # <<>>
    <3>1. R2 \in ReplyType /\ R2.ops = new /\ R2.out = R.out /\ R2.items = R.items
      BY <1>5, <1>7, <2>2 DEF ReplyType
    <3>2. PICK got : got = FoldLeft(Receive, c, R.out)
      OBVIOUS
    <3>3. \A q : ClientIndex(got, q) \in Seq(PathName)
      BY <3>2, ReplyFields, ReadType, ClientFields
    <3>4. \A q : GotItem(c, R2, q) = GotItem(c, R, q)
      BY <3>1 DEF GotItem
    <3>5. \A q : q # p => GotIndex(c, R2, q) = GotIndex(c, R, q)
      BY <1>7, <3>1 DEF GotIndex, IsWith
    <3>6. GotIndex(c, R2, p) = FoldLeft(ApplyOp, ClientIndex(got, p), ops)
      BY <1>7, <3>1, <3>2 DEF GotIndex, IsWith
    <3>7. GotIndex(c, R2, p) = index[p]
      BY <1>3, <3>3, <3>6
    <3> QED
      BY <2>2, <3>1, <3>4, <3>5, <3>7
  <2> QED
    BY <2>1, <2>2
<1>9. R1 \in ReplyType /\ SameReply(c, R2, R1)
  BY <1>6, <1>8, SendIndicesKeeps DEF SameReply
<1> QED
  BY <1>8, <1>9 DEF SameReply

GetOne(q, R) == AddIndex(AddItem(R, q), q)

LEMMA GetOneGot ==
  ASSUME TreeTypeOK, IndexInv, NEW c \in ClientType, NEW R \in ReplyType, NEW p \in nodes
  PROVE  GetOne(p, R) \in ReplyType /\ TellsOf(c, R, GetOne(p, R), {p})
<1>1. PICK R1, R2 : R1 = AddItem(R, p) /\ R2 = AddIndex(R1, p)
  OBVIOUS
<1>2. /\ R1 \in ReplyType
      /\ \A q : /\ GotItem(c, R1, q) = IF q = p THEN data[p] ELSE GotItem(c, R, q)
                /\ GotIndex(c, R1, q) = GotIndex(c, R, q)
  BY <1>1, AddItemGot
<1>3. /\ R2 \in ReplyType
      /\ \A q : /\ GotItem(c, R2, q) = GotItem(c, R1, q)
                /\ GotIndex(c, R2, q) = IF q = p /\ index[p] # <<>> THEN index[p]
                                        ELSE GotIndex(c, R1, q)
  BY <1>1, <1>2, AddIndexGot
<1>4. GetOne(p, R) = R2
  BY <1>1 DEF GetOne
<1> QED
  BY <1>2, <1>3, <1>4 DEF TellsOf

IsGetTrace(h, pick, R, S) ==
  /\ Picks(pick, S)
  /\ h \in [SUBSET S -> ReplyType]
  /\ h[{}] = R
  /\ \A N \in SUBSET S : N # {} => h[N] = GetOne(pick[N], h[N \ {pick[N]}])

Asked(queue) == [out |-> queue, items |-> <<>>, ops |-> <<>>]
Reply(D, s, R) == [D EXCEPT !.out[s] = SendIndices(SendItems(R)).out]

LEMMA AskedType ==
  ASSUME NEW queue \in Seq(MsgType)
  PROVE  Asked(queue) \in ReplyType
BY EmptyItems DEF Asked, ReplyType

LEMMA EmptyClient == NoClient \in ClientType
BY EmptyPartial DEF NoClient, ClientType

LEMMA GetDataFold ==
  ASSUME TreeTypeOK, IndexInv, NEW D \in DType, NEW s \in Session, NEW pat, NEW f,
         NEW S, S = GetDataTargets(s, pat, f)
  PROVE  \E h, pick : IsGetTrace(h, pick, Asked(D.out[s]), S) /\ DoGetData(D, s, pat, f) = Reply(D, s, h[S])
<1> DEFINE A == ReplyType
           any(N) == CHOOSE x \in N : TRUE
           H == CHOOSE g : g = [N \in SUBSET S |->
                  IF N = {} THEN Asked(D.out[s]) ELSE GetOne(any(N), g[N \ {any(N)}])]
<1>1. IsFiniteSet(S)
  BY FS_Subset DEF TreeTypeOK, GetDataTargets
<1>2. Asked(D.out[s]) \in A
  BY DFields, AskedType
<1>3. PICK step : step = [k \in S |-> [x \in A |-> GetOne(k, x)]]
  OBVIOUS
<1>4. \A k \in S, x \in A : GetOne(k, x) \in A
  BY EmptyClient, GetOneGot DEF GetDataTargets
<1>5. DoGetData(D, s, pat, f) = Reply(D, s, H[S])
  <2> DEFINE T == GetDataTargets(s, pat, f)
             G == CHOOSE g : g = [N \in SUBSET T |->
                    IF N = {} THEN Asked(D.out[s]) ELSE GetOne(any(N), g[N \ {any(N)}])]
  <2>1. DoGetData(D, s, pat, f) = Reply(D, s, G[T])
    BY Zenon DEF DoGetData, Reply, Asked, GetOne, AddItem, AddIndex, SendItems, SendIndices, FoldSet, MapThenFoldSet
  <2>2. S = T
    OBVIOUS
  <2> HIDE DEF T
  <2> QED
    BY <2>1, <2>2
<1>6. PICK pick : pick = [N \in (SUBSET S) \ {{}} |-> any(N)]
  OBVIOUS
<1>7. /\ \A N \in (SUBSET S) \ {{}} : pick[N] \in N
      /\ \A N \in SUBSET S : N # {} => any(N) = pick[N]
  BY <1>6
<1> HIDE DEF A, H, any
<1>8. \A k \in S, x \in A : step[k][x] = GetOne(k, x) /\ step[k][x] \in A
  BY <1>3, <1>4
<1>9. PICK it : IsFold(it, S, A, Asked(D.out[s]), pick, step)
  BY <1>1, <1>2, <1>7, <1>8, FoldExists
<1>10. it \in [SUBSET S -> A] /\ it[{}] = Asked(D.out[s])
  BY <1>9 DEF IsFold
<1>11. ASSUME NEW N \in SUBSET S, N # {}
      PROVE  it[N] = GetOne(pick[N], it[N \ {pick[N]}])
  <2>1. pick[N] \in S /\ N \ {pick[N]} \in SUBSET S
    BY <1>7, <1>11
  <2>2. it[N \ {pick[N]}] \in A /\ it[N] = step[pick[N]][it[N \ {pick[N]}]]
    BY <1>9, <1>10, <1>11, <2>1 DEF IsFold
  <2> QED
    BY <1>8, <2>1, <2>2
<1>12. it = [N \in SUBSET S |->
              IF N = {} THEN Asked(D.out[s]) ELSE GetOne(any(N), it[N \ {any(N)}])]
  BY <1>7, <1>10, <1>11
<1>13. H = [N \in SUBSET S |->
              IF N = {} THEN Asked(D.out[s]) ELSE GetOne(any(N), H[N \ {any(N)}])]
  BY <1>12 DEF H
<1> DEFINE W == {N \in SUBSET S : H[N] = it[N]}
<1>14. {} \in W
  BY <1>10, <1>13
<1>15. ASSUME NEW N \in SUBSET S, N # {}, N \ {pick[N]} \in W PROVE N \in W
  <2>1. any(N) = pick[N]
    BY <1>7, <1>15
  <2>2. H[N] = GetOne(pick[N], H[N \ {pick[N]}])
    BY <1>13, <1>15, <2>1
  <2> QED
    BY <1>11, <1>15, <2>2
<1>16. S \in W
  <2> HIDE DEF W
  <2>1. \A N \in SUBSET S : N \in W
    <3>1. \A N \in SUBSET S : N # {} /\ N \ {pick[N]} \in W => N \in W
      BY <1>15
    <3>2. \A N \in (SUBSET S) \ {{}} : pick[N] \in N
      BY <1>7
    <3> QED
      BY <1>1, <1>14, <3>1, <3>2, SubsetInduction
  <2> QED
    BY <2>1
<1>17. \A N \in SUBSET S : N # {} => it[N] = GetOne(pick[N], it[N \ {pick[N]}])
  BY <1>11
<1>18. IsGetTrace(it, pick, Asked(D.out[s]), S)
  BY <1>7, <1>10, <1>17 DEF IsGetTrace, Picks, A
<1> QED
  BY <1>5, <1>16, <1>18

LEMMA GetSet ==
  ASSUME TreeTypeOK, IndexInv, NEW c \in ClientType, NEW R \in ReplyType,
         NEW S \in SUBSET nodes, NEW h, NEW pick, IsGetTrace(h, pick, R, S)
  PROVE  h[S] \in ReplyType /\ TellsOf(c, R, h[S], S)
<1>0. IsFiniteSet(S)
  BY FS_Subset DEF TreeTypeOK
<1>2. /\ \A N \in (SUBSET S) \ {{}} : pick[N] \in N
      /\ \A N \in SUBSET S : h[N] \in ReplyType
      /\ h[{}] = R
      /\ \A N \in SUBSET S : N # {} => h[N] = GetOne(pick[N], h[N \ {pick[N]}])
  BY DEF IsGetTrace, Picks
<1>3. \A N \in (SUBSET S) \ {{}} : pick[N] \in N
  BY <1>2
<1> DEFINE W == {N \in SUBSET S : TellsOf(c, R, h[N], N)}
<1>4. {} \in W
  BY <1>2 DEF TellsOf
<1>5. ASSUME NEW N \in SUBSET S, N # {}, N \ {pick[N]} \in W PROVE N \in W
  <2>1. PICK t : t = pick[N]
    OBVIOUS
  <2>2. PICK F : F = h[N \ {t}]
    OBVIOUS
  <2>3. t \in N /\ t \in nodes /\ F \in ReplyType /\ TellsOf(c, R, F, N \ {t})
    BY <1>2, <1>5, <2>1, <2>2
  <2>4. h[N] = GetOne(t, F)
    BY <1>2, <1>5, <2>1, <2>2
  <2>5. TellsOf(c, F, h[N], {t})
    BY <2>3, <2>4, GetOneGot
  <2>6. TellsOf(c, R, h[N], N)
    BY <2>3, <2>5 DEF TellsOf
  <2> QED
    BY <2>6
<1>6. S \in W
  <2> HIDE DEF W
  <2>1. \A N \in SUBSET S : N \in W
    <3>1. \A N \in SUBSET S : N # {} /\ N \ {pick[N]} \in W => N \in W
      BY <1>5
    <3> QED
      BY <1>0, <1>3, <1>4, <3>1, SubsetInduction
  <2> QED
    BY <2>1
<1> QED
  BY <1>2, <1>6

GetDataEffect(C, D, E, s, S) ==
  /\ E \in DType /\ E.pend = D.pend /\ E.ipend = D.ipend
  /\ \A u \in Session \ {s} : \A q : /\ XIndex(C, E, u, q) = XIndex(C, D, u, q)
                                     /\ XItem(C, E, u, q) = XItem(C, D, u, q)
  /\ \A q : /\ ItemAt(Arrived(C, E, s), q) =
                 IF q \in S THEN data[q] ELSE ItemAt(Arrived(C, D, s), q)
            /\ ClientIndex(Arrived(C, E, s), q) =
                 IF q \in S /\ index[q] # <<>> THEN index[q]
                 ELSE ClientIndex(Arrived(C, D, s), q)

(* DoGetData: the client is told of every node it asks for and its index,  *)
(* however many Messages that takes.                                       *)
LEMMA DoGetDataEffect ==
  ASSUME TreeTypeOK, IndexInv, NEW C \in Clients, NEW D \in DType, NEW s \in Session,
         NEW pat, NEW f, NEW S, S = GetDataTargets(s, pat, f)
  PROVE  GetDataEffect(C, D, DoGetData(D, s, pat, f), s, S)
<1>1. PICK R : R = Asked(D.out[s])
  OBVIOUS
<1>2. S \in SUBSET nodes /\ R \in ReplyType
  BY <1>1, DFields, AskedType DEF GetDataTargets
<1>3. PICK h, pick : IsGetTrace(h, pick, R, S) /\ DoGetData(D, s, pat, f) = Reply(D, s, h[S])
  BY <1>1, GetDataFold
<1>4. PICK c \in ClientType : c = C[s]
  BY DEF Clients
<1>5. PICK R1 : R1 = h[S]
  OBVIOUS
<1>6. R1 \in ReplyType /\ TellsOf(c, R, R1, S)
  BY <1>2, <1>3, <1>5, GetSet
<1>7. PICK R2, R3 : R2 = SendItems(R1) /\ R3 = SendIndices(R2)
  OBVIOUS
<1>8. /\ R2 \in ReplyType /\ SameReply(c, R1, R2) /\ R3 \in ReplyType /\ SameReply(c, R2, R3)
      /\ R3.ops = <<>> /\ R3.items = <<>> /\ R3.out \in Seq(MsgType)
  BY <1>6, <1>7, SendItemsKeeps, SendIndicesKeeps, ReplyFields
<1>9. PICK E, queue : E = DoGetData(D, s, pat, f) /\ queue = R3.out
  OBVIOUS
<1>10. QueueEffect(C, D, E, s, queue)
  <2>1. E = [D EXCEPT !.out[s] = queue]
    BY <1>3, <1>5, <1>7, <1>9 DEF Reply
  <2> QED
    BY <1>8, <1>9, <2>1, QueueChanges
<1>11. \A q : /\ GotItem(c, R, q) = ItemAt(Arrived(C, D, s), q)
              /\ GotIndex(c, R, q) = ClientIndex(Arrived(C, D, s), q)
  BY <1>1, <1>4 DEF GotItem, GotIndex, Asked, Arrived
<1>12. \A q : /\ GotItem(c, R3, q) = ItemAt(Arrived(C, E, s), q)
              /\ GotIndex(c, R3, q) = ClientIndex(Arrived(C, E, s), q)
  <2>1. Arrived(C, E, s) = FoldLeft(Receive, c, R3.out)
    BY <1>4, <1>9, <1>10 DEF QueueEffect
  <2> QED
    BY <1>8, <2>1 DEF GotItem, GotIndex
<1>13. \A q : /\ ItemAt(Arrived(C, E, s), q) =
                   IF q \in S THEN data[q] ELSE ItemAt(Arrived(C, D, s), q)
              /\ ClientIndex(Arrived(C, E, s), q) =
                   IF q \in S /\ index[q] # <<>> THEN index[q]
                   ELSE ClientIndex(Arrived(C, D, s), q)
  BY <1>6, <1>8, <1>11, <1>12 DEF TellsOf, SameReply
<1> QED
  BY <1>9, <1>10, <1>13 DEF QueueEffect, GetDataEffect

(* What the client of session s will have after it has subscribed.  The    *)
(* removals and items that the changed filter left to be sent arrive after *)
(* the nodes themselves, and agree with them.                              *)
LEMMA SubscribeShows ==
  ASSUME TreeTypeOK, IndexInv, NEW C \in Clients, NEW D \in DType, NEW s \in Session,
         NEW pat, NEW f, Gathered(D, s, f), NEW S, S = RefilteredNodes(s, pat),
         NEW T, T = GetDataTargets(s, pat, f), NEW E,
         E = DoGetData(ChangeQueryFilter(D, s, pat, f), s, pat, f)
  PROVE  /\ E \in DType
         /\ \A u \in Session \ {s}, q \in Path : /\ XItem(C, E, u, q) = XItem(C, D, u, q)
                                                 /\ XIndex(C, E, u, q) = XIndex(C, D, u, q)
         /\ \A q \in Path :
              /\ XItem(C, E, s, q) =
                   IF q \in T THEN data[q]
                   ELSE IF q \in S THEN Refiltered(q, XItem(C, D, s, q), filters[s][pat], f)
                   ELSE XItem(C, D, s, q)
              /\ XIndex(C, E, s, q) =
                   IF q \in T /\ index[q] # <<>> THEN index[q] ELSE XIndex(C, D, s, q)
<1>1. PICK F : F = ChangeQueryFilter(D, s, pat, f)
  OBVIOUS
<1>2. /\ F \in DType /\ Gathered(F, s, f)
      /\ RefilterEffect(C, D, F, S, s, filters[s][pat], f)
  BY <1>1, ChangeQueryFilterEffect
<1>3. GetDataEffect(C, F, E, s, T)
  BY <1>1, <1>2, DoGetDataEffect
<1>4. E \in DType /\ E.pend = F.pend /\ E.ipend = F.ipend
  BY <1>3 DEF GetDataEffect
<1>5. PICK P : P = F.pend[s]
  OBVIOUS
<1>6. /\ F.ipend[s] = <<>>
      /\ \A q \in DOMAIN P.items : data[q] \in f /\ P.items[q] = data[q]
      /\ \A q \in P.removed : data[q] \notin f
  BY <1>2, <1>5 DEF Gathered
<1>7. \A q, x : ItemAfter(ItemsMessage(P), q, x) =
                  IF q \in DOMAIN P.items THEN P.items[q] ELSE IF q \in P.removed THEN None ELSE x
  BY DEF ItemAfter, ItemsMessage
<1>8. \A q, x : IndexAfter(IndexMessage(<<>>), q, x) = x
  <2>1. DOMAIN <<>> = {}
    OBVIOUS
  <2> QED
    BY <2>1 DEF IndexAfter, IndexMessage
<1>9. \A q \in T : data[q] \in f
  BY DEF GetDataTargets
<1>10. ASSUME NEW q \in Path
       PROVE  /\ XItem(C, E, s, q) = IF q \in T THEN data[q] ELSE XItem(C, F, s, q)
              /\ XIndex(C, E, s, q) =
                   IF q \in T /\ index[q] # <<>> THEN index[q] ELSE XIndex(C, F, s, q)
  <2>1. /\ XItem(C, E, s, q) = ItemAfter(ItemsMessage(P), q, ItemAt(Arrived(C, E, s), q))
        /\ XIndex(C, E, s, q) = IndexAfter(IndexMessage(<<>>), q, ClientIndex(Arrived(C, E, s), q))
        /\ XItem(C, F, s, q) = ItemAfter(ItemsMessage(P), q, ItemAt(Arrived(C, F, s), q))
        /\ XIndex(C, F, s, q) = IndexAfter(IndexMessage(<<>>), q, ClientIndex(Arrived(C, F, s), q))
    BY <1>2, <1>4, <1>5, <1>6, SeenIs
  <2>2. /\ ItemAt(Arrived(C, E, s), q) = IF q \in T THEN data[q] ELSE ItemAt(Arrived(C, F, s), q)
        /\ ClientIndex(Arrived(C, E, s), q) = IF q \in T /\ index[q] # <<>> THEN index[q]
                                              ELSE ClientIndex(Arrived(C, F, s), q)
    BY <1>3 DEF GetDataEffect
  <2>3. q \in T => XItem(C, E, s, q) = data[q]
    BY <1>6, <1>7, <1>9, <2>1, <2>2
  <2> QED
    BY <1>8, <2>1, <2>2, <2>3
<1>11. ASSUME NEW u \in Session \ {s}, NEW q \in Path
       PROVE  XItem(C, E, u, q) = XItem(C, D, u, q) /\ XIndex(C, E, u, q) = XIndex(C, D, u, q)
  <2>1. XItem(C, E, u, q) = XItem(C, F, u, q) /\ XIndex(C, E, u, q) = XIndex(C, F, u, q)
    BY <1>3 DEF GetDataEffect
  <2> QED
    BY <1>2, <2>1 DEF RefilterEffect
<1>12. \A q \in Path :
         /\ XIndex(C, F, s, q) = XIndex(C, D, s, q)
         /\ XItem(C, F, s, q) = IF q \in S THEN Refiltered(q, XItem(C, D, s, q), filters[s][pat], f)
                                ELSE XItem(C, D, s, q)
  BY <1>2 DEF RefilterEffect
<1> QED
  BY <1>4, <1>10, <1>11, <1>12

(* Two strings of one session that match the same node, or nobody filters  *)
LEMMA MatchApart ==
  ASSUME FiltersApart, NEW p1 \in Pattern, NEW p2 \in Pattern, NEW q \in Path,
         PathMatches(p1, q), PathMatches(p2, q)
  PROVE  p1 = p2 \/ Filter = {NoFilter}
<1>1. Len(p1) = Len(q) /\ Len(p2) = Len(q) /\ \A j \in 1 .. Len(q) : q[j] \in p1[j] /\ q[j] \in p2[j]
  BY DEF PathMatches
<1>2. ~ (\E j \in 1 .. Len(p1) : p1[j] \cap p2[j] = {})
  BY <1>1
<1> QED
  BY <1>1, <1>2 DEF FiltersApart

(* What the new filter makes of what the client had is what its session    *)
(* now matches.                                                            *)
LEMMA SubscribeVisible ==
  ASSUME TreeTypeOK, FiltersApart, NEW s \in Session, NEW pat \in Pattern, NEW f \in Filter,
         subs' = [subs EXCEPT ![s] = @ \cup {pat}], filters' = [filters EXCEPT ![s][pat] = f],
         NEW q \in Path, Heard(s, q), NEW v, v = DB[q], NEW x, x = Visible(s, q, v)
  PROVE  Visible(s, q, v)' =
           IF q \in GetDataTargets(s, pat, f) THEN data[q]
           ELSE IF q \in RefilteredNodes(s, pat) THEN Refiltered(q, x, filters[s][pat], f)
           ELSE x
<1>1. /\ subs[s] \in SUBSET Pattern /\ subs'[s] = subs[s] \cup {pat}
      /\ \A p \in Pattern : filters'[s][p] = IF p = pat THEN f ELSE filters[s][p]
      /\ \A p \in Pattern : filters[s][p] \in Filter
  BY DEF TreeTypeOK
<1>2. /\ x = IF v # None /\ MatchesNode(s, q, v) THEN v ELSE None
      /\ Visible(s, q, v)' = IF v # None /\ MatchesNode(s, q, v)' THEN v ELSE None
  BY DEF Visible
<1>3. /\ MatchesNode(s, q, v) <=>
           \E p \in subs[s] : PathMatches(p, q) /\ (v = None \/ v \in filters[s][p])
      /\ MatchesNode(s, q, v)' <=>
           \E p \in subs'[s] : PathMatches(p, q) /\ (v = None \/ v \in filters'[s][p])
  BY DEF MatchesNode, MatchingSubs
<1>4. /\ q \in nodes => v = data[q] /\ v \in Value /\ v # None
      /\ q \notin nodes => v = None
  BY DeliveryAssumption DEF DB, TreeTypeOK
<1>5. q \in GetDataTargets(s, pat, f) <=> q \in nodes /\ PathMatches(pat, q) /\ data[q] \in f
  BY DEF GetDataTargets, GetDataSkips, Heard
<1>6. q \in RefilteredNodes(s, pat) <=> q \in nodes /\ pat \in subs[s] /\ PathMatches(pat, q)
  BY DEF RefilteredNodes
<1>7. CASE q \notin nodes
  BY <1>2, <1>4, <1>5, <1>6, <1>7
<1>8. CASE q \in nodes /\ ~PathMatches(pat, q)
  <2>1. MatchesNode(s, q, v)' <=> MatchesNode(s, q, v)
    BY <1>1, <1>3, <1>8
  <2> QED
    BY <1>2, <1>5, <1>6, <1>8, <2>1
<1>9. CASE q \in nodes /\ PathMatches(pat, q) /\ v \in f
  <2>1. MatchesNode(s, q, v)'
    BY <1>1, <1>3, <1>9
  <2> QED
    BY <1>2, <1>4, <1>5, <1>9, <2>1
<1>10. CASE q \in nodes /\ PathMatches(pat, q) /\ v \notin f
  <2>1. q \notin GetDataTargets(s, pat, f) /\ v = data[q] /\ v # None
    BY <1>4, <1>5, <1>10
  <2>2. MatchesNode(s, q, v)' <=> \E p \in subs[s] \ {pat} : PathMatches(p, q) /\ v \in filters[s][p]
    BY <1>1, <1>3, <1>10, <2>1
  <2>3. CASE pat \notin subs[s]
    <3>1. MatchesNode(s, q, v)' <=> MatchesNode(s, q, v)
      BY <1>3, <2>1, <2>2, <2>3
    <3> QED
      BY <1>2, <1>6, <2>1, <2>3, <3>1
  <2>4. CASE pat \in subs[s] /\ v \notin filters[s][pat]
    <3>1. MatchesNode(s, q, v)' <=> MatchesNode(s, q, v)
      BY <1>3, <2>1, <2>2, <2>4
    <3>2. Refiltered(q, x, filters[s][pat], f) = x
      BY <1>10, <2>1, <2>4 DEF Refiltered
    <3> QED
      BY <1>2, <2>1, <3>1, <3>2
  <2>5. CASE pat \in subs[s] /\ v \in filters[s][pat]
    <3>1. Filter # {NoFilter}
      BY <1>4, <1>10, FilterAssumption
    <3>2. ~MatchesNode(s, q, v)'
      BY <1>1, <1>10, <2>2, <3>1, MatchApart
    <3>3. Refiltered(q, x, filters[s][pat], f) = None
      BY <1>10, <2>1, <2>5 DEF Refiltered
    <3> QED
      BY <1>2, <1>6, <1>10, <2>1, <2>5, <3>2, <3>3
  <2> QED
    BY <2>3, <2>4, <2>5
<1> QED
  BY <1>7, <1>8, <1>9, <1>10

LEMMA SubscribeDelivery ==
  ASSUME DeliveryInv, FiltersApart, NEW s \in Session, NEW pat \in Pattern, NEW f \in Filter,
         DSubscribe(s, pat, f)
  PROVE  /\ InSync(client, Pending, {}, DB, IX)' /\ client' \in Clients /\ Idle'
         /\ IsFiniteSet(sessions')
<1>0. /\ TreeTypeOK /\ IndexInv /\ client \in Clients /\ Pending \in DType
      /\ IsFiniteSet(sessions) /\ InSync(client, Pending, {}, DB, IX)
  BY InvFacts
<1>1. PICK E : E = DoGetData(ChangeQueryFilter(Pending, s, pat, f), s, pat, f)
  OBVIOUS
<1>2. /\ Ready /\ ISubscribe(s, pat, f) /\ Subscribe(s, pat, f)
      /\ Becomes(Push(E)) /\ client' = client /\ setting' = setting
  BY <1>1 DEF DSubscribe, ISubscribe
<1>3. /\ s \in sessions /\ subs' = [subs EXCEPT ![s] = @ \cup {pat}]
      /\ filters' = [filters EXCEPT ![s][pat] = f] /\ UNCHANGED <<data, index, sessions>>
  BY <1>2 DEF Subscribe, ISubscribe, indexVars
<1>4. Gathered(Pending, s, f)
  <2>1. Pending.pend[s] = NoItems /\ Pending.ipend[s] = <<>>
    BY <1>2 DEF DeliveryInv, Idle, Ready, Pending
  <2> QED
    BY <2>1, NothingIsGathered
<1>5. PICK S, T : S = RefilteredNodes(s, pat) /\ T = GetDataTargets(s, pat, f)
  OBVIOUS
<1>6. PICK C, P, iv, ix : C = client /\ P = Pending /\ iv = DB /\ ix = IX
  OBVIOUS
<1>7. C \in Clients /\ P \in DType /\ Gathered(P, s, f) /\ InSync(C, P, {}, iv, ix)
  BY <1>0, <1>4, <1>6
<1>8. /\ E \in DType
      /\ \A u \in Session \ {s}, q \in Path : /\ XItem(C, E, u, q) = XItem(C, P, u, q)
                                              /\ XIndex(C, E, u, q) = XIndex(C, P, u, q)
      /\ \A q \in Path :
           /\ XItem(C, E, s, q) =
                IF q \in T THEN data[q]
                ELSE IF q \in S THEN Refiltered(q, XItem(C, P, s, q), filters[s][pat], f)
                ELSE XItem(C, P, s, q)
           /\ XIndex(C, E, s, q) =
                IF q \in T /\ index[q] # <<>> THEN index[q] ELSE XIndex(C, P, s, q)
  BY <1>0, <1>1, <1>5, <1>6, <1>7, SubscribeShows
<1>9. PICK D : D = Push(E)
  OBVIOUS
<1>10. D \in DType /\ Keeps(C, E, D) /\ Pending' = D /\ Idle'
  BY <1>2, <1>7, <1>8, <1>9, PushKeeps, BecomesIs, PushedIdle
<1>11. ASSUME NEW u \in Session, NEW q \in Path
       PROVE  /\ u \in sessions /\ Heard(u, q) => XItem(C, P, u, q) = Visible(u, q, iv[q])
              /\ u \notin sessions => XItem(C, P, u, q) = None
              /\ Filter = {NoFilter} =>
                   /\ u \in sessions /\ Heard(u, q) =>
                        XIndex(C, P, u, q) = IF Matched(u, q) THEN ix[q] ELSE <<>>
                   /\ u \notin sessions => XIndex(C, P, u, q) = <<>>
  BY <1>7 DEF InSync, ItemsSync, IndexSync
<1>12. ASSUME NEW q \in Path
       PROVE  NextItem(C, D, iv, s, q) /\ (Filter = {NoFilter} => NextIndex(C, D, ix, s, q))
  <2>1. XItem(C, D, s, q) = XItem(C, E, s, q) /\ XIndex(C, D, s, q) = XIndex(C, E, s, q)
    BY <1>10 DEF Keeps
  <2>2. ASSUME Heard(s, q) PROVE XItem(C, D, s, q) = Visible(s, q, iv[q])'
    <3>1. PICK v, x : v = iv[q] /\ x = XItem(C, P, s, q)
      OBVIOUS
    <3>2. v = DB[q] /\ x = Visible(s, q, v)
      BY <1>3, <1>6, <1>11, <2>2, <3>1
    <3>3. Visible(s, q, v)' = IF q \in T THEN data[q]
                              ELSE IF q \in S THEN Refiltered(q, x, filters[s][pat], f) ELSE x
      BY <1>0, <1>3, <1>5, <2>2, <3>2, SubscribeVisible
    <3> QED
      BY <1>8, <2>1, <3>1, <3>3
  <2>3. ASSUME Heard(s, q), Filter = {NoFilter}
        PROVE  XIndex(C, D, s, q) = IF Matched(s, q)' THEN ix[q] ELSE <<>>
    <3>1. subs'[s] = subs[s] \cup {pat}
      BY <1>0, <1>3 DEF TreeTypeOK
    <3>2. Matched(s, q)' <=> Matched(s, q) \/ PathMatches(pat, q)
      BY <3>1 DEF Matched, MatchingSubs
    <3>3. ix[q] = IF q \in nodes THEN index[q] ELSE <<>>
      BY <1>6 DEF IX, IndexOf
    <3>4. q \in T <=> q \in nodes /\ PathMatches(pat, q)
      BY <1>0, <1>5, <2>3, FilterAssumption
      DEF GetDataTargets, GetDataSkips, Heard, TreeTypeOK
    <3>5. XIndex(C, P, s, q) = IF Matched(s, q) THEN ix[q] ELSE <<>>
      BY <1>3, <1>11, <2>3
    <3> QED
      BY <1>8, <2>1, <3>2, <3>3, <3>4, <3>5
  <2> QED
    BY <1>3, <2>2, <2>3 DEF NextItem, NextIndex
<1>13. ASSUME NEW u \in Session, u # s, NEW q \in Path
       PROVE  NextItem(C, D, iv, u, q) /\ (Filter = {NoFilter} => NextIndex(C, D, ix, u, q))
  <2>1. XItem(C, D, u, q) = XItem(C, P, u, q) /\ XIndex(C, D, u, q) = XIndex(C, P, u, q)
    BY <1>8, <1>10, <1>13 DEF Keeps
  <2>2. subs'[u] = subs[u] /\ filters'[u] = filters[u]
    BY <1>0, <1>3, <1>13 DEF TreeTypeOK
  <2>3. Visible(u, q, iv[q])' = Visible(u, q, iv[q]) /\ Matched(u, q)' = Matched(u, q)
    BY <2>2 DEF Visible, MatchesNode, Matched
  <2> QED
    BY <1>3, <1>11, <2>1, <2>3 DEF NextItem, NextIndex
<1>14. client' = C /\ DB' = iv /\ IX' = ix
  BY <1>2, <1>3, <1>6 DEF DB, IX, IndexOf, nodes
<1>15. \A u \in Session, q \in Path :
         NextItem(C, D, iv, u, q) /\ (Filter = {NoFilter} => NextIndex(C, D, ix, u, q))
  BY <1>12, <1>13
<1>16. InSync(client, Pending, {}, DB, IX)'
  BY <1>10, <1>14, <1>15, SyncNext
<1> QED
  BY <1>0, <1>2, <1>3, <1>10, <1>16

-----------------------------------------------------------------------------
(***************************************************************************)
(* The theorems                                                            *)
(***************************************************************************)

LEMMA DeliveryInvInit == DeliveryInit => DeliveryInv
<1>1. SUFFICES ASSUME DeliveryInit PROVE DeliveryInv
  OBVIOUS
<1>2. /\ IndexInit /\ TreeInit /\ sessions = {} /\ Idle
      /\ out = [s \in Session |-> <<>>] /\ client = [s \in Session |-> NoClient]
      /\ pend = [s \in Session |-> NoItems] /\ ipend = [s \in Session |-> <<>>]
  BY <1>1 DEF DeliveryInit, IndexInit, TreeInit, Idle
<1>3. TreeFullInv /\ IndexInv /\ IsFiniteSet(sessions)
  BY <1>2, TreeFullInit, IndexInvInit, FS_EmptySet
<1>4. client \in Clients
  BY <1>2, EmptyClient DEF Clients
<1>5. Pending \in DType
  <2>1. out \in [Session -> Seq(MsgType)]
    BY <1>2
  <2>2. pend \in [Session -> PendType] /\ ipend \in [Session -> OpsType]
    BY <1>2, EmptyItems
  <2> QED
    BY <2>1, <2>2 DEF Pending, DType
<1>6. PICK C, D : C = client /\ D = Pending
  OBVIOUS
<1>7. ASSUME NEW u \in Session, NEW q
      PROVE  XItem(C, D, u, q) = None /\ XIndex(C, D, u, q) = <<>>
  <2>1. D.pend[u] = NoItems /\ D.ipend[u] = <<>> /\ D.out[u] = <<>> /\ C[u] = NoClient
    BY <1>2, <1>6 DEF Pending
  <2>2. Arrived(C, D, u) = NoClient
    BY <2>1, EmptyClient, ReadNothing DEF Arrived
  <2>3. ItemAt(NoClient, q) = None /\ ClientIndex(NoClient, q) = <<>>
    <3>1. DOMAIN <<>> = {}
      OBVIOUS
    <3> QED
      BY <3>1 DEF ItemAt, ClientIndex, NoClient
  <2> QED
    BY <1>4, <1>5, <1>6, <2>1, <2>2, <2>3, NothingGathered
<1>8. InSync(C, D, {}, DB, IX)
  BY <1>2, <1>5, <1>6, <1>7 DEF InSync, ItemsSync, IndexSync
<1> QED
  BY <1>2, <1>3, <1>4, <1>6, <1>8 DEF DeliveryInv

(* Every step of the delivery is one of the indexed database, or leaves it *)
(* alone: a client reads.                                                  *)
LEMMA DeliveryStepIsIndexStep ==
  ASSUME [DeliveryNext]_<<dataVars, deliveryVars>>
  PROVE  [IndexNext]_<<treeVars, indexVars>>
<1>0. Writers \subseteq Session /\ Readers \subseteq Session /\ NoFilter \in Filter
  BY DeliveryAssumption, FilterAssumption
<1>1. ASSUME NEW s \in Session, DAttachedToServer(s) PROVE IndexNext
  BY <1>1 DEF DAttachedToServer, IndexNext
<1>2. ASSUME NEW s \in Session, DAboutToDetachFromServer(s) PROVE IndexNext
  BY <1>2 DEF DAboutToDetachFromServer, IndexNext
<1>3. ASSUME NEW s \in Session, ClientReads(s) PROVE UNCHANGED <<treeVars, indexVars>>
  BY <1>3 DEF ClientReads, dataVars
<1>4. ASSUME NEW s \in Writers, NEW rel \in RelPath, NEW v \in Value, NEW flags \in SetFlags,
             NEW before \in SetBefore, NEW more \in BOOLEAN,
             DSetDataNode(s, rel, v, flags, before, more)
      PROVE  IndexNext
  <2>1. s \in Session /\ ISetDataNode(s, rel, v, flags, before)
    BY <1>0, <1>4 DEF DSetDataNode
  <2> QED
    BY <2>1 DEF IndexNext
<1>5. ASSUME NEW s \in Writers, NEW parent \in nodes, NEW nm \in Name, NEW v \in Value,
             NEW before \in InsertBefore, DInsertOrderedData(s, parent, nm, v, before)
      PROVE  IndexNext
  BY <1>0, <1>5 DEF DInsertOrderedData, IndexNext
<1>6. ASSUME NEW s \in Writers, NEW child \in nodes, NEW before \in ReorderBefore,
             DReorderData(s, child, before)
      PROVE  IndexNext
  BY <1>0, <1>6 DEF DReorderData, IndexNext
<1>7. ASSUME NEW s \in Writers, NEW pat \in RelPattern, DDoRemoveData(s, pat, NoFilter)
      PROVE  IndexNext
  BY <1>0, <1>7 DEF DDoRemoveData, IndexNext
<1>8. ASSUME NEW s \in Readers, NEW pat \in Pattern, NEW f \in Filter, DSubscribe(s, pat, f)
      PROVE  IndexNext
  BY <1>0, <1>8 DEF DSubscribe, IndexNext
<1>9. ASSUME NEW s \in Readers, NEW pat \in Pattern, DUnsubscribe(s, pat)
      PROVE  IndexNext
  BY <1>0, <1>9 DEF DUnsubscribe, IndexNext
<1>10. CASE UNCHANGED <<dataVars, deliveryVars>>
  BY <1>10 DEF dataVars
<1> QED
  BY <1>1, <1>2, <1>3, <1>4, <1>5, <1>6, <1>7, <1>8, <1>9, <1>10 DEF DeliveryNext

(* Every handler, and every client that reads, leaves the clients in step. *)
LEMMA DeliveryStep ==
  ASSUME Unquiet, FiltersApart, DeliveryInv, [DeliveryNext]_<<dataVars, deliveryVars>>
  PROVE  DeliveryInv'
<1> DEFINE Goal == /\ InSync(client, Pending, {}, DB, IX)' /\ client' \in Clients /\ Idle'
                   /\ IsFiniteSet(sessions')
<1>0. Writers \subseteq Session /\ Readers \subseteq Session
  BY DeliveryAssumption
<1>1. TreeFullInv' /\ IndexInv'
  <2>1. [IndexNext]_<<treeVars, indexVars>>
    BY DeliveryStepIsIndexStep
  <2>2. [TreeNext]_treeVars
    BY <2>1, IndexStepIsTreeStep
  <2>3. TreeFullInv /\ TreeTypeOK /\ TreeShape /\ IndexInv
    BY InvFacts DEF DeliveryInv
  <2> QED
    BY <2>1, <2>2, <2>3, TreeFullStep, IndexInvStep
<1>2. ASSUME NEW s \in Session, DAttachedToServer(s) PROVE Goal
  BY <1>2, AttachDelivery
<1>3. ASSUME NEW s \in Session, DAboutToDetachFromServer(s) PROVE Goal
  BY <1>3, DetachDelivery
<1>4. ASSUME NEW s \in Session, ClientReads(s) PROVE Goal
  BY <1>4, ReadsDelivery
<1>5. ASSUME NEW s \in Writers, NEW rel \in RelPath, NEW v \in Value, NEW flags \in SetFlags,
             NEW before \in SetBefore, NEW more \in BOOLEAN,
             DSetDataNode(s, rel, v, flags, before, more)
      PROVE  Goal
  BY <1>0, <1>5, SetDataDelivery
<1>6. ASSUME NEW s \in Writers, NEW parent \in nodes, NEW nm \in Name, NEW v \in Value,
             NEW before \in InsertBefore, DInsertOrderedData(s, parent, nm, v, before)
      PROVE  Goal
  BY <1>0, <1>6, InsertDelivery
<1>7. ASSUME NEW s \in Writers, NEW child \in nodes, NEW before \in ReorderBefore,
             DReorderData(s, child, before)
      PROVE  Goal
  BY <1>0, <1>7, ReorderDelivery
<1>8. ASSUME NEW s \in Writers, NEW pat \in RelPattern, DDoRemoveData(s, pat, NoFilter)
      PROVE  Goal
  BY <1>0, <1>8, RemoveDelivery
<1>9. ASSUME NEW s \in Readers, NEW pat \in Pattern, NEW f \in Filter, DSubscribe(s, pat, f)
      PROVE  Goal
  BY <1>0, <1>9, SubscribeDelivery
<1>10. ASSUME NEW s \in Readers, NEW pat \in Pattern, DUnsubscribe(s, pat) PROVE Goal
  BY <1>0, <1>10, UnsubscribeDelivery
<1>11. ASSUME UNCHANGED <<dataVars, deliveryVars>> PROVE Goal
  <2>1. UNCHANGED <<data, index, sessions, subs, filters, out, pend, ipend, client, setting>>
    BY <1>11 DEF dataVars, deliveryVars, treeVars, indexVars
  <2>2. PICK C, D, iv, ix : C = client /\ D = Pending /\ iv = DB /\ ix = IX
    OBVIOUS
  <2>3. /\ client' = C /\ Pending' = D /\ DB' = iv /\ IX' = ix
    BY <2>1, <2>2 DEF Pending, DB, IX, IndexOf, nodes
  <2>4. InSync(C, D, {}, iv, ix) /\ client \in Clients /\ IsFiniteSet(sessions)
    BY <2>2, InvFacts
  <2>5. InSync(client, Pending, {}, DB, IX)'
    BY <2>1, <2>3, <2>4, SyncSame
  <2>6. Idle'
    BY <2>1 DEF DeliveryInv, Idle
  <2> QED
    BY <2>1, <2>4, <2>5, <2>6
<1>12. Goal
  <2> HIDE DEF Goal
  <2> QED
    BY <1>2, <1>3, <1>4, <1>5, <1>6, <1>7, <1>8, <1>9, <1>10, <1>11 DEF DeliveryNext
<1> QED
  BY <1>1, <1>12 DEF DeliveryInv

LEMMA DeliveryInvariant ==
  ASSUME Unquiet, FiltersApart
  PROVE  DeliverySpec => []DeliveryInv
<1>1. DeliveryInv /\ [DeliveryNext]_<<dataVars, deliveryVars>> => DeliveryInv'
  BY DeliveryStep
<1> QED
  BY <1>1, DeliveryInvInit, PTL DEF DeliverySpec

(* What the client of session s will hold, in the terms of the invariant   *)
LEMMA ViewIs ==
  ASSUME DeliveryInv, NEW s \in sessions, NEW q, Heard(s, q)
  PROVE  /\ View(s) = Seen(client, Pending, s) /\ View(s) \in ClientType
         /\ q \in Path => ItemAt(View(s), q) = Visible(s, q, DB[q])
         /\ q \in Path /\ Filter = {NoFilter} =>
              ClientIndex(View(s), q) = IF Matched(s, q) THEN IX[q] ELSE <<>>
<1>1. /\ s \in Session /\ client \in Clients /\ Pending \in DType
      /\ InSync(client, Pending, {}, DB, IX)
  BY InvFacts DEF TreeTypeOK
<1>2. View(s) = Seen(client, Pending, s) /\ View(s) \in ClientType
  BY <1>1, SeenIs DEF View, Seen
<1>3. /\ q \in Path => XItem(client, Pending, s, q) = Visible(s, q, DB[q])
      /\ q \in Path /\ Filter = {NoFilter} =>
           XIndex(client, Pending, s, q) = IF Matched(s, q) THEN IX[q] ELSE <<>>
  BY <1>1 DEF InSync, ItemsSync, IndexSync
<1> QED
  BY <1>2, <1>3 DEF XItem, XIndex

(* What is proved of the database and its indices holds while updates are  *)
(* gathered, pushed and read: no handler lets the delivery decide what     *)
(* becomes of a node or of an index.                                       *)
THEOREM DeliveryKeepsIndices == DeliverySpec => IndexSpec
<1>1. DeliveryInit => IndexInit
  BY DEF DeliveryInit
<1> QED
  BY <1>1, DeliveryStepIsIndexStep, PTL DEF DeliverySpec, IndexSpec

(* If no SETDATA is QUIET and filters do not overlap: once a subscriber    *)
(* has read all that NodeChanged(), NodeChangedAux(), DoGetData() and      *)
(* PushSubscriptionMessages() have for it, it holds every node that its    *)
(* subscriptions match, with the current payload.                          *)
THEOREM CopiesComplete ==
  ASSUME Unquiet, FiltersApart
  PROVE  DeliverySpec => []ViewComplete
<1>1. DeliveryInv => ViewComplete
  <2>1. SUFFICES ASSUME DeliveryInv, NEW s \in Readers \cap sessions, NEW q \in nodes,
                        Heard(s, q), MatchesNode(s, q, data[q])
                 PROVE  q \in DOMAIN View(s).items /\ View(s).items[q] = data[q]
    BY DEF ViewComplete
  <2>2. q \in Path /\ data[q] \in Value /\ data[q] # None
    BY <2>1, InvFacts, DeliveryAssumption DEF TreeTypeOK, nodes
  <2>3. Visible(s, q, DB[q]) = data[q]
    BY <2>1, <2>2 DEF Visible, DB
  <2>4. ItemAt(View(s), q) = data[q]
    BY <2>1, <2>2, <2>3, ViewIs
  <2> QED
    BY <2>2, <2>4 DEF ItemAt
<1> QED
  BY <1>1, DeliveryInvariant, PTL

(* ... and nothing else: a node that RemoveChild() took away, or whose     *)
(* payload no filter accepts any more, is taken away from the subscriber.  *)
THEOREM CopiesHaveNoGhosts ==
  ASSUME Unquiet, FiltersApart
  PROVE  DeliverySpec => []NoGhostNodes
<1>1. DeliveryInv => NoGhostNodes
  <2>1. SUFFICES ASSUME DeliveryInv, NEW s \in Readers \cap sessions,
                        NEW q \in DOMAIN View(s).items, Heard(s, q)
                 PROVE  q \in nodes /\ MatchesNode(s, q, data[q])
    BY DEF NoGhostNodes
  <2>2. View(s) \in ClientType
    BY <2>1, ViewIs
  <2>3. q \in Path /\ View(s).items[q] \in Value
    BY <2>1, <2>2 DEF ClientType, Partial
  <2>4. ItemAt(View(s), q) # None
    BY <2>1, <2>3, DeliveryAssumption DEF ItemAt
  <2>5. Visible(s, q, DB[q]) # None
    BY <2>1, <2>3, <2>4, ViewIs
  <2> QED
    BY <2>3, <2>5 DEF Visible, DB
<1> QED
  BY <1>1, DeliveryInvariant, PTL

(* Without filters: the index that a subscriber rebuilds from the op codes *)
(* of NodeIndexChanged() and from the snapshots of DoGetData() is the      *)
(* node's index, whatever mixture of insertions, moves, removals and       *)
(* subscriptions came before.                                              *)
THEOREM IndicesInSync ==
  ASSUME Unquiet, Filter = {NoFilter}
  PROVE  DeliverySpec => []IndexInSync
<1>1. FiltersApart
  BY DEF FiltersApart
<1>2. DeliveryInv => IndexInSync
  <2>1. SUFFICES ASSUME DeliveryInv, NEW s \in Readers \cap sessions, NEW q \in nodes,
                        Heard(s, q), MatchesNode(s, q, data[q])
                 PROVE  ClientIndex(View(s), q) = index[q]
    BY DEF IndexInSync
  <2>2. q \in Path /\ Matched(s, q)
    BY <2>1, InvFacts DEF TreeTypeOK, Matched, MatchesNode
  <2>3. ClientIndex(View(s), q) = IX[q]
    BY <2>1, <2>2, ViewIs
  <2>4. IX[q] = index[q]
    BY <2>1, <2>2 DEF IX, IndexOf
  <2> QED
    BY <2>3, <2>4
<1> QED
  BY <1>1, <1>2, DeliveryInvariant, PTL
=============================================================================
