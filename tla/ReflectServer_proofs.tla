------------------------ MODULE ReflectServer_proofs ------------------------
(***************************************************************************)
(* Sessions are detached exactly once, their flags agree with their        *)
(* sockets and none that reconnects by itself is forgotten, for any number *)
(* of sessions and of calls of user code.                                  *)
(***************************************************************************)
EXTENDS ReflectServer, SequenceTheorems, TLAPS

-----------------------------------------------------------------------------
(* The inductive invariant *)

SessionRecord ==
  [place : {"new", "here", "gone"}, full : BOOLEAN, detaches : Nat,
   dest : BOOLEAN, auto : BOOLEAN, limited : BOOLEAN, sock : Socket,
   connecting : BOOLEAN, connected : BOOLEAN, reconnect : Timer, timeout : Timer,
   pulse : SUBSET {"reconnect", "timeout", "invalid"}, started : BOOLEAN, failed : BOOLEAN,
   wake : {"no", "timer", "reconnect"}]

(* One session: FlagsMatchSocket, NeverForgotten and PlannedOnlyWhenDown.  *)
(* The last is kept by the way a session waits for the computer to wake    *)
(* up: it has never had a socket.                                          *)
FlagsOK(r) ==
  /\ r.connecting => r.sock # "none" /\ ~ r.connected
  /\ r.connected => r.sock \in {"open", "broken"}
  /\ r.timeout # "never" => r.connecting

Remembered(r) ==
  r.auto /\ r.sock = "none" /\ r.reconnect = "never" =>
    r.wake = "reconnect" \/ ~ r.started \/ r.failed

Planned(r) ==
  /\ r.reconnect # "never" => r.sock = "none"
  /\ r.wake = "reconnect" =>
       r.sock = "none" /\ r.reconnect = "never" /\ ~ r.connecting

(* What makes a session NeverForgotten when its reconnect delay is set     *)
Tried(r) == r.sock = "none" => ~ r.started \/ r.failed

Placed == {"pulse", "session", "detach", "cleaning"}

(* The table of sessions, and the session that the loop is at              *)
TablesOK ==
  /\ ses \in [Session -> SessionRecord]
  /\ sessions \in Seq(Session)
  /\ \A i, j \in DOMAIN sessions : sessions[i] = sessions[j] => i = j
  /\ \A s \in Session : s \in Here <=> ses[s].place = "here"
  /\ lame \subseteq Session /\ ready \subseteq Session
  /\ \A s \in ready : ses[s].place # "new"
  /\ phase \in Placed => at \in DOMAIN sessions
  /\ phase = "cleaning" => at = 1

(* The session that is being attached is the last one, behind the one that *)
(* the loop is at, and has the socket it was given, or got by connecting   *)
(* again.                                                                  *)
AddingOK ==
  adding # Idle =>
    /\ adding \in [new : Session, how : {"connect", "dormant", "replace", "accept"},
                   old : Session \cup {NoSession}]
    /\ sessions # <<>> /\ sessions[Len(sessions)] = adding.new
    /\ phase \in Placed => at # Len(sessions)
    /\ adding.how \in {"connect", "dormant"} => Tried(ses[adding.new])
    /\ adding.how = "replace" =>
         /\ adding.old \in Session /\ adding.old # adding.new
         /\ ses[adding.old].place = "here"
         /\ ses[adding.new].sock = ses[adding.old].sock

Structure == TablesOK /\ AddingOK /\ DetachedExactlyOnce

MembersOK ==
  \A s \in Session : ses[s].place = "here" =>
    /\ s \notin lame => FlagsOK(ses[s]) /\ Remembered(ses[s])
    /\ s \in ready => ses[s].sock # "none"

PlansOK == \A s \in Session : ses[s].place = "here" => Planned(ses[s])

-----------------------------------------------------------------------------
(* What the operators do to the members of a session *)

LEMMA SetConnectingFacts ==
  ASSUME NEW r \in SessionRecord, NEW flag \in BOOLEAN
  PROVE  LET c == SetConnectingAsync(r, flag) IN
         /\ c \in SessionRecord
         /\ c.connecting = flag /\ (c.timeout # "never" => flag)
         /\ c.place = r.place /\ c.detaches = r.detaches /\ c.full = r.full
         /\ c.auto = r.auto /\ c.sock = r.sock /\ c.reconnect = r.reconnect
         /\ c.wake = r.wake /\ c.connected = r.connected
         /\ c.started = r.started /\ c.failed = r.failed
  BY DEF SessionRecord, SetConnectingAsync, Invalid, Timer

LEMMA DisconnectedFacts ==
  ASSUME NEW r \in SessionRecord
  PROVE  LET c == Disconnected(r) IN
         /\ c \in SessionRecord
         /\ ~ c.connecting /\ ~ c.connected /\ c.timeout = "never" /\ c.sock = "none"
         /\ c.place = r.place /\ c.detaches = r.detaches
         /\ c.auto = r.auto /\ c.wake = r.wake
         /\ c.started = r.started /\ c.failed = r.failed
         /\ c.auto => c.reconnect = "running"
         /\ ~ c.auto => c.reconnect = r.reconnect
  BY DEF SessionRecord, SetConnectingAsync, Invalid, Timer, Disconnected, PlanForReconnect, Socket

LEMMA ConnectFacts ==
  ASSUME NEW r \in SessionRecord, NEW o \in Attempt
  PROVE  LET c == Connect(r, o) IN
         /\ c \in SessionRecord /\ FlagsOK(c)
         /\ (c.sock = "none" <=> o = "error")
         /\ c.place = r.place /\ c.detaches = r.detaches
         /\ c.auto = r.auto /\ c.wake = r.wake /\ c.reconnect = r.reconnect
         /\ o = "error" => ~ c.connecting
<1> DEFINE d == SetConnectingAsync(r, o = "pending")
           c == Connect(r, o)
           sk == CASE o = "ready"   -> "open"
                   [] o = "pending" -> "connecting"
                   [] o = "refused" -> "broken"
                   [] OTHER         -> "none"
<1>1. /\ d \in SessionRecord /\ d.connecting = (o = "pending")
      /\ d.timeout # "never" => o = "pending"
      /\ d.place = r.place /\ d.detaches = r.detaches
      /\ d.auto = r.auto /\ d.wake = r.wake /\ d.reconnect = r.reconnect
  BY SetConnectingFacts
<1>2. /\ sk \in Socket /\ (sk = "none" <=> o = "error")
      /\ o = "ready" => sk = "open"
  BY DEF Socket, Outcome, Attempt
<1>3. c = [d EXCEPT !.connected = (o = "ready"), !.started = TRUE, !.failed = FALSE,
                    !.sock = sk]
  BY DEF Connect
<1> HIDE DEF d, c, sk
<1>4. /\ c \in SessionRecord /\ c.connecting = d.connecting /\ c.timeout = d.timeout
      /\ c.connected = (o = "ready") /\ c.sock = sk
      /\ c.place = d.place /\ c.detaches = d.detaches
      /\ c.auto = d.auto /\ c.wake = d.wake /\ c.reconnect = d.reconnect
  BY <1>1, <1>2, <1>3 DEF SessionRecord
<1>5. FlagsOK(c)
  BY <1>1, <1>2, <1>4 DEF FlagsOK
<1> QED
  BY <1>1, <1>2, <1>4, <1>5 DEF c

LEMMA ReconnectedFacts ==
  ASSUME NEW r \in SessionRecord, NEW o \in Attempt
  PROVE  LET c == Reconnected(r, o) IN
         /\ c \in SessionRecord /\ FlagsOK(c) /\ Tried(c)
         /\ c.place = r.place /\ c.detaches = r.detaches
         /\ c.auto = r.auto /\ c.wake = r.wake /\ c.reconnect = r.reconnect
         /\ c.sock = "none" => c.failed /\ ~ c.connecting
<1> DEFINE d == Connect(r, o)
<1>1. /\ d \in SessionRecord /\ FlagsOK(d)
      /\ (d.sock = "none" <=> o = "error")
      /\ d.place = r.place /\ d.detaches = r.detaches
      /\ d.auto = r.auto /\ d.wake = r.wake /\ d.reconnect = r.reconnect
      /\ o = "error" => ~ d.connecting
  BY ConnectFacts
<1>2. Reconnected(r, o) = [d EXCEPT !.failed = (o = "error")]
  BY DEF Reconnected
<1> HIDE DEF d
<1> QED
  BY <1>1, <1>2 DEF SessionRecord, FlagsOK, Tried

LEMMA PlanFacts ==
  ASSUME NEW r \in SessionRecord
  PROVE  LET c == PlanForReconnect(r) IN
         /\ c \in SessionRecord /\ c.sock = r.sock /\ c.auto = r.auto
         /\ c.reconnect = IF c.auto THEN "running" ELSE "never"
         /\ c.place = r.place /\ c.detaches = r.detaches /\ c.wake = r.wake
         /\ c.connecting = r.connecting /\ c.connected = r.connected
         /\ c.timeout = r.timeout
  BY DEF SessionRecord, PlanForReconnect, Timer, Invalid

LEMMA AutoReconnectFacts ==
  ASSUME NEW r \in SessionRecord, NEW o \in Attempt
  PROVE  LET c == [AutoReconnect(r, o) EXCEPT !.pulse = Invalid] IN
         /\ c \in SessionRecord /\ FlagsOK(c)
         /\ c.place = r.place /\ c.detaches = r.detaches /\ c.wake = r.wake
         /\ (c.sock = "none" <=> o = "error")
         /\ o # "error" => c.reconnect = "never"
         /\ o = "error" => c.reconnect = IF c.auto THEN "running" ELSE "never"
<1> DEFINE d == Connect(r, o)
           e == [d EXCEPT !.reconnect = "never"]
           f == IF o = "error" THEN PlanForReconnect(e) ELSE e
           c == [f EXCEPT !.pulse = Invalid]
<1>1. /\ d \in SessionRecord /\ FlagsOK(d)
      /\ (d.sock = "none" <=> o = "error")
      /\ d.place = r.place /\ d.detaches = r.detaches /\ d.wake = r.wake
  BY ConnectFacts
<1> HIDE DEF d
<1>2. /\ e \in SessionRecord /\ FlagsOK(e) /\ e.sock = d.sock /\ e.reconnect = "never"
      /\ e.place = d.place /\ e.detaches = d.detaches /\ e.wake = d.wake
  BY <1>1 DEF SessionRecord, FlagsOK, Timer
<1> HIDE DEF e
<1>3. /\ f \in SessionRecord /\ FlagsOK(f) /\ f.sock = e.sock
      /\ f.reconnect = IF o = "error" /\ f.auto THEN "running" ELSE "never"
      /\ f.place = e.place /\ f.detaches = e.detaches /\ f.wake = e.wake
  <2>1. CASE o = "error"
    <3>1. f = PlanForReconnect(e)
      BY <2>1
    <3> QED
      BY <1>2, <2>1, <3>1, PlanFacts DEF FlagsOK
  <2>2. CASE o # "error"
    BY <1>2, <2>2
  <2> QED
    BY <2>1, <2>2
<1> HIDE DEF f
<1>4. /\ c \in SessionRecord /\ FlagsOK(c) /\ c.sock = f.sock
      /\ c.reconnect = f.reconnect /\ c.auto = f.auto
      /\ c.place = f.place /\ c.detaches = f.detaches /\ c.wake = f.wake
  BY <1>3 DEF SessionRecord, FlagsOK, Invalid
<1>5. c = [AutoReconnect(r, o) EXCEPT !.pulse = Invalid]
  BY DEF c, f, e, d, AutoReconnect
<1> HIDE DEF c
<1>6. /\ c \in SessionRecord /\ FlagsOK(c)
      /\ c.place = r.place /\ c.detaches = r.detaches /\ c.wake = r.wake
      /\ (c.sock = "none" <=> o = "error")
      /\ o # "error" => c.reconnect = "never"
      /\ o = "error" => c.reconnect = IF c.auto THEN "running" ELSE "never"
  BY <1>1, <1>2, <1>3, <1>4
<1> QED
  BY <1>5, <1>6

LEMMA GivenUpFacts ==
  ASSUME NEW r \in SessionRecord
  PROVE  LET c == GivenUp(r) IN
         /\ c \in SessionRecord
         /\ ~ c.connecting /\ ~ c.connected /\ c.timeout = "never" /\ c.sock = "none"
         /\ c.place = r.place /\ c.detaches = r.detaches
         /\ c.auto = r.auto /\ c.wake = r.wake
         /\ c.started = r.started /\ c.failed = r.failed
         /\ c.auto => c.reconnect = "running"
         /\ ~ c.auto => c.reconnect = r.reconnect
<1> DEFINE d == Disconnected(r)
<1>1. /\ d \in SessionRecord
      /\ ~ d.connecting /\ ~ d.connected /\ d.timeout = "never" /\ d.sock = "none"
      /\ d.place = r.place /\ d.detaches = r.detaches
      /\ d.auto = r.auto /\ d.wake = r.wake
      /\ d.started = r.started /\ d.failed = r.failed
      /\ d.auto => d.reconnect = "running"
      /\ ~ d.auto => d.reconnect = r.reconnect
  BY DisconnectedFacts
<1>2. GivenUp(r) = [d EXCEPT !.pulse = Invalid]
  BY DEF GivenUp
<1> HIDE DEF d
<1> QED
  BY <1>1, <1>2 DEF SessionRecord, Invalid

LEMMA WokenFacts ==
  ASSUME NEW r \in SessionRecord, NEW o \in Attempt
  PROVE  LET c == Woken(r, o) IN
         /\ c \in SessionRecord
         /\ c.place = r.place /\ c.detaches = r.detaches /\ c.wake = "no"
         /\ c.reconnect = r.reconnect
         /\ r.wake = "reconnect" => (c.sock = "none" => c.failed) /\ FlagsOK(c)
         /\ r.wake # "reconnect" =>
              /\ c.sock = r.sock /\ c.connecting = r.connecting
              /\ c.connected = r.connected /\ c.timeout = r.timeout
              /\ c.auto = r.auto /\ c.started = r.started /\ c.failed = r.failed
<1> DEFINE d == [r EXCEPT !.wake = "no"]
<1>1. /\ d \in SessionRecord /\ d.place = r.place /\ d.detaches = r.detaches
      /\ d.wake = "no" /\ d.reconnect = r.reconnect
  BY DEF SessionRecord
<1>2. CASE r.wake = "reconnect"
  <2>1. Woken(r, o) = Reconnected(d, o)
    BY <1>2 DEF Woken
  <2> HIDE DEF d
  <2> QED
    BY <1>1, <1>2, <2>1, ReconnectedFacts
<1>3. CASE r.wake = "timer"
  <2>1. Woken(r, o) = [d EXCEPT !.pulse = Invalid]
    BY <1>3 DEF Woken
  <2>2. /\ d.sock = r.sock /\ d.connecting = r.connecting
        /\ d.connected = r.connected /\ d.timeout = r.timeout
        /\ d.auto = r.auto /\ d.started = r.started /\ d.failed = r.failed
    BY DEF SessionRecord
  <2> HIDE DEF d
  <2>3. [d EXCEPT !.pulse = Invalid] \in SessionRecord
    BY <1>1 DEF SessionRecord, Invalid
  <2> QED
    BY <1>1, <1>3, <2>1, <2>2, <2>3 DEF SessionRecord
<1>4. CASE r.wake = "no"
  BY <1>4 DEF Woken
<1> QED
  BY <1>2, <1>3, <1>4 DEF SessionRecord

LEMMA FinalizedFacts ==
  ASSUME NEW r \in SessionRecord
  PROVE  LET c == Finalized(r) IN
         /\ c \in SessionRecord
         /\ ~ c.connecting /\ c.connected /\ c.timeout = "never"
         /\ c.place = r.place /\ c.detaches = r.detaches /\ c.sock = r.sock
         /\ c.auto = r.auto /\ c.wake = r.wake
         /\ c.started = r.started /\ c.failed = r.failed
         /\ c.reconnect = r.reconnect
  BY DEF SessionRecord, Finalized, SetConnectingAsync, Invalid, Timer

-----------------------------------------------------------------------------
(* The loop goes on to another phase, or to another session.               *)
PhaseStep ==
  \/ phase' = phase /\ at' = at
  \/ /\ adding = Idle
     /\ phase \notin {"detach", "cleaning"} /\ phase' \notin {"detach", "cleaning"}
     /\ phase' \in {"pulse", "session"} => at' \in DOMAIN sessions

(* While a session is being attached, the members of session s become      *)
(* those of r.                                                             *)
AddingStep(s, r) ==
  adding # Idle =>
    /\ Tried(ses[s]) => Tried(r)
    /\ r.sock = ses[s].sock \/ adding.how # "replace" \/ s \notin {adding.old, adding.new}

(* Steps that leave the table of sessions alone, and every session where   *)
(* it is                                                                   *)
MemberStep ==
  /\ UNCHANGED <<sessions, adding>>
  /\ ses' \in [Session -> SessionRecord]
  /\ \A s \in Session :
       /\ ses'[s].place = ses[s].place /\ ses'[s].detaches = ses[s].detaches
       /\ AddingStep(s, ses'[s])
  /\ lame' \subseteq Session /\ ready' \subseteq ready \cup Here
  /\ PhaseStep

LEMMA HereFacts ==
  ASSUME TablesOK
  PROVE  /\ Here \subseteq Session /\ DOMAIN sessions = 1 .. Len(sessions)
         /\ \A i \in DOMAIN sessions : sessions[i] \in Here
         /\ \A s \in Here : ses[s].place = "here"
         /\ phase \in Placed => Current \in Session /\ Current \in Here
                                /\ ses[Current].place = "here"
  BY DEF TablesOK, Here, Current

LEMMA MemberStepKeeps ==
  ASSUME Structure, MemberStep
  PROVE  Structure'
<1> USE DEF Structure
<1>1. Here' = Here /\ Here \subseteq Session
  BY HereFacts DEF MemberStep, PhaseStep, Here
<1>2. TablesOK'
  BY <1>1 DEF MemberStep, PhaseStep, TablesOK, Placed
<1>3. AddingOK'
  <2>1. SUFFICES ASSUME adding' # Idle PROVE AddingOK'
    BY DEF AddingOK
  <2>2. adding # Idle /\ adding' = adding /\ phase' = phase /\ at' = at /\ sessions' = sessions
    BY <2>1 DEF MemberStep, PhaseStep
  <2> QED
    BY <2>2 DEF AddingOK, MemberStep, PhaseStep, AddingStep, Tried
<1>4. DetachedExactlyOnce'
  <2>1. CASE phase' = phase /\ at' = at
    BY <2>1 DEF MemberStep, PhaseStep, DetachedExactlyOnce, Current
  <2>2. CASE phase \notin {"detach", "cleaning"} /\ phase' \notin {"detach", "cleaning"}
    BY <2>2 DEF MemberStep, PhaseStep, DetachedExactlyOnce
  <2> QED
    BY <2>1, <2>2 DEF MemberStep, PhaseStep
<1> QED
  BY <1>2, <1>3, <1>4

(* What a step has to do about the members of the sessions                 *)
MembersKept == MembersOK' /\ (~ ManualReconnect /\ PlansOK => PlansOK')

(* A step that changes the members of session s to r                       *)
LEMMA OneSession ==
  ASSUME Structure, MembersOK, NEW s \in Session, NEW r \in SessionRecord,
         ses' = [ses EXCEPT ![s] = r], UNCHANGED <<sessions, adding>>, PhaseStep,
         r.place = ses[s].place, r.detaches = ses[s].detaches,
         AddingStep(s, r),
         lame \subseteq lame', lame' \subseteq Session, ready' \subseteq ready,
         r.place = "here" /\ s \notin lame' => FlagsOK(r) /\ Remembered(r),
         r.place = "here" /\ s \in ready' => r.sock # "none",
         r.place = "here" /\ ~ ManualReconnect /\ Planned(ses[s]) => Planned(r)
  PROVE  MemberStep /\ MembersKept
<1>1. /\ ses' \in [Session -> SessionRecord] /\ ses'[s] = r
      /\ \A t \in Session \ {s} : ses'[t] = ses[t]
  BY DEF Structure, TablesOK
<1>2. MemberStep
  BY <1>1 DEF MemberStep, PhaseStep, AddingStep
<1>3. MembersOK'
  BY <1>1 DEF MembersOK
<1>4. ~ ManualReconnect /\ PlansOK => PlansOK'
  BY <1>1 DEF PlansOK
<1> QED
  BY <1>2, <1>3, <1>4 DEF MembersKept

(* A step that does not change the members of any session                  *)
LEMMA NoSessionChanged ==
  ASSUME Structure, MembersOK, UNCHANGED <<ses, sessions, adding>>, PhaseStep,
         lame' \subseteq Session, ready' \subseteq ready \cup ReadyNow,
         \A s \in Here : s \in lame => s \in lame'
  PROVE  MemberStep /\ MembersKept
<1>1. MemberStep
  BY DEF MemberStep, PhaseStep, AddingStep, Structure, TablesOK, ReadyNow
<1>2. MembersOK'
  BY DEF MembersOK, ReadyNow, Structure, TablesOK
<1>3. PlansOK => PlansOK'
  BY DEF PlansOK
<1> QED
  BY <1>1, <1>2, <1>3 DEF MembersKept

-----------------------------------------------------------------------------
(* The actions that do not change the table of sessions *)

LEMMA QuietSteps ==
  ASSUME Structure, MembersOK,
         \/ \E s \in Session : EndSession(s) \/ DropDuck(s)
         \/ EndServer \/ ServerProcessLoop \/ EventLoopCycleBegins
         \/ WaitForEvents \/ WaitForTraffic \/ Transfer
         \/ EventLoopCycleEnds \/ CleanupEnds
  PROVE  MemberStep /\ MembersKept
<1> USE DEF PhaseStep, Loop
<1>0. lame \subseteq Session /\ Here \subseteq Session
  BY HereFacts DEF Structure, TablesOK
<1>1. ASSUME NEW s \in Session, EndSession(s)
      PROVE  MemberStep /\ MembersKept
  BY <1>0, <1>1, NoSessionChanged DEF EndSession
<1>2. ASSUME NEW s \in Session, DropDuck(s)
      PROVE  MemberStep /\ MembersKept
  BY <1>0, <1>2, NoSessionChanged DEF DropDuck
<1>3. CASE EndServer
  BY <1>0, <1>3, NoSessionChanged DEF EndServer
<1>4. CASE ServerProcessLoop \/ EventLoopCycleBegins \/ EventLoopCycleEnds
  BY <1>0, <1>4, NoSessionChanged
    DEF ServerProcessLoop, EventLoopCycleBegins, EventLoopCycleEnds, TestKeepServerGoing
<1>5. CASE WaitForEvents \/ WaitForTraffic
  <2>1. sessions # <<>> => 1 \in DOMAIN sessions
    BY DEF Structure, TablesOK
  <2> QED
    BY <1>0, <1>5, <2>1, NoSessionChanged DEF WaitForEvents, WaitForTraffic, HandleEvents
<1>6. CASE Transfer
  <2>1. at < Len(sessions) => at + 1 \in DOMAIN sessions
    BY <1>6 DEF Structure, TablesOK, Placed, Transfer
  <2> QED
    BY <1>0, <1>6, <2>1, NoSessionChanged DEF Transfer, EndTurn
<1>7. CASE CleanupEnds
  <2>1. Here = {}
    BY <1>7 DEF CleanupEnds, Here
  <2> QED
    BY <1>0, <1>7, <2>1, NoSessionChanged DEF CleanupEnds
<1> QED
  BY <1>1, <1>2, <1>3, <1>4, <1>5, <1>6, <1>7

LEMMA ClockSteps ==
  ASSUME Structure, MembersOK, NEW s \in Session,
         SocketChanges(s) \/ ReconnectTimer(s) \/ TimeoutTimer(s)
  PROVE  MemberStep /\ MembersKept
<1> DEFINE r == ses'[s]
<1>1. ses[s] \in SessionRecord /\ ses \in [Session -> SessionRecord] /\ lame \subseteq Session
  BY DEF Structure, TablesOK
<1>2. CASE SocketChanges(s)
  <2>1. /\ ses' = [ses EXCEPT ![s].sock = r.sock] /\ r.sock \in {"open", "broken"}
        /\ ses[s].sock # "none"
    BY <1>1, <1>2 DEF SocketChanges, SessionRecord
  <2>2. r = [ses[s] EXCEPT !.sock = r.sock] /\ ses' = [ses EXCEPT ![s] = r]
    BY <1>1, <2>1
  <2> HIDE DEF r
  <2>3. r \in SessionRecord
    BY <1>1, <2>1, <2>2 DEF SessionRecord, Socket
  <2>4. /\ r.place = ses[s].place /\ r.detaches = ses[s].detaches
        /\ r.place = "here" /\ s \notin lame => FlagsOK(r) /\ Remembered(r)
        /\ Planned(ses[s]) => Planned(r)
        /\ r.sock # "none"
    BY <1>1, <2>1, <2>2 DEF SessionRecord, MembersOK, FlagsOK, Remembered, Planned
  <2> QED
    BY <1>1, <1>2, <2>2, <2>3, <2>4, OneSession DEF SocketChanges, PhaseStep, AddingStep
<1>3. CASE ReconnectTimer(s)
  <2>1. r = [ses[s] EXCEPT !.reconnect = "due"] /\ ses' = [ses EXCEPT ![s] = r]
    BY <1>1, <1>3 DEF ReconnectTimer
  <2> HIDE DEF r
  <2>2. /\ r \in SessionRecord /\ r.place = ses[s].place /\ r.detaches = ses[s].detaches
        /\ AddingStep(s, r)
        /\ r.place = "here" /\ s \notin lame => FlagsOK(r) /\ Remembered(r)
        /\ r.place = "here" /\ s \in ready => r.sock # "none"
        /\ Planned(ses[s]) => Planned(r)
    BY <1>1, <1>3, <2>1
      DEF ReconnectTimer, SessionRecord, Timer, MembersOK, FlagsOK, Remembered, Planned,
          AddingStep, Tried
  <2> QED
    BY <1>1, <1>3, <2>1, <2>2, OneSession DEF ReconnectTimer, PhaseStep
<1>4. CASE TimeoutTimer(s)
  <2>1. r = [ses[s] EXCEPT !.timeout = "due"] /\ ses' = [ses EXCEPT ![s] = r]
    BY <1>1, <1>4 DEF TimeoutTimer
  <2> HIDE DEF r
  <2>2. /\ r \in SessionRecord /\ r.place = ses[s].place /\ r.detaches = ses[s].detaches
        /\ AddingStep(s, r)
        /\ r.place = "here" /\ s \notin lame => FlagsOK(r) /\ Remembered(r)
        /\ r.place = "here" /\ s \in ready => r.sock # "none"
        /\ Planned(ses[s]) => Planned(r)
    BY <1>1, <1>4, <2>1
      DEF TimeoutTimer, SessionRecord, Timer, MembersOK, FlagsOK, Remembered, Planned,
          AddingStep, Tried
  <2> QED
    BY <1>1, <1>4, <2>1, <2>2, OneSession DEF TimeoutTimer, PhaseStep
<1> QED
  BY <1>2, <1>3, <1>4

(* Session s is disconnected: by a call, because its connection is lost,   *)
(* or because it took too long to connect.                                 *)
LEMMA DisconnectSteps ==
  ASSUME Structure, MembersOK, NEW s \in Session, NEW r, ses[s].place = "here",
         r = Disconnected(ses[s]) \/ r = GivenUp(ses[s]),
         ses[s].sock # "none" \/ ses[s].connecting,
         ses' = [ses EXCEPT ![s] = r], lame' = LameAfter({s}), ready' = ready \ {s},
         UNCHANGED <<sessions, adding>>, adding = Idle, PhaseStep
  PROVE  MemberStep /\ MembersKept
<1>1. /\ ses[s] \in SessionRecord /\ lame \subseteq Session
  BY DEF Structure, TablesOK
<1>2. /\ r \in SessionRecord /\ r.place = ses[s].place /\ r.detaches = ses[s].detaches
      /\ ~ r.connecting /\ ~ r.connected /\ r.timeout = "never" /\ r.sock = "none"
      /\ r.auto = ses[s].auto /\ r.wake = ses[s].wake /\ r.started = ses[s].started
      /\ r.auto => r.reconnect = "running"
      /\ ~ r.auto => r.reconnect = ses[s].reconnect
  BY <1>1, DisconnectedFacts, GivenUpFacts
<1>3. FlagsOK(r) /\ (s \notin lame' => Remembered(r))
  BY <1>1, <1>2 DEF FlagsOK, Remembered, LameAfter
<1>4. Planned(ses[s]) => Planned(r)
  BY <1>2 DEF Planned
<1>5. lame \subseteq lame' /\ lame' \subseteq Session
  BY <1>1 DEF LameAfter
<1> QED
  BY <1>2, <1>3, <1>4, <1>5, OneSession DEF AddingStep

(* Session s is connected by a call of Reconnect.                          *)
LEMMA ReconnectSteps ==
  ASSUME Structure, MembersOK, NEW s \in Session, NEW o \in Attempt, Reconnect(s, o)
  PROVE  MemberStep /\ MembersKept
<1> DEFINE r == Reconnected(ses[s], o)
<1>1. ses[s] \in SessionRecord /\ lame \subseteq Session /\ ses \in [Session -> SessionRecord]
  BY DEF Structure, TablesOK
<1>2. /\ r \in SessionRecord /\ FlagsOK(r) /\ Tried(r)
      /\ r.place = ses[s].place /\ r.detaches = ses[s].detaches
      /\ r.wake = ses[s].wake /\ r.reconnect = ses[s].reconnect
  BY <1>1, ReconnectedFacts
<1>3. ses' = [ses EXCEPT ![s] = r]
  BY DEF Reconnect
<1>4. ready' = ready \ {s} /\ UNCHANGED <<sessions, lame, phase, at, adding>>
  BY DEF Reconnect
<1>5. adding # Idle => adding.how # "replace" \/ s \notin {adding.old, adding.new}
  BY DEF Reconnect
<1>6. ManualReconnect \/ (ses[s].reconnect = "never" /\ ses[s].wake = "no")
  BY DEF Reconnect
<1> HIDE DEF r
<1>7. Remembered(r) /\ (~ ManualReconnect => Planned(r))
  BY <1>2, <1>6 DEF Tried, Remembered, Planned
<1>8. AddingStep(s, r)
  BY <1>2, <1>5 DEF AddingStep
<1> QED
  BY <1>1, <1>2, <1>3, <1>4, <1>7, <1>8, OneSession DEF PhaseStep

(* The steps of the loop for the session that it is at                     *)
LEMMA TurnFacts ==
  ASSUME Structure, adding = Idle, phase \in {"pulse", "session"},
         (phase' = "session" /\ at' = at) \/ EndTurn
  PROVE  PhaseStep
<1>1. at \in DOMAIN sessions /\ DOMAIN sessions = 1 .. Len(sessions)
  BY DEF Structure, TablesOK, Placed
<1> QED
  BY <1>1 DEF PhaseStep, EndTurn

LEMMA PulseSteps ==
  ASSUME Structure, MembersOK,
         \/ \E o \in Attempt : PulseReconnects(o)
         \/ PulseTimesOut \/ NoPulse
  PROVE  MemberStep /\ MembersKept
<1> DEFINE s == Current
<1>0. phase \in Placed /\ adding = Idle /\ phase = "pulse"
  BY DEF PulseReconnects, PulseTimesOut, NoPulse, Loop, Placed
<1>1. /\ s \in Session /\ ses[s].place = "here" /\ ses[s] \in SessionRecord
      /\ ses \in [Session -> SessionRecord] /\ lame \subseteq Session
  BY <1>0, HereFacts DEF Structure, TablesOK
<1>2. /\ UNCHANGED <<sessions, adding>> /\ phase' = "session" /\ at' = at /\ PhaseStep
  BY <1>0, TurnFacts DEF PulseReconnects, PulseTimesOut, NoPulse
<1>3. ASSUME NEW o \in Attempt, PulseReconnects(o)
      PROVE  MemberStep /\ MembersKept
  <2> DEFINE r == [AutoReconnect(ses[s], o) EXCEPT !.pulse = Invalid]
  <2>1. /\ r \in SessionRecord /\ FlagsOK(r)
        /\ r.place = ses[s].place /\ r.detaches = ses[s].detaches /\ r.wake = ses[s].wake
        /\ (r.sock = "none" <=> o = "error")
        /\ o # "error" => r.reconnect = "never"
        /\ o = "error" => r.reconnect = IF r.auto THEN "running" ELSE "never"
    BY <1>1, AutoReconnectFacts
  <2>2. ses' = [ses EXCEPT ![s] = r] /\ ready' = ready \ {s} /\ lame' = lame
    BY <1>3 DEF PulseReconnects
  <2>3. ses[s].wake = "no"
    BY <1>3 DEF PulseReconnects, ReconnectDue
  <2> HIDE DEF r, s
  <2>4. Remembered(r) /\ Planned(r)
    BY <2>1, <2>3 DEF Remembered, Planned
  <2> QED
    BY <1>0, <1>1, <1>2, <2>1, <2>2, <2>4, OneSession DEF AddingStep
<1>4. CASE PulseTimesOut
  <2>1. /\ ses' = [ses EXCEPT ![s] = GivenUp(ses[s])]
        /\ lame' = LameAfter({s}) /\ ready' = ready \ {s} /\ ses[s].connecting
    BY <1>4 DEF PulseTimesOut, TimeoutDue
  <2> HIDE DEF s
  <2> QED
    BY <1>0, <1>1, <1>2, <2>1, DisconnectSteps
<1>5. CASE NoPulse
  <2> DEFINE r == [ses[s] EXCEPT !.pulse = IF PulseDue(ses[s]) THEN Invalid ELSE @]
  <2>1. ses' = [ses EXCEPT ![s] = r] /\ ready' = ready /\ lame' = lame
    BY <1>1, <1>5 DEF NoPulse
  <2> HIDE DEF s
  <2>2. /\ r \in SessionRecord /\ r.place = ses[s].place /\ r.detaches = ses[s].detaches
        /\ r.sock = ses[s].sock /\ r.connecting = ses[s].connecting
        /\ r.connected = ses[s].connected /\ r.timeout = ses[s].timeout
        /\ r.reconnect = ses[s].reconnect /\ r.wake = ses[s].wake
        /\ r.auto = ses[s].auto /\ r.started = ses[s].started /\ r.failed = ses[s].failed
    BY <1>1 DEF SessionRecord, Invalid
  <2> HIDE DEF r
  <2>3. /\ s \notin lame => FlagsOK(r) /\ Remembered(r)
        /\ s \in ready => r.sock # "none"
        /\ Planned(ses[s]) => Planned(r)
    BY <1>1, <2>2 DEF FlagsOK, Remembered, Planned, MembersOK
  <2> QED
    BY <1>0, <1>1, <1>2, <2>1, <2>2, <2>3, OneSession DEF AddingStep
<1> QED
  BY <1>3, <1>4, <1>5

LEMMA ServiceSteps ==
  ASSUME Structure, MembersOK, ConnectionLost \/ AsyncConnectCompleted
  PROVE  MemberStep /\ MembersKept
<1> DEFINE s == Current
<1>0. phase \in Placed /\ adding = Idle /\ phase = "session"
  BY DEF ConnectionLost, AsyncConnectCompleted, Loop, Placed
<1>1. /\ s \in Session /\ ses[s].place = "here" /\ ses[s] \in SessionRecord
      /\ ses \in [Session -> SessionRecord] /\ lame \subseteq Session
  BY <1>0, HereFacts DEF Structure, TablesOK
<1>2. UNCHANGED <<sessions, adding>> /\ PhaseStep
  BY <1>0, TurnFacts DEF ConnectionLost, AsyncConnectCompleted, EndTurn
<1>3. CASE ConnectionLost
  <2>1. /\ ses' = [ses EXCEPT ![s] = Disconnected(ses[s])]
        /\ lame' = LameAfter({s}) /\ ready' = ready \ {s} /\ ses[s].sock # "none"
    BY <1>3 DEF ConnectionLost
  <2> HIDE DEF s
  <2> QED
    BY <1>0, <1>1, <1>2, <2>1, DisconnectSteps
<1>4. CASE AsyncConnectCompleted
  <2> DEFINE r == Finalized(ses[s])
  <2>1. /\ ses' = [ses EXCEPT ![s] = r] /\ ready' = ready \ {s} /\ lame' = lame
        /\ ses[s].sock = "open" /\ ses[s].connecting
    BY <1>4 DEF AsyncConnectCompleted
  <2> HIDE DEF s
  <2>2. /\ r \in SessionRecord /\ ~ r.connecting /\ r.connected /\ r.timeout = "never"
        /\ r.place = ses[s].place /\ r.detaches = ses[s].detaches /\ r.sock = ses[s].sock
        /\ r.wake = ses[s].wake /\ r.reconnect = ses[s].reconnect
    BY <1>1, FinalizedFacts
  <2> HIDE DEF r
  <2>3. FlagsOK(r) /\ Remembered(r) /\ (Planned(ses[s]) => Planned(r))
    BY <2>1, <2>2 DEF FlagsOK, Remembered, Planned
  <2> QED
    BY <1>0, <1>1, <1>2, <2>1, <2>2, <2>3, OneSession DEF AddingStep
<1> QED
  BY <1>3, <1>4

LEMMA DisconnectCall ==
  ASSUME Structure, MembersOK, NEW s \in Session, DisconnectSession(s)
  PROVE  MemberStep /\ MembersKept
<1>1. ses[s].place = "here"
  BY DEF DisconnectSession, Structure, TablesOK
<1> QED
  BY <1>1, DisconnectSteps DEF DisconnectSession, PhaseStep

(* The steps that change the members of many sessions                      *)
LEMMA SleepSteps ==
  ASSUME Structure, MembersOK, NEW remote, ComputerIsAboutToSleep(remote)
  PROVE  MemberStep /\ MembersKept
<1>1. /\ ses \in [Session -> SessionRecord] /\ lame \subseteq Session /\ Here \subseteq Session
      /\ \A s \in Here : ses[s].place = "here"
  BY HereFacts DEF Structure, TablesOK
<1>2. /\ adding = Idle /\ lame' = LameAfter(remote) /\ ready' = ready \ remote
      /\ UNCHANGED <<sessions, phase, at, adding>>
      /\ ses' = [s \in Session |->
           IF s \notin remote THEN ses[s]
           ELSE [Disconnected(ses[s]) EXCEPT
                  !.wake = IF ses[s].dest /\ ses[s].auto /\ s \notin lame' THEN "timer" ELSE @]]
  BY DEF ComputerIsAboutToSleep
<1>3. remote \subseteq Session /\ \A s \in remote : ses[s].sock # "none"
  BY <1>1 DEF ComputerIsAboutToSleep, Connected
<1>4. ASSUME NEW s \in Session
      PROVE  /\ ses'[s] \in SessionRecord
             /\ ses'[s].place = ses[s].place /\ ses'[s].detaches = ses[s].detaches
             /\ s \notin remote => ses'[s] = ses[s]
             /\ s \in remote => /\ FlagsOK(ses'[s])
                                /\ s \notin lame' => Remembered(ses'[s])
                                /\ Planned(ses[s]) => Planned(ses'[s])
  <2>1. CASE s \notin remote
    BY <1>1, <1>2, <2>1
  <2>2. CASE s \in remote
    <3> DEFINE d == Disconnected(ses[s])
               w == IF ses[s].dest /\ ses[s].auto /\ s \notin lame' THEN "timer" ELSE d.wake
               r == [d EXCEPT !.wake = w]
    <3>1. /\ d \in SessionRecord
          /\ ~ d.connecting /\ ~ d.connected /\ d.timeout = "never" /\ d.sock = "none"
          /\ d.place = ses[s].place /\ d.detaches = ses[s].detaches
          /\ d.auto = ses[s].auto /\ d.wake = ses[s].wake
          /\ d.auto => d.reconnect = "running"
          /\ ~ d.auto => d.reconnect = ses[s].reconnect
      BY <1>1, DisconnectedFacts
    <3>2. ses'[s] = r
      BY <1>2, <2>2
    <3> HIDE DEF d
    <3>3. w \in {"no", "timer", "reconnect"} /\ (w # "timer" => w = d.wake)
      BY <3>1 DEF SessionRecord
    <3> HIDE DEF w
    <3>4. /\ r \in SessionRecord
          /\ ~ r.connecting /\ ~ r.connected /\ r.timeout = "never" /\ r.sock = "none"
          /\ r.place = d.place /\ r.detaches = d.detaches
          /\ r.auto = d.auto /\ r.wake = w /\ r.reconnect = d.reconnect
      BY <3>1, <3>3 DEF SessionRecord
    <3> HIDE DEF r
    <3>5. FlagsOK(r)
      BY <3>4 DEF FlagsOK
    <3>6. s \notin lame' => Remembered(r)
      BY <1>2, <2>2, <3>1, <3>4 DEF Remembered, LameAfter
    <3>7. Planned(ses[s]) => Planned(r)
      BY <1>3, <2>2, <3>1, <3>3, <3>4 DEF Planned
    <3> QED
      BY <2>2, <3>1, <3>2, <3>4, <3>5, <3>6, <3>7
  <2> QED
    BY <2>1, <2>2
<1>5. ses' \in [Session -> SessionRecord]
  <2>1. ses' = [s \in Session |-> ses'[s]]
    BY <1>2
  <2> QED
    BY <1>4, <2>1
<1>6. lame \subseteq lame' /\ lame' \subseteq Session
  BY <1>1, <1>2, <1>3 DEF LameAfter
<1>7. MemberStep
  BY <1>2, <1>4, <1>5, <1>6 DEF MemberStep, PhaseStep, AddingStep
<1>8. MembersOK'
  BY <1>2, <1>4, <1>6 DEF MembersOK
<1>9. PlansOK => PlansOK'
  BY <1>4 DEF PlansOK
<1> QED
  BY <1>7, <1>8, <1>9 DEF MembersKept

LEMMA WakeSteps ==
  ASSUME Structure, MembersOK, NEW o \in [Session -> Attempt], ComputerJustWokeUp(o)
  PROVE  MemberStep /\ MembersKept
<1>1. /\ ses \in [Session -> SessionRecord] /\ lame \subseteq Session
      /\ \A s \in Session : s \in Here <=> ses[s].place = "here"
  BY DEF Structure, TablesOK
<1>2. /\ adding = Idle /\ UNCHANGED <<sessions, phase, at, adding, lame>>
      /\ ready' = {s \in ready : ses[s].wake # "reconnect"}
      /\ ses' = [s \in Session |->
           IF s \in Here THEN Woken(ses[s], o[s]) ELSE [ses[s] EXCEPT !.wake = "no"]]
  BY DEF ComputerJustWokeUp
<1>3. ASSUME NEW s \in Session
      PROVE  /\ ses'[s] \in SessionRecord
             /\ ses'[s].place = ses[s].place /\ ses'[s].detaches = ses[s].detaches
             /\ ses[s].place = "here" =>
                  /\ FlagsOK(ses[s]) => FlagsOK(ses'[s])
                  /\ Remembered(ses[s]) => Remembered(ses'[s])
                  /\ ses[s].wake # "reconnect" => ses'[s].sock = ses[s].sock
                  /\ Planned(ses[s]) => Planned(ses'[s])
  <2>1. CASE s \notin Here
    BY <1>1, <1>2, <2>1 DEF SessionRecord
  <2>2. CASE s \in Here
    <3> DEFINE c == Woken(ses[s], o[s])
    <3>1. /\ c \in SessionRecord
          /\ c.place = ses[s].place /\ c.detaches = ses[s].detaches /\ c.wake = "no"
          /\ c.reconnect = ses[s].reconnect
          /\ ses[s].wake = "reconnect" => (c.sock = "none" => c.failed) /\ FlagsOK(c)
          /\ ses[s].wake # "reconnect" =>
               /\ c.sock = ses[s].sock /\ c.connecting = ses[s].connecting
               /\ c.connected = ses[s].connected /\ c.timeout = ses[s].timeout
               /\ c.auto = ses[s].auto /\ c.started = ses[s].started
               /\ c.failed = ses[s].failed
      BY <1>1, WokenFacts
    <3>2. ses'[s] = c
      BY <1>2, <2>2
    <3> HIDE DEF c
    <3> QED
      BY <3>1, <3>2 DEF FlagsOK, Remembered, Planned
  <2> QED
    BY <2>1, <2>2
<1>4. ses' \in [Session -> SessionRecord]
  <2>1. ses' = [s \in Session |-> ses'[s]]
    BY <1>2
  <2> QED
    BY <1>3, <2>1
<1>5. MemberStep
  BY <1>1, <1>2, <1>3, <1>4 DEF MemberStep, PhaseStep, AddingStep
<1>6. MembersOK'
  BY <1>2, <1>3 DEF MembersOK
<1>7. PlansOK => PlansOK'
  BY <1>3 DEF PlansOK
<1> QED
  BY <1>5, <1>6, <1>7 DEF MembersKept

LEMMA PrepareSteps ==
  ASSUME Structure, MembersOK, PrepareToWaitForEvents
  PROVE  MemberStep /\ MembersKept
<1>1. ses \in [Session -> SessionRecord] /\ lame \subseteq Session
  BY DEF Structure, TablesOK
<1>2. /\ adding = Idle /\ UNCHANGED <<sessions, adding, lame, ready>>
      /\ phase = "begin" /\ phase' = "wait"
      /\ ses' = [s \in Session |->
           IF s \in Here /\ ses[s].pulse = Invalid
           THEN [ses[s] EXCEPT !.pulse = Counted(ses[s])] ELSE ses[s]]
  BY DEF PrepareToWaitForEvents, Loop
<1>3. ASSUME NEW s \in Session
      PROVE  /\ ses'[s] \in SessionRecord
             /\ ses'[s].place = ses[s].place /\ ses'[s].detaches = ses[s].detaches
             /\ ses'[s].sock = ses[s].sock /\ ses'[s].connecting = ses[s].connecting
             /\ ses'[s].connected = ses[s].connected /\ ses'[s].timeout = ses[s].timeout
             /\ ses'[s].auto = ses[s].auto /\ ses'[s].started = ses[s].started
             /\ ses'[s].failed = ses[s].failed
             /\ ses'[s].reconnect = ses[s].reconnect /\ ses'[s].wake = ses[s].wake
  <2>1. Counted(ses[s]) \in SUBSET {"reconnect", "timeout", "invalid"}
    BY DEF Counted
  <2>2. ses'[s] = ses[s] \/ ses'[s] = [ses[s] EXCEPT !.pulse = Counted(ses[s])]
    BY <1>2
  <2>3. ses[s] \in SessionRecord
    BY <1>1
  <2> QED
    BY <2>1, <2>2, <2>3 DEF SessionRecord
<1>4. ses' \in [Session -> SessionRecord]
  <2>1. ses' = [s \in Session |-> ses'[s]]
    BY <1>2
  <2> QED
    BY <1>3, <2>1
<1>5. MemberStep
  BY <1>1, <1>2, <1>3, <1>4 DEF MemberStep, PhaseStep, AddingStep
<1>6. MembersOK'
  BY <1>2, <1>3 DEF MembersOK, FlagsOK, Remembered
<1>7. PlansOK => PlansOK'
  BY <1>3 DEF PlansOK, Planned
<1> QED
  BY <1>5, <1>6, <1>7 DEF MembersKept

-----------------------------------------------------------------------------
(* Changes of the table of sessions *)

NoRepeats(q) == \A i, j \in DOMAIN q : q[i] = q[j] => i = j
Members(q) == {q[i] : i \in DOMAIN q}

LEMMA AppendFacts ==
  ASSUME NEW T, NEW q \in Seq(T), NEW e \in T, NoRepeats(q), e \notin Members(q)
  PROVE  LET a == Append(q, e) IN
         /\ a \in Seq(T) /\ Len(a) = Len(q) + 1 /\ a # <<>> /\ a[Len(a)] = e
         /\ NoRepeats(a) /\ Members(a) = Members(q) \cup {e}
         /\ \A i \in DOMAIN q : i \in DOMAIN a /\ a[i] = q[i] /\ i # Len(a)
<1> DEFINE a == Append(q, e)
<1>1. /\ a \in Seq(T) /\ Len(a) = Len(q) + 1 /\ a[Len(q) + 1] = e
      /\ DOMAIN q = 1 .. Len(q) /\ DOMAIN a = 1 .. Len(q) + 1 /\ Len(q) \in Nat
      /\ \A i \in 1 .. Len(q) : a[i] = q[i]
  OBVIOUS
<1> HIDE DEF a
<1>2. a # <<>>
  BY <1>1, Len(<<>>) = 0
<1>3. NoRepeats(a)
  BY <1>1 DEF NoRepeats, Members
<1>4. Members(a) = Members(q) \cup {e}
  BY <1>1 DEF Members
<1> QED
  BY <1>1, <1>2, <1>3, <1>4 DEF a

(* Taking out the element at place k                                       *)
LEMMA WithoutFacts ==
  ASSUME NEW T, NEW q \in Seq(T), NoRepeats(q), NEW k \in DOMAIN q
  PROVE  LET w == Without(q, q[k]) IN
         /\ IndexOf(q, q[k]) = k
         /\ w \in Seq(T) /\ Len(w) = Len(q) - 1
         /\ NoRepeats(w) /\ Members(w) = Members(q) \ {q[k]}
         /\ \A i \in 1 .. k - 1 : i \in DOMAIN w /\ w[i] = q[i]
<1> DEFINE l == SubSeq(q, 1, k - 1)
           r == SubSeq(q, k + 1, Len(q))
           w == l \o r
<1>1. IndexOf(q, q[k]) = k
  BY DEF IndexOf, NoRepeats
<1>2. DOMAIN q = 1 .. Len(q) /\ Len(q) \in Nat /\ k \in 1 .. Len(q)
  OBVIOUS
<1>3. l \in Seq(T) /\ Len(l) = k - 1 /\ \A i \in 1 .. k - 1 : l[i] = q[i]
  BY <1>2
<1>4. r \in Seq(T) /\ Len(r) = Len(q) - k /\ \A i \in 1 .. Len(q) - k : r[i] = q[k + i]
  BY <1>2
<1> HIDE DEF l, r
<1>5. w \in Seq(T) /\ Len(w) = Len(q) - 1 /\ DOMAIN w = 1 .. Len(q) - 1
  <2>1. w \in Seq(T) /\ Len(w) = Len(l) + Len(r)
    BY <1>3, <1>4, ConcatProperties
  <2> HIDE DEF w
  <2> QED
    BY <1>2, <1>3, <1>4, <2>1
<1>6. \A i \in 1 .. Len(q) - 1 : w[i] = IF i < k THEN q[i] ELSE q[i + 1]
  <2>1. \A i \in 1 .. Len(l) + Len(r) : w[i] = IF i <= Len(l) THEN l[i] ELSE r[i - Len(l)]
    BY <1>3, <1>4, ConcatProperties
  <2> HIDE DEF w
  <2>2. SUFFICES ASSUME NEW i \in 1 .. Len(q) - 1
                 PROVE  w[i] = IF i < k THEN q[i] ELSE q[i + 1]
    OBVIOUS
  <2>3. CASE i < k
    BY <1>2, <1>3, <1>4, <2>1, <2>3
  <2>4. CASE ~ (i < k)
    <3>1. /\ i \in 1 .. Len(l) + Len(r) /\ ~ (i <= Len(l)) /\ i - Len(l) = i - k + 1
          /\ i - k + 1 \in 1 .. Len(q) - k /\ k + (i - k + 1) = i + 1
      BY <1>2, <1>3, <1>4, <2>4
    <3> QED
      BY <1>4, <2>1, <2>4, <3>1
  <2> QED
    BY <2>3, <2>4
<1>7. Without(q, q[k]) = w
  BY <1>1 DEF Without, l, r
<1> HIDE DEF w
<1>8. NoRepeats(w)
  <2>1. SUFFICES ASSUME NEW i \in 1 .. Len(q) - 1, NEW j \in 1 .. Len(q) - 1, w[i] = w[j]
                 PROVE  i = j
    BY <1>5 DEF NoRepeats
  <2> DEFINE place(n) == IF n < k THEN n ELSE n + 1
  <2>2. place(i) \in DOMAIN q /\ place(j) \in DOMAIN q
    BY <1>2
  <2>3. q[place(i)] = q[place(j)]
    BY <1>6, <2>1
  <2>4. place(i) = place(j)
    BY <2>2, <2>3 DEF NoRepeats
  <2> QED
    BY <1>2, <2>4
<1>9. Members(w) = Members(q) \ {q[k]}
  <2>1. ASSUME NEW i \in DOMAIN w PROVE w[i] \in Members(q) /\ w[i] # q[k]
    BY <1>2, <1>5, <1>6 DEF NoRepeats, Members
  <2>2. ASSUME NEW i \in DOMAIN q, q[i] # q[k] PROVE q[i] \in Members(w)
    <3>1. CASE i < k
      BY <1>2, <1>5, <1>6, <3>1 DEF Members
    <3>2. CASE i > k
      <4>1. i - 1 \in 1 .. Len(q) - 1 /\ ~ (i - 1 < k) /\ (i - 1) + 1 = i
        BY <1>2, <3>2
      <4>2. w[i - 1] = q[i]
        BY <1>6, <4>1
      <4> QED
        BY <1>5, <4>1, <4>2 DEF Members
    <3> QED
      BY <1>2, <2>2, <3>1, <3>2
  <2> QED
    BY <2>1, <2>2 DEF Members
<1>10. \A i \in 1 .. k - 1 : i \in DOMAIN w /\ w[i] = q[i]
  BY <1>2, <1>5, <1>6
<1> QED
  BY <1>1, <1>5, <1>7, <1>8, <1>9, <1>10

LEMMA TailFacts ==
  ASSUME NEW T, NEW q \in Seq(T), NoRepeats(q), q # <<>>
  PROVE  /\ Head(q) = q[1] /\ 1 \in DOMAIN q /\ Tail(q) \in Seq(T)
         /\ NoRepeats(Tail(q)) /\ Members(Tail(q)) = Members(q) \ {q[1]}
<1> DEFINE t == Tail(q)
<1>1. /\ Head(q) = q[1] /\ t \in Seq(T) /\ Len(q) \in Nat \ {0} /\ DOMAIN q = 1 .. Len(q)
      /\ Len(t) = Len(q) - 1 /\ DOMAIN t = 1 .. Len(q) - 1
      /\ \A i \in 1 .. Len(q) - 1 : t[i] = q[i + 1]
  OBVIOUS
<1> HIDE DEF t
<1>2. NoRepeats(t)
  <2>1. SUFFICES ASSUME NEW i \in DOMAIN t, NEW j \in DOMAIN t, t[i] = t[j]
                 PROVE  i = j
    BY DEF NoRepeats
  <2>2. i + 1 \in DOMAIN q /\ j + 1 \in DOMAIN q /\ q[i + 1] = q[j + 1]
    BY <1>1, <2>1
  <2>3. i + 1 = j + 1
    BY <2>2 DEF NoRepeats
  <2> QED
    BY <1>1, <2>3
<1>3. Members(t) = Members(q) \ {q[1]}
  <2>1. ASSUME NEW i \in DOMAIN t PROVE t[i] \in Members(q) /\ t[i] # q[1]
    BY <1>1 DEF NoRepeats, Members
  <2>2. ASSUME NEW i \in DOMAIN q, q[i] # q[1] PROVE q[i] \in Members(t)
    <3>1. i - 1 \in DOMAIN t /\ t[i - 1] = q[i]
      BY <1>1, <2>2
    <3> QED
      BY <3>1 DEF Members
  <2> QED
    BY <2>1, <2>2 DEF Members
<1> QED
  BY <1>1, <1>2, <1>3 DEF t

LEMMA TableFacts ==
  ASSUME TablesOK
  PROVE  /\ NoRepeats(sessions) /\ Here = Members(sessions) /\ sessions \in Seq(Session)
         /\ DOMAIN sessions = 1 .. Len(sessions) /\ Len(sessions) \in Nat
         /\ ses \in [Session -> SessionRecord]
  BY DEF TablesOK, NoRepeats, Members, Here

LEMMA NewSessionFacts ==
  /\ NewSession \in SessionRecord /\ NewSession.detaches = 0 /\ NewSession.place = "new"
  /\ ~ NewSession.connecting /\ ~ NewSession.connected /\ NewSession.sock = "none"
  /\ NewSession.timeout = "never" /\ NewSession.reconnect = "never"
  /\ ~ NewSession.auto /\ ~ NewSession.started /\ NewSession.wake = "no"
  /\ ~ NewSession.failed
  BY DEF NewSession, SessionRecord, Invalid, Timer, Socket

LEMMA AttachSteps ==
  ASSUME Structure, MembersOK, NEW s \in Session, NEW r \in SessionRecord,
         NEW how \in {"connect", "dormant", "replace", "accept"},
         NEW old \in Session \cup {NoSession}, Attach(s, r, how, old),
         r.detaches = 0, FlagsOK(r), Remembered(r), Planned(r),
         how \in {"connect", "dormant"} => Tried(r),
         how = "replace" => old \in Here /\ r.sock = ses[old].sock,
         UNCHANGED <<lame, at, ready, phase>>
  PROVE  Structure' /\ MembersKept
<1> DEFINE c == [r EXCEPT !.place = "here"]
<1>1. /\ NoRepeats(sessions) /\ Here = Members(sessions) /\ sessions \in Seq(Session)
      /\ DOMAIN sessions = 1 .. Len(sessions) /\ ses \in [Session -> SessionRecord]
      /\ \A t \in Session : t \in Here <=> ses[t].place = "here"
      /\ ready \subseteq Session /\ \A t \in ready : ses[t].place # "new"
      /\ lame \subseteq Session
  BY TableFacts DEF Structure, TablesOK
<1>2. /\ adding = Idle /\ ses[s].place = "new" /\ ses' = [ses EXCEPT ![s] = c]
      /\ sessions' = Append(sessions, s)
      /\ adding' = [new |-> s, how |-> how, old |-> old]
  BY DEF Attach
<1>3. /\ c \in SessionRecord /\ c.place = "here" /\ c.detaches = 0 /\ c.sock = r.sock
      /\ (Tried(r) => Tried(c)) /\ FlagsOK(c) /\ Remembered(c) /\ Planned(c)
  BY DEF SessionRecord, FlagsOK, Remembered, Planned, Tried
<1> HIDE DEF c
<1>4. s \notin Members(sessions) /\ s \notin ready
  BY <1>1, <1>2
<1>5. /\ sessions' \in Seq(Session) /\ Len(sessions') = Len(sessions) + 1
      /\ sessions' # <<>> /\ sessions'[Len(sessions')] = s
      /\ NoRepeats(sessions') /\ Members(sessions') = Members(sessions) \cup {s}
      /\ \A i \in DOMAIN sessions :
           i \in DOMAIN sessions' /\ sessions'[i] = sessions[i] /\ i # Len(sessions')
  BY <1>1, <1>2, <1>4, AppendFacts
<1>6. /\ ses' \in [Session -> SessionRecord] /\ ses'[s] = c
      /\ \A t \in Session \ {s} : ses'[t] = ses[t]
  BY <1>1, <1>2, <1>3
<1>7. Here' = Here \cup {s}
  BY <1>1, <1>5 DEF Here, Members
<1>8. TablesOK'
  <2>1. \A t \in Session : t \in Here' <=> ses'[t].place = "here"
    BY <1>1, <1>3, <1>6, <1>7
  <2>2. \A t \in ready' : ses'[t].place # "new"
    BY <1>1, <1>4, <1>6
  <2>3. /\ phase' \in Placed => at' \in DOMAIN sessions'
        /\ phase' = "cleaning" => at' = 1
    BY <1>5 DEF Structure, TablesOK, Placed
  <2> QED
    BY <1>1, <1>5, <1>6, <2>1, <2>2, <2>3 DEF TablesOK, NoRepeats
<1>9. AddingOK'
  <2>1. /\ adding'.new = s /\ adding'.how = how /\ adding'.old = old
        /\ adding' \in [new : Session, how : {"connect", "dormant", "replace", "accept"},
                        old : Session \cup {NoSession}]
    BY <1>2
  <2>2. phase' \in Placed => at' # Len(sessions')
    BY <1>5 DEF Structure, TablesOK, Placed
  <2>3. how = "replace" => /\ old \in Session /\ old # s
                           /\ ses'[old].place = "here" /\ ses'[s].sock = ses'[old].sock
    <3>1. SUFFICES ASSUME how = "replace"
                   PROVE  /\ old \in Session /\ old # s
                          /\ ses'[old].place = "here" /\ ses'[s].sock = ses'[old].sock
      OBVIOUS
    <3>2. old \in Session /\ ses[old].place = "here" /\ r.sock = ses[old].sock
      BY <3>1, HereFacts DEF Structure
    <3>3. old # s
      BY <1>2, <3>2
    <3> QED
      BY <1>3, <1>6, <3>2, <3>3
  <2> QED
    BY <1>3, <1>5, <1>6, <2>1, <2>2, <2>3 DEF AddingOK
<1>10. DetachedExactlyOnce'
  <2>1. phase' \in {"detach", "cleaning"} <=> phase \in {"detach", "cleaning"}
    OBVIOUS
  <2>2. phase \in {"detach", "cleaning"} => Current' = Current /\ Current # s
    BY <1>1, <1>4, <1>5 DEF Structure, TablesOK, Placed, Current, Members
  <2> QED
    BY <1>2, <1>3, <1>6, <2>1, <2>2 DEF DetachedExactlyOnce, Structure
<1>11. MembersOK'
  BY <1>3, <1>4, <1>6 DEF MembersOK
<1>12. PlansOK => PlansOK'
  BY <1>3, <1>6 DEF PlansOK
<1> QED
  BY <1>8, <1>9, <1>10, <1>11, <1>12 DEF Structure, MembersKept

(* The ways to add a session                                               *)
LEMMA AddSteps ==
  ASSUME Structure, MembersOK, NEW s \in Session,
         \/ \E o \in Outcome, limited \in TimeLimits : AddNewConnectSession(s, o, limited)
         \/ AddNewDormantConnectSession(s)
         \/ \E old \in Session : ReplaceSession(s, old)
         \/ DoAccept(s)
  PROVE  Structure' /\ MembersKept
<1> USE NewSessionFacts
<1> DEFINE n == [NewSession EXCEPT !.dest = TRUE]
<1>0. n \in SessionRecord /\ n.detaches = 0 /\ n.sock = "none" /\ ~ n.started
      /\ FlagsOK(n) /\ Remembered(n) /\ Planned(n) /\ n.reconnect = "never" /\ n.wake = "no"
      /\ ~ n.auto /\ ~ n.connecting /\ Tried(n)
  BY DEF SessionRecord, FlagsOK, Remembered, Planned, Tried
<1> HIDE DEF n
<1>1. ASSUME NEW o \in Outcome, NEW limited \in TimeLimits, AddNewConnectSession(s, o, limited)
      PROVE  Structure' /\ MembersKept
  <2>1. limited \in BOOLEAN /\ o \in Attempt /\ o # "error"
    BY ServerAssumption DEF Outcome, Attempt
  <2>2. CASE asleep
    <3> DEFINE r == [n EXCEPT !.wake = "reconnect"]
    <3>1. Attach(s, r, "dormant", NoSession) /\ UNCHANGED <<lame, at, ready, phase>>
      BY <1>1, <2>2 DEF AddNewConnectSession, n
    <3>2. r \in SessionRecord /\ r.detaches = 0 /\ FlagsOK(r) /\ Remembered(r) /\ Planned(r)
          /\ Tried(r)
      BY <1>0 DEF SessionRecord, FlagsOK, Remembered, Planned, Tried
    <3> HIDE DEF r
    <3> QED
      BY <3>1, <3>2, AttachSteps
  <2>3. CASE ~ asleep
    <3> DEFINE m == [n EXCEPT !.limited = limited]
               r == Connect(m, o)
    <3>1. Attach(s, r, "connect", NoSession) /\ UNCHANGED <<lame, at, ready, phase>>
      BY <1>1, <2>3 DEF AddNewConnectSession, n
    <3>2. m \in SessionRecord /\ m.detaches = 0 /\ ~ m.auto /\ m.reconnect = "never"
          /\ m.wake = "no"
      BY <1>0, <2>1 DEF SessionRecord
    <3> HIDE DEF m
    <3>3. /\ r \in SessionRecord /\ FlagsOK(r) /\ r.sock # "none" /\ r.detaches = 0
          /\ ~ r.auto /\ r.wake = "no" /\ r.reconnect = "never"
      BY <2>1, <3>2, ConnectFacts
    <3> HIDE DEF r
    <3>4. Remembered(r) /\ Planned(r) /\ Tried(r)
      BY <3>3 DEF Remembered, Planned, Tried
    <3> QED
      BY <3>1, <3>3, <3>4, AttachSteps
  <2> QED
    BY <2>2, <2>3
<1>2. CASE AddNewDormantConnectSession(s)
  <2>1. Attach(s, n, "dormant", NoSession) /\ UNCHANGED <<lame, at, ready, phase>>
    BY <1>2 DEF AddNewDormantConnectSession, n
  <2> QED
    BY <1>0, <2>1, AttachSteps
<1>3. ASSUME NEW old \in Session, ReplaceSession(s, old)
      PROVE  Structure' /\ MembersKept
  <2> DEFINE r == [NewSession EXCEPT !.sock = ses[old].sock]
  <2>1. /\ Attach(s, r, "replace", old) /\ UNCHANGED <<lame, at, ready, phase>>
        /\ old \in Here
    BY <1>3 DEF ReplaceSession
  <2>2. ses[old].sock \in Socket
    BY TableFacts DEF Structure, SessionRecord
  <2>3. r \in SessionRecord /\ r.detaches = 0 /\ FlagsOK(r) /\ Remembered(r) /\ Planned(r)
        /\ r.sock = ses[old].sock
    BY <2>2 DEF SessionRecord, FlagsOK, Remembered, Planned
  <2> HIDE DEF r
  <2> QED
    BY <2>1, <2>3, AttachSteps
<1>4. CASE DoAccept(s)
  <2> DEFINE r == [NewSession EXCEPT !.sock = "open", !.connected = TRUE]
  <2>1. Attach(s, r, "accept", NoSession) /\ UNCHANGED <<lame, at, ready, phase>>
    BY <1>4 DEF DoAccept
  <2>2. r \in SessionRecord /\ r.detaches = 0 /\ FlagsOK(r) /\ Remembered(r) /\ Planned(r)
    BY DEF SessionRecord, FlagsOK, Remembered, Planned, Socket
  <2> HIDE DEF r
  <2> QED
    BY <2>1, <2>2, AttachSteps
<1> QED
  BY <1>1, <1>2, <1>3, <1>4

(* AttachedToServer has succeeded.                                         *)
LEMMA AttachSucceedsSteps ==
  ASSUME Structure, MembersOK, NEW auto \in BOOLEAN, NEW limited \in TimeLimits,
         AttachSucceeds(auto, limited)
  PROVE  Structure' /\ MembersKept
<1> DEFINE s == adding.new
           old == adding.old
           r == [ses[s] EXCEPT !.full = TRUE]
           Frame == UNCHANGED <<sessions, phase, at>>
<1>1. /\ adding # Idle /\ adding' = Idle /\ Frame
      /\ adding.how \in {"connect", "dormant", "replace", "accept"}
      /\ s \in Session /\ sessions # <<>> /\ sessions[Len(sessions)] = s
  BY DEF AttachSucceeds, Structure, AddingOK
<1>2. /\ ses \in [Session -> SessionRecord] /\ ses[s] \in SessionRecord /\ lame \subseteq Session
      /\ \A t \in Session : t \in Here <=> ses[t].place = "here"
      /\ ready \subseteq Session /\ \A t \in ready : ses[t].place # "new"
      /\ sessions \in Seq(Session)
  BY <1>1 DEF Structure, TablesOK
<1>3. ses[s].place = "here"
  <2>1. Len(sessions) \in DOMAIN sessions
    BY <1>1, <1>2
  <2> QED
    BY <1>1, <1>2, <2>1 DEF Here
<1>4. limited \in BOOLEAN
  BY ServerAssumption
<1>5. /\ r \in SessionRecord /\ r.place = "here" /\ r.detaches = ses[s].detaches
      /\ r.sock = ses[s].sock /\ r.connecting = ses[s].connecting
      /\ r.connected = ses[s].connected /\ r.timeout = ses[s].timeout
      /\ r.reconnect = ses[s].reconnect /\ r.wake = ses[s].wake
      /\ r.auto = ses[s].auto /\ r.started = ses[s].started /\ r.failed = ses[s].failed
  BY <1>2, <1>3 DEF SessionRecord
<1> HIDE DEF r
<1>6. CASE adding.how = "replace"
  <2> DEFINE o == [ses[old] EXCEPT !.sock = "none"]
  <2>1. /\ old \in Session /\ old # s /\ ses[old].place = "here"
        /\ ses[s].sock = ses[old].sock
    BY <1>1, <1>6 DEF Structure, AddingOK
  <2>2. /\ ses' = [ses EXCEPT ![s] = r, ![old].sock = "none"]
        /\ lame' = lame \cup {old}
        /\ ready' = IF old \in ready THEN (ready \ {old}) \cup {s} ELSE ready
    BY <1>1, <1>6 DEF AttachSucceeds, r
  <2>3. /\ o \in SessionRecord /\ o.place = "here" /\ o.detaches = ses[old].detaches
        /\ Planned(ses[old]) => Planned(o)
    <3>1. ses[old] \in SessionRecord
      BY <1>2, <2>1
    <3>2. /\ o \in SessionRecord /\ o.sock = "none" /\ o.place = ses[old].place
          /\ o.detaches = ses[old].detaches /\ o.reconnect = ses[old].reconnect
          /\ o.wake = ses[old].wake /\ o.connecting = ses[old].connecting
      BY <3>1 DEF SessionRecord, Socket
    <3> HIDE DEF o
    <3> QED
      BY <2>1, <3>2 DEF Planned
  <2> HIDE DEF s, old
  <2>4. /\ ses' \in [Session -> SessionRecord] /\ ses'[s] = r /\ ses'[old] = o
        /\ \A t \in Session : t \notin {s, old} => ses'[t] = ses[t]
    BY <1>1, <1>2, <1>5, <2>1, <2>2, <2>3
  <2> HIDE DEF o
  <2>5. /\ lame \subseteq lame' /\ old \in lame' /\ lame' \subseteq Session
        /\ ready' \subseteq ready \cup {s} /\ old \notin ready'
        /\ s \in ready' => s \in ready \/ old \in ready
    BY <1>1, <1>2, <2>1, <2>2
  <2>6. Here' = Here
    BY <1>1 DEF Here
  <2>7. TablesOK'
    BY <1>1, <1>2, <1>3, <1>5, <2>1, <2>3, <2>4, <2>5, <2>6 DEF TablesOK, Structure
  <2>8. DetachedExactlyOnce'
    BY <1>1, <1>3, <1>5, <2>1, <2>3, <2>4 DEF DetachedExactlyOnce, Structure, Current
  <2>9. MembersOK'
    <3>1. ses'[s].place = "here" =>
            /\ s \notin lame' => FlagsOK(ses'[s]) /\ Remembered(ses'[s])
            /\ s \in ready' => ses'[s].sock # "none"
      BY <1>1, <1>3, <1>5, <2>1, <2>4, <2>5 DEF MembersOK, FlagsOK, Remembered
    <3>2. \A t \in Session : t # s /\ ses'[t].place = "here" =>
            /\ t \notin lame' => FlagsOK(ses'[t]) /\ Remembered(ses'[t])
            /\ t \in ready' => ses'[t].sock # "none"
      BY <2>4, <2>5 DEF MembersOK
    <3> QED
      BY <3>1, <3>2 DEF MembersOK
  <2>10. PlansOK => PlansOK'
    BY <1>1, <1>3, <1>5, <2>1, <2>3, <2>4 DEF PlansOK, Planned
  <2> QED
    BY <1>1, <2>7, <2>8, <2>9, <2>10 DEF Structure, MembersKept, AddingOK
<1>7. CASE adding.how # "replace"
  <2> DEFINE c == ses'[s]
  <2>1. /\ lame' = lame /\ ready' = ready
        /\ \/ adding.how = "accept" /\ ses' = [ses EXCEPT ![s] = r]
           \/ /\ adding.how = "connect"
              /\ ses' = [ses EXCEPT ![s] = [r EXCEPT !.auto = auto, !.pulse = Invalid]]
           \/ /\ adding.how = "dormant"
              /\ ses' = [ses EXCEPT ![s] =
                          [r EXCEPT !.auto = auto, !.limited = limited, !.pulse = Invalid]]
    BY <1>1, <1>7 DEF AttachSucceeds, r
  <2>2. adding.how # "accept" => Tried(ses[s])
    BY <1>1, <1>7 DEF Structure, AddingOK
  <2> HIDE DEF s
  <2>3. /\ ses' = [ses EXCEPT ![s] = c]
        /\ \/ adding.how = "accept" /\ c = r
           \/ adding.how = "connect" /\ c = [r EXCEPT !.auto = auto, !.pulse = Invalid]
           \/ /\ adding.how = "dormant"
              /\ c = [r EXCEPT !.auto = auto, !.limited = limited, !.pulse = Invalid]
    BY <1>1, <1>2, <2>1
  <2> HIDE DEF c
  <2>4. /\ c \in SessionRecord /\ c.place = "here" /\ c.detaches = r.detaches
        /\ c.sock = r.sock /\ c.connecting = r.connecting
        /\ c.connected = r.connected /\ c.timeout = r.timeout
        /\ c.reconnect = r.reconnect /\ c.wake = r.wake
        /\ c.started = r.started /\ c.failed = r.failed
        /\ adding.how = "accept" => c.auto = r.auto
    <3>1. CASE c = r
      BY <1>5, <3>1
    <3>2. CASE adding.how = "connect" /\ c = [r EXCEPT !.auto = auto, !.pulse = Invalid]
      BY <1>5, <3>2 DEF SessionRecord, Invalid
    <3>3. CASE /\ adding.how = "dormant"
               /\ c = [r EXCEPT !.auto = auto, !.limited = limited, !.pulse = Invalid]
      BY <1>4, <1>5, <3>3 DEF SessionRecord, Invalid
    <3> QED
      BY <2>3, <3>1, <3>2, <3>3
  <2>5. /\ FlagsOK(ses[s]) => FlagsOK(c)
        /\ Remembered(ses[s]) => Remembered(c)
        /\ Planned(ses[s]) => Planned(c)
    BY <1>1, <1>5, <1>7, <2>2, <2>4 DEF FlagsOK, Remembered, Planned, Tried
  <2>6. /\ ses' \in [Session -> SessionRecord] /\ ses'[s] = c
        /\ \A t \in Session \ {s} : ses'[t] = ses[t]
    BY <1>1, <1>2, <2>3, <2>4
  <2>7. Here' = Here
    BY <1>1 DEF Here
  <2>8. TablesOK'
    BY <1>1, <1>2, <1>3, <2>1, <2>4, <2>6, <2>7 DEF TablesOK, Structure
  <2>9. DetachedExactlyOnce'
    BY <1>1, <1>3, <1>5, <2>4, <2>6 DEF DetachedExactlyOnce, Structure, Current
  <2>10. MembersOK'
    BY <1>1, <1>3, <1>5, <2>1, <2>4, <2>5, <2>6 DEF MembersOK
  <2>11. PlansOK => PlansOK'
    BY <1>1, <1>3, <2>5, <2>6 DEF PlansOK
  <2> QED
    BY <1>1, <2>8, <2>9, <2>10, <2>11 DEF Structure, MembersKept, AddingOK
<1> QED
  BY <1>6, <1>7

LEMMA DetachedFacts ==
  ASSUME NEW r \in SessionRecord
  PROVE  /\ Detached(r) \in SessionRecord /\ Detached(r).place = "gone"
         /\ Detached(r).detaches = r.detaches
  BY NewSessionFacts DEF Detached, SessionRecord

LEMMA ToldFacts ==
  ASSUME NEW r \in SessionRecord
  PROVE  LET c == AboutToDetachFromServer(r) IN
         /\ c \in SessionRecord /\ c.detaches = r.detaches + 1 /\ c.place = r.place
         /\ c.sock = r.sock
         /\ FlagsOK(r) => FlagsOK(c)
         /\ Remembered(r) => Remembered(c)
         /\ Planned(r) => Planned(c)
<1> DEFINE c == AboutToDetachFromServer(r)
           n == r.detaches + 1
<1>0. n \in Nat /\ c = [r EXCEPT !.full = FALSE, !.detaches = n]
  BY DEF SessionRecord, AboutToDetachFromServer
<1> HIDE DEF c, n
<1>1. /\ c \in SessionRecord /\ c.detaches = n /\ c.place = r.place
      /\ c.sock = r.sock /\ c.connecting = r.connecting /\ c.connected = r.connected
      /\ c.timeout = r.timeout /\ c.reconnect = r.reconnect /\ c.wake = r.wake
      /\ c.auto = r.auto /\ c.started = r.started /\ c.failed = r.failed
  BY <1>0 DEF SessionRecord
<1>2. /\ FlagsOK(r) => FlagsOK(c)
      /\ Remembered(r) => Remembered(c)
      /\ Planned(r) => Planned(c)
  BY <1>1 DEF FlagsOK, Remembered, Planned
<1> QED
  BY <1>1, <1>2 DEF c, n

(* The session at place k of the table is told that it is detached.        *)
LEMMA TellSteps ==
  ASSUME Structure, MembersOK, NEW k \in DOMAIN sessions, adding = Idle,
         phase \notin {"detach", "cleaning"}, phase' \in {"detach", "cleaning"},
         at' = k, phase' = "cleaning" => k = 1,
         ses' = [ses EXCEPT ![sessions[k]] = AboutToDetachFromServer(ses[sessions[k]])],
         UNCHANGED <<sessions, lame, ready, adding>>
  PROVE  Structure' /\ MembersKept
<1> DEFINE s == sessions[k]
           c == AboutToDetachFromServer(ses[s])
<1>1. /\ s \in Session /\ ses[s].place = "here" /\ ses[s] \in SessionRecord
      /\ ses \in [Session -> SessionRecord]
  BY HereFacts DEF Structure, TablesOK
<1>2. /\ c \in SessionRecord /\ c.detaches = ses[s].detaches + 1 /\ c.place = ses[s].place
      /\ c.sock = ses[s].sock
      /\ FlagsOK(ses[s]) => FlagsOK(c)
      /\ Remembered(ses[s]) => Remembered(c)
      /\ Planned(ses[s]) => Planned(c)
  BY <1>1, ToldFacts
<1>3. ses' = [ses EXCEPT ![s] = c] /\ Current' = s
  BY DEF Current
<1> HIDE DEF s, c
<1>4. /\ ses' \in [Session -> SessionRecord] /\ ses'[s] = c
      /\ \A t \in Session \ {s} : ses'[t] = ses[t]
  BY <1>1, <1>2, <1>3
<1>5. Here' = Here
  BY DEF Here
<1>6. TablesOK'
  BY <1>1, <1>2, <1>4, <1>5 DEF TablesOK, Structure, Placed
<1>7. AddingOK'
  BY DEF AddingOK
<1>8. DetachedExactlyOnce'
  <2>1. ses[s].detaches = 0
    BY <1>1 DEF DetachedExactlyOnce, Structure
  <2> QED
    BY <1>1, <1>2, <1>3, <1>4, <2>1 DEF DetachedExactlyOnce, Structure
<1>9. MembersOK'
  BY <1>1, <1>2, <1>4 DEF MembersOK
<1>10. PlansOK => PlansOK'
  BY <1>1, <1>2, <1>4 DEF PlansOK
<1> QED
  BY <1>6, <1>7, <1>8, <1>9, <1>10 DEF Structure, MembersKept

(* Session s, which was told before or is told now, leaves the table.      *)
LEMMA RemoveSteps ==
  ASSUME Structure, MembersOK, NEW s \in Here, NEW c \in SessionRecord,
         c.place = "gone", c.detaches = 1, ses' = [ses EXCEPT ![s] = c],
         sessions' \in Seq(Session), NoRepeats(sessions'), Members(sessions') = Here \ {s},
         adding' = Idle, lame' \subseteq Session, ready' \subseteq ready,
         \A t \in Session \ {s} : t \in lame => t \in lame',
         \/ phase \in {"detach", "cleaning"} /\ phase' \notin Placed /\ Current = s
         \/ /\ phase' = phase /\ at' = at
            /\ phase \in Placed => at \in DOMAIN sessions' /\ Current' = Current /\ Current # s
  PROVE  Structure' /\ MembersKept
<1>1. /\ ses \in [Session -> SessionRecord] /\ s \in Session /\ Here \subseteq Session
      /\ \A t \in Session : t \in Here <=> ses[t].place = "here"
  BY HereFacts DEF Structure, TablesOK
<1>2. /\ ses' \in [Session -> SessionRecord] /\ ses'[s] = c
      /\ \A t \in Session \ {s} : ses'[t] = ses[t]
  BY <1>1
<1>3. Here' = Here \ {s}
  BY DEF Here, Members
<1>4. TablesOK'
  <2>1. \A t \in Session : t \in Here' <=> ses'[t].place = "here"
    BY <1>1, <1>2, <1>3
  <2>2. ready' \subseteq Session /\ \A t \in ready' : ses'[t].place # "new"
    BY <1>2 DEF Structure, TablesOK
  <2>3. /\ phase' \in Placed => at' \in DOMAIN sessions'
        /\ phase' = "cleaning" => at' = 1
    BY DEF Structure, TablesOK, Placed
  <2> QED
    BY <1>2, <2>1, <2>2, <2>3 DEF TablesOK, NoRepeats
<1>5. AddingOK'
  BY DEF AddingOK
<1>6. DetachedExactlyOnce'
  <2>1. CASE phase \in {"detach", "cleaning"} /\ phase' \notin Placed /\ Current = s
    BY <1>1, <1>2, <2>1 DEF DetachedExactlyOnce, Structure, Placed
  <2>2. CASE /\ phase' = phase /\ at' = at
             /\ phase \in Placed => Current' = Current /\ Current # s
    BY <1>1, <1>2, <2>2 DEF DetachedExactlyOnce, Structure, Placed
  <2> QED
    BY <2>1, <2>2
<1>7. MembersOK'
  BY <1>1, <1>2 DEF MembersOK
<1>8. PlansOK => PlansOK'
  BY <1>1, <1>2 DEF PlansOK
<1> QED
  BY <1>4, <1>5, <1>6, <1>7, <1>8 DEF Structure, MembersKept

LEMMA DetachSteps ==
  ASSUME Structure, MembersOK,
         \/ \E s \in Session : DetachDuck(s)
         \/ CleanupDetaches
  PROVE  Structure' /\ MembersKept
<1>0. /\ NoRepeats(sessions) /\ Here = Members(sessions) /\ sessions \in Seq(Session)
      /\ DOMAIN sessions = 1 .. Len(sessions)
  BY TableFacts DEF Structure
<1>1. ASSUME NEW s \in Session, DetachDuck(s)
      PROVE  Structure' /\ MembersKept
  <2>1. PICK k \in DOMAIN sessions : sessions[k] = s
    BY <1>1 DEF DetachDuck, Here
  <2>2. IndexOf(sessions, s) = k
    BY <1>0, <2>1, WithoutFacts
  <2>3. /\ adding = Idle /\ phase = "clear" /\ phase' = "detach" /\ at' = k
        /\ ses' = [ses EXCEPT ![sessions[k]] = AboutToDetachFromServer(ses[sessions[k]])]
        /\ UNCHANGED <<sessions, lame, ready, adding>>
    BY <1>1, <2>1, <2>2 DEF DetachDuck, Loop
  <2> QED
    BY <2>3, TellSteps
<1>2. CASE CleanupDetaches
  <2>1. sessions # <<>> /\ Head(sessions) = sessions[1] /\ 1 \in DOMAIN sessions
    BY <1>0, <1>2, TailFacts DEF CleanupDetaches
  <2>2. /\ adding = Idle /\ phase = "cleanup" /\ phase' = "cleaning" /\ at' = 1
        /\ ses' = [ses EXCEPT ![sessions[1]] = AboutToDetachFromServer(ses[sessions[1]])]
        /\ UNCHANGED <<sessions, lame, ready, adding>>
    BY <1>2, <2>1 DEF CleanupDetaches, Loop
  <2> QED
    BY <2>1, <2>2, TellSteps
<1> QED
  BY <1>1, <1>2

LEMMA LeaveSteps ==
  ASSUME Structure, MembersOK, AttachFails \/ RemoveDuck \/ CleanupRemoves
  PROVE  Structure' /\ MembersKept
<1>0. /\ NoRepeats(sessions) /\ Here = Members(sessions) /\ sessions \in Seq(Session)
      /\ DOMAIN sessions = 1 .. Len(sessions) /\ Len(sessions) \in Nat
      /\ ses \in [Session -> SessionRecord] /\ lame \subseteq Session /\ ready \subseteq Session
  BY TableFacts DEF Structure, TablesOK
<1>1. CASE AttachFails
  <2> DEFINE s == adding.new
             k == Len(sessions)
             c == Detached(AboutToDetachFromServer(ses[s]))
  <2>1. /\ adding # Idle /\ adding' = Idle /\ ses' = [ses EXCEPT ![s] = c]
        /\ sessions' = Without(sessions, s) /\ UNCHANGED <<lame, phase, at, ready>>
    BY <1>1 DEF AttachFails
  <2>2. /\ k \in DOMAIN sessions /\ sessions[k] = s /\ (phase \in Placed => at # k)
    BY <1>0, <2>1 DEF Structure, AddingOK
  <2>3. s \in Here /\ s \in Session /\ ses[s] \in SessionRecord
    BY <1>0, <2>2, HereFacts DEF Structure
  <2>4. /\ sessions' \in Seq(Session) /\ NoRepeats(sessions')
        /\ Members(sessions') = Here \ {s}
        /\ \A i \in 1 .. k - 1 : i \in DOMAIN sessions' /\ sessions'[i] = sessions[i]
    <3> HIDE DEF s, k, c
    <3>1. sessions' = Without(sessions, sessions[k])
      BY <2>1, <2>2
    <3> QED
      BY <1>0, <2>2, <3>1, WithoutFacts
  <2>5. phase \in Placed =>
          at \in DOMAIN sessions' /\ Current' = Current /\ Current # s
    <3>1. phase \in Placed => at \in 1 .. k - 1
      BY <1>0, <2>2 DEF Structure, TablesOK
    <3> QED
      BY <1>0, <2>1, <2>2, <2>4, <3>1 DEF Current, NoRepeats
  <2>6. ses[s].detaches = 0
    BY <2>3, <2>5, HereFacts DEF Structure, DetachedExactlyOnce, Placed
  <2>7. c \in SessionRecord /\ c.place = "gone" /\ c.detaches = 1
    BY <2>3, <2>6, ToldFacts, DetachedFacts
  <2> HIDE DEF s, c
  <2> QED
    BY <1>0, <2>1, <2>3, <2>4, <2>5, <2>7, RemoveSteps
<1>2. CASE RemoveDuck
  <2> DEFINE s == Current
             c == Detached(ses[s])
  <2>1. /\ phase = "detach" /\ phase' = "clear" /\ adding = Idle /\ adding' = Idle
        /\ ses' = [ses EXCEPT ![s] = c] /\ sessions' = Without(sessions, s)
        /\ lame' = lame \ {s} /\ ready' = ready \ {s}
    BY <1>2 DEF RemoveDuck, Loop, Current
  <2>2. at \in DOMAIN sessions /\ sessions[at] = s
    BY <2>1 DEF Structure, TablesOK, Placed, Current
  <2>3. s \in Here /\ s \in Session /\ ses[s] \in SessionRecord
    BY <1>0, <2>2, HereFacts DEF Structure
  <2>4. /\ sessions' \in Seq(Session) /\ NoRepeats(sessions')
        /\ Members(sessions') = Here \ {s}
    BY <1>0, <2>1, <2>2, WithoutFacts
  <2>5. ses[s].detaches = 1
    BY <2>1, <2>3 DEF Structure, DetachedExactlyOnce
  <2>6. c \in SessionRecord /\ c.place = "gone" /\ c.detaches = 1
    BY <2>3, <2>5, DetachedFacts
  <2>7. phase' \notin Placed /\ phase \in {"detach", "cleaning"} /\ Current = s
    BY <2>1 DEF Placed
  <2> HIDE DEF s, c
  <2> QED
    BY <1>0, <2>1, <2>3, <2>4, <2>6, <2>7, RemoveSteps
<1>3. CASE CleanupRemoves
  <2> DEFINE s == Current
             c == Detached(ses[s])
  <2>1. phase = "cleaning" /\ phase' = "cleanup" /\ adding = Idle /\ adding' = Idle
    BY <1>3 DEF CleanupRemoves, Loop
  <2>2. at = 1 /\ 1 \in DOMAIN sessions /\ sessions # <<>>
    BY <1>0, <2>1 DEF Structure, TablesOK, Placed
  <2>3. Head(sessions) = s
    BY <1>0, <2>2, TailFacts DEF Current
  <2>4. /\ ses' = [ses EXCEPT ![s] = c] /\ sessions' = Tail(sessions)
        /\ lame' = lame \cup {s} /\ ready' = ready
    BY <1>3, <2>3 DEF CleanupRemoves
  <2>5. s \in Here /\ s \in Session /\ ses[s] \in SessionRecord
    BY <1>0, <2>1, <2>2, HereFacts DEF Structure, Placed
  <2>6. /\ sessions' \in Seq(Session) /\ NoRepeats(sessions')
        /\ Members(sessions') = Here \ {s}
    BY <1>0, <2>2, <2>4, TailFacts DEF Current
  <2>7. ses[s].detaches = 1
    BY <2>1, <2>5 DEF Structure, DetachedExactlyOnce
  <2>8. c \in SessionRecord /\ c.place = "gone" /\ c.detaches = 1
    BY <2>5, <2>7, DetachedFacts
  <2>9. phase' \notin Placed /\ phase \in {"detach", "cleaning"} /\ Current = s
    BY <2>1 DEF Placed
  <2> HIDE DEF s, c
  <2> QED
    BY <1>0, <2>1, <2>4, <2>5, <2>6, <2>8, <2>9, RemoveSteps
<1> QED
  BY <1>1, <1>2, <1>3

-----------------------------------------------------------------------------
(* Every step *)

LEMMA ServerInit ==
  ASSUME Init
  PROVE  Structure /\ MembersOK /\ PlansOK
<1>1. /\ ses = [s \in Session |-> NewSession] /\ sessions = <<>> /\ lame = {} /\ ready = {}
      /\ phase = "setup" /\ adding = Idle
  BY DEF Init
<1>2. \A s \in Session : ses[s] = NewSession
  BY <1>1
<1>3. Here = {}
  BY <1>1 DEF Here
<1>4. TablesOK
  <2>1. ses \in [Session -> SessionRecord]
    BY <1>1, NewSessionFacts
  <2> QED
    BY <1>1, <1>2, <1>3, <2>1, NewSessionFacts DEF TablesOK, Placed
<1>5. DetachedExactlyOnce
  BY <1>1, <1>2, NewSessionFacts DEF DetachedExactlyOnce
<1>6. AddingOK
  BY <1>1 DEF AddingOK
<1> QED
  BY <1>2, <1>4, <1>5, <1>6, NewSessionFacts DEF Structure, MembersOK, PlansOK

LEMMA ServerStep ==
  ASSUME Structure, MembersOK, [Next]_vars
  PROVE  Structure' /\ MembersKept
<1> USE DEF Next
<1>1. CASE UserCalls
  <2> USE <1>1 DEF UserCalls
  <2>1. ASSUME NEW s \in Session, EndSession(s)
        PROVE  Structure' /\ MembersKept
    BY <2>1, QuietSteps, MemberStepKeeps
  <2>2. ASSUME NEW s \in Session, DisconnectSession(s)
        PROVE  Structure' /\ MembersKept
    BY <2>2, DisconnectCall, MemberStepKeeps
  <2>3. ASSUME NEW s \in Session, NEW o \in Attempt, Reconnect(s, o)
        PROVE  Structure' /\ MembersKept
    BY <2>3, ReconnectSteps, MemberStepKeeps
  <2>4. ASSUME NEW s \in Session,
               \/ AddNewDormantConnectSession(s)
               \/ \E o \in Outcome, limited \in TimeLimits : AddNewConnectSession(s, o, limited)
               \/ \E old \in Session : ReplaceSession(s, old)
        PROVE  Structure' /\ MembersKept
    BY <2>4, AddSteps
  <2>5. ASSUME NEW remote \in SUBSET Session, ComputerIsAboutToSleep(remote)
        PROVE  Structure' /\ MembersKept
    BY <2>5, SleepSteps, MemberStepKeeps
  <2>6. CASE EndServer
    BY <2>6, QuietSteps, MemberStepKeeps
  <2>7. ASSUME NEW o \in [Session -> Attempt], ComputerJustWokeUp(o)
        PROVE  Structure' /\ MembersKept
    BY <2>7, WakeSteps, MemberStepKeeps
  <2> QED
    BY <2>1, <2>2, <2>3, <2>4, <2>5, <2>6, <2>7
<1>2. CASE ServerSteps
  <2>1. ASSUME NEW auto \in BOOLEAN, NEW limited \in TimeLimits, AttachSucceeds(auto, limited)
        PROVE  Structure' /\ MembersKept
    BY <2>1, AttachSucceedsSteps
  <2>2. CASE AttachFails \/ RemoveDuck \/ CleanupRemoves
    BY <2>2, LeaveSteps
  <2>3. CASE ServerProcessLoop \/ EventLoopCycleBegins \/ WaitForEvents \/ Transfer
             \/ EventLoopCycleEnds \/ CleanupEnds
    BY <2>3, QuietSteps, MemberStepKeeps
  <2>4. ASSUME NEW s \in Session, DropDuck(s)
        PROVE  Structure' /\ MembersKept
    BY <2>4, QuietSteps, MemberStepKeeps
  <2>5. CASE CleanupDetaches \/ \E s \in Session : DetachDuck(s)
    BY <2>5, DetachSteps
  <2>6. CASE PrepareToWaitForEvents
    BY <2>6, PrepareSteps, MemberStepKeeps
  <2>7. CASE \/ \E o \in Attempt : PulseReconnects(o)
             \/ PulseTimesOut \/ NoPulse
    BY <2>7, PulseSteps, MemberStepKeeps
  <2>8. CASE ConnectionLost \/ AsyncConnectCompleted
    BY <2>8, ServiceSteps, MemberStepKeeps
  <2> QED
    BY <1>2, <2>1, <2>2, <2>3, <2>4, <2>5, <2>6, <2>7, <2>8 DEF ServerSteps
<1>3. CASE WaitForTraffic
  BY <1>3, QuietSteps, MemberStepKeeps
<1>4. ASSUME NEW s \in Session, SocketChanges(s) \/ ReconnectTimer(s) \/ TimeoutTimer(s)
      PROVE  Structure' /\ MembersKept
  BY <1>4, ClockSteps, MemberStepKeeps
<1>5. ASSUME NEW s \in Session, DoAccept(s)
      PROVE  Structure' /\ MembersKept
  BY <1>5, AddSteps
<1>6. CASE UNCHANGED vars
  <2>1. UNCHANGED <<ses, sessions, adding, lame, ready, phase, at>>
    BY <1>6 DEF vars
  <2>2. lame' \subseteq Session
    BY <2>1 DEF Structure, TablesOK
  <2> QED
    BY <2>1, <2>2, NoSessionChanged, MemberStepKeeps DEF PhaseStep
<1> QED
  BY <1>1, <1>2, <1>3, <1>4, <1>5, <1>6

(* The inductive invariant of every step, with user code that may do what  *)
(* it wants to about reconnecting                                          *)
THEOREM ServerInvariant == Spec => [](Structure /\ MembersOK)
<1>1. Init => Structure /\ MembersOK
  BY ServerInit
<1>2. Structure /\ MembersOK /\ [Next]_vars => (Structure /\ MembersOK)'
  BY ServerStep DEF MembersKept
<1> QED
  BY <1>1, <1>2, PTL DEF Spec

(* For any number of sessions and of calls of user code, each session that *)
(* was attached is told exactly once that it is detached.                  *)
THEOREM SessionsDetachedOnce == Spec => []DetachedExactlyOnce
<1>1. Structure => DetachedExactlyOnce
  BY DEF Structure
<1> QED
  BY <1>1, ServerInvariant, PTL

(* For any number of sessions, the flags of a session agree with its       *)
(* socket, whatever order connects, timeouts and disconnects come in.      *)
THEOREM FlagsCorrect == Spec => []FlagsMatchSocket
<1>1. Structure /\ MembersOK => FlagsMatchSocket
  <2> SUFFICES ASSUME Structure, MembersOK PROVE FlagsMatchSocket
    OBVIOUS
  <2>1. ServerTypeOK
    BY DEF Structure, TablesOK, ServerTypeOK, SessionRecord, Placed
  <2>2. \A s \in Here : s \in Session /\ ses[s].place = "here"
    BY HereFacts DEF Structure
  <2> QED
    BY <2>1, <2>2 DEF MembersOK, FlagsOK, FlagsMatchSocket
<1> QED
  BY <1>1, ServerInvariant, PTL

(* For any number of sessions, one that reconnects by itself and has been  *)
(* connected always has a socket, a planned reconnect or an entry for the  *)
(* time of wakeup, unless its last Reconnect() failed at once and was not  *)
(* made by Pulse().                                                        *)
THEOREM SessionsRemembered == Spec => []NeverForgotten
<1>1. Structure /\ MembersOK => NeverForgotten
  BY HereFacts DEF Structure, MembersOK, Remembered, NeverForgotten
<1> QED
  BY <1>1, ServerInvariant, PTL

(* For any number of sessions, if user code leaves sessions alone that are *)
(* going to reconnect, a reconnect is never planned for a session that has *)
(* a socket.                                                               *)
THEOREM PlansCorrect == ~ ManualReconnect /\ Spec => []PlannedOnlyWhenDown
<1>1. Init => PlansOK
  BY ServerInit
<1>2. ~ ManualReconnect /\ Structure /\ MembersOK /\ PlansOK /\ [Next]_vars => PlansOK'
  BY ServerStep DEF MembersKept
<1>3. Structure /\ PlansOK => PlannedOnlyWhenDown
  BY HereFacts DEF Structure, PlansOK, Planned, PlannedOnlyWhenDown
<1>4. ~ ManualReconnect => [](~ ManualReconnect)
  OBVIOUS
<1> QED
  BY <1>1, <1>2, <1>3, <1>4, ServerInvariant, PTL DEF Spec
=============================================================================
