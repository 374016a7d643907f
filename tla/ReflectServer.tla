---------------------------- MODULE ReflectServer ----------------------------
(***************************************************************************)
(* reflector/ReflectServer and reflector/AbstractReflectSession: how       *)
(* sessions are attached to a server, served by its event loop, connected, *)
(* disconnected and reconnected, ended and detached.  A session's user     *)
(* code runs inside the callbacks of the loop and may call the server at   *)
(* any such point; a session that ends is therefore only marked (a "lame   *)
(* duck") and detached at the start of the next cycle.                     *)
(*                                                                         *)
(* PulseNode says when Pulse() is called; here a timer is never set,       *)
(* running or due.  A file descriptor is taken to be used once per cycle.  *)
(***************************************************************************)
EXTENDS Naturals, Sequences

CONSTANTS
  MaxSessions,      \* bound: the sessions there ever are
  TimeLimits,       \* whether _maxAsyncConnectPeriod may be set, not set
  ManualReconnect,  \* whether user code calls Reconnect() for a session that
                    \* is going to reconnect anyway
  CallsInCycleBegin,\* whether EventLoopCycleBegins() calls the server
  MaxCalls          \* bound: calls of user code, additions not counted

ASSUME ServerAssumption ==
  /\ {ManualReconnect, CallsInCycleBegin} \cup TimeLimits \subseteq BOOLEAN
  /\ {MaxSessions, MaxCalls} \subseteq Nat

Session == 1 .. MaxSessions   \* by their ids, in the order they are added
NoSession == 0
Idle == <<>>                  \* AttachNewSession() is not in progress

Invalid == {"invalid"}

Timer == {"never", "running", "due"}
Socket == {"none", "connecting", "open", "broken"}

VARIABLES
  ses,       \* the members of each session
  sessions,  \* _sessions, in the order of the table
  lame,      \* _lameDuckSessions
  asleep,    \* _computerIsAboutToSleep
  going,     \* _keepServerGoing: "yes", "ended", or "over" once the loop's
             \* condition has been found false
  phase,     \* where the event loop is
  at,        \* the index of the session that is served or detached
  ready,     \* sessions whose socket was ready when WaitForEvents() returned
  adding,    \* the session in AttachNewSession(), how and for whom, or Idle
  calls

vars == <<ses, sessions, lame, asleep, going, phase, at, ready, adding, calls>>

NewSession ==
  [place |-> "new",         \* "here" from AttachNewSession() to the detachment
   full |-> FALSE,          \* _fullyAttached
   detaches |-> 0,          \* calls of AboutToDetachFromServer()
   dest |-> FALSE,          \* _asyncConnectDest is valid
   auto |-> FALSE,          \* _autoReconnectDelay is not MUSCLE_TIME_NEVER
   limited |-> FALSE,       \* nor is _maxAsyncConnectPeriod
   sock |-> "none",         \* the socket of the gateway's DataIO
   connecting |-> FALSE,    \* _connectingAsync
   connected |-> FALSE,     \* _isConnected
   reconnect |-> "never",   \* _reconnectTime
   timeout |-> "never",     \* _asyncConnectTimeoutTime
   pulse |-> Invalid,       \* the timers that GetPulseTime() counted, or Invalid
   started |-> FALSE,       \* a connection was attempted
   failed |-> FALSE,        \* the last Reconnect() failed, and was not Pulse()'s
   wake |-> "no"]           \* its entry in _sessionsToReconnectOnWakeup

Init ==
  /\ ses = [s \in Session |-> NewSession] /\ sessions = <<>> /\ lame = {}
  /\ asleep = FALSE /\ going = "yes" /\ phase = "setup" /\ at = 0 /\ ready = {}
  /\ adding = Idle /\ calls = 0

Here == {sessions[i] : i \in DOMAIN sessions}

-----------------------------------------------------------------------------
(* What happens to the members of one session *)

(* SetConnectingAsync                                                      *)
SetConnectingAsync(r, flag) ==
  [r EXCEPT !.connecting = flag, !.pulse = Invalid,
            !.timeout = IF flag /\ r.limited THEN "running" ELSE "never"]

PlanForReconnect(r) ==
  [r EXCEPT !.reconnect = IF r.auto THEN "running" ELSE "never", !.pulse = Invalid]

(* Mutant: a connect in progress is not cancelled.                         *)
Disconnected_StillConnecting(r) ==
  [IF r.auto THEN PlanForReconnect(r) ELSE r EXCEPT !.sock = "none", !.connected = FALSE]

(* ReflectServer::DisconnectSession with ClientConnectionClosed, which     *)
(* lets a session live that will reconnect; its socket is shut down.       *)
Disconnected(r) ==
  LET c == [SetConnectingAsync(r, FALSE) EXCEPT !.connected = FALSE] IN
  [IF c.auto THEN PlanForReconnect(c) ELSE c EXCEPT !.sock = "none"]

(* What ConnectAsync does at once; if it fails, a socket whose other end   *)
(* is closed stands for the connection.  "error": no socket, DataIO or     *)
(* gateway can be made, and Reconnect returns an error.                    *)
Outcome == {"ready", "pending", "refused"}
Attempt == Outcome \cup {"error"}

Connect(r, outcome) ==
  [SetConnectingAsync(r, outcome = "pending") EXCEPT
    !.connected = outcome = "ready", !.started = TRUE, !.failed = FALSE,
    !.sock = CASE outcome = "ready"   -> "open"
               [] outcome = "pending" -> "connecting"
               [] outcome = "refused" -> "broken"
               [] OTHER               -> "none"]

(* Reconnect for another caller than Pulse: no further attempt is planned  *)
(* if it fails.  User code is told; a computer that wakes up is not.       *)
Reconnected(r, outcome) == [Connect(r, outcome) EXCEPT !.failed = outcome = "error"]

(* Mutant: after an error, there is no further attempt.                    *)
AutoReconnect_Once(r, outcome) == [Connect(r, outcome) EXCEPT !.reconnect = "never"]

(* AbstractReflectSession::Pulse when the time to reconnect has come       *)
AutoReconnect(r, outcome) ==
  LET c == [Connect(r, outcome) EXCEPT !.reconnect = "never"] IN
  IF outcome = "error" THEN PlanForReconnect(c) ELSE c

(* GetPulseTime: which timers count, and what Pulse finds due              *)
Counted(r) ==
  (IF r.reconnect # "never" /\ r.wake = "no" THEN {"reconnect"} ELSE {}) \cup
  (IF r.timeout # "never" THEN {"timeout"} ELSE {})

ReconnectDue(r) == r.reconnect = "due" /\ r.wake = "no"
TimeoutDue(r) == r.connecting /\ r.timeout = "due"

(* Its pulse time has come: PulseNode calls Pulse then, and only then.     *)
PulseDue(r) == ("reconnect" \in r.pulse /\ r.reconnect = "due")
                 \/ ("timeout" \in r.pulse /\ r.timeout = "due")

(* FinalizeAsyncConnect finds the connection made.                         *)
Finalized(r) == [SetConnectingAsync(r, FALSE) EXCEPT !.connected = TRUE]

-----------------------------------------------------------------------------
(* Attaching *)

(* User code runs in AttachedToServer(), in the callbacks of the session   *)
(* that is served, and in AboutToDetachFromServer().                       *)
UserRuns ==
  \/ adding # Idle \/ phase \in {"setup", "session", "detach", "cleaning"}
  \/ phase = "begin" /\ CallsInCycleBegin

Call == UserRuns /\ calls < MaxCalls /\ calls' = calls + 1

(* AttachNewSession, up to the call of AttachedToServer                    *)
Attach(s, r, how, old) ==
  /\ adding = Idle /\ ses[s].place = "new"
  /\ \A t \in 1 .. s - 1 : ses[t].place # "new"
  /\ ses' = [ses EXCEPT ![s] = [r EXCEPT !.place = "here"]]
  /\ sessions' = Append(sessions, s)
  /\ adding' = [new |-> s, how |-> how, old |-> old]

AddNewConnectSession(s, outcome, limited) ==
  LET r == [NewSession EXCEPT !.dest = TRUE] IN
  /\ UserRuns
  /\ IF asleep THEN Attach(s, [r EXCEPT !.wake = "reconnect"], "dormant", NoSession)
     ELSE Attach(s, Connect([r EXCEPT !.limited = limited], outcome), "connect", NoSession)
  /\ UNCHANGED <<lame, asleep, going, phase, at, ready, calls>>

AddNewDormantConnectSession(s) ==
  /\ UserRuns /\ Attach(s, [NewSession EXCEPT !.dest = TRUE], "dormant", NoSession)
  /\ UNCHANGED <<lame, asleep, going, phase, at, ready, calls>>

(* The new session has the old one's gateway while it is attached.         *)
ReplaceSession(s, old) ==
  /\ UserRuns /\ old \in Here
  /\ Attach(s, [NewSession EXCEPT !.sock = ses[old].sock], "replace", old)
  /\ UNCHANGED <<lame, asleep, going, phase, at, ready, calls>>

(* AttachedToServer succeeds: the reconnect delay is set only now.         *)
AttachSucceeds(auto, limited) ==
  /\ adding # Idle /\ adding' = Idle
  /\ LET s == adding.new   r == [ses[s] EXCEPT !.full = TRUE] IN
     CASE adding.how = "replace" ->
            /\ ses' = [ses EXCEPT ![s] = r, ![adding.old].sock = "none"]
            /\ lame' = lame \cup {adding.old}
            /\ ready' = IF adding.old \in ready
                        THEN (ready \ {adding.old}) \cup {s} ELSE ready
       [] adding.how = "dormant" ->
            /\ ses' = [ses EXCEPT ![s] =
                        [r EXCEPT !.auto = auto, !.limited = limited, !.pulse = Invalid]]
            /\ UNCHANGED <<lame, ready>>
       [] adding.how = "connect" ->
            /\ ses' = [ses EXCEPT ![s] = [r EXCEPT !.auto = auto, !.pulse = Invalid]]
            /\ UNCHANGED <<lame, ready>>
       [] OTHER -> ses' = [ses EXCEPT ![s] = r] /\ UNCHANGED <<lame, ready>>
  /\ UNCHANGED <<sessions, asleep, going, phase, at, calls>>

(* What becomes of its other members does not matter any more.             *)
Detached(r) == [NewSession EXCEPT !.place = "gone", !.detaches = r.detaches]

AboutToDetachFromServer(r) ==
  [r EXCEPT !.full = FALSE, !.detaches = @ + 1]

IndexOf(seq, s) == CHOOSE i \in DOMAIN seq : seq[i] = s

(* _sessions without session s, which is in it                             *)
Without(seq, s) ==
  SubSeq(seq, 1, IndexOf(seq, s) - 1) \o SubSeq(seq, IndexOf(seq, s) + 1, Len(seq))

(* Mutant: a session that was attached only for a moment is not told.      *)
AttachFails_Untold ==
  /\ adding # Idle /\ adding' = Idle
  /\ ses' = [ses EXCEPT ![adding.new] = Detached(@)]
  /\ sessions' = Without(sessions, adding.new)
  /\ UNCHANGED <<lame, asleep, going, phase, at, ready, calls>>

(* AttachedToServer fails: everything is rolled back.                      *)
AttachFails ==
  /\ adding # Idle /\ adding' = Idle
  /\ ses' = [ses EXCEPT ![adding.new] = Detached(AboutToDetachFromServer(@))]
  /\ sessions' = Without(sessions, adding.new)
  /\ UNCHANGED <<lame, asleep, going, phase, at, ready, calls>>

-----------------------------------------------------------------------------
(* Calls of user code about sessions that are attached *)

(* EndSession: AddLameDuckSession                                          *)
EndSession(s) ==
  /\ Call /\ s \in Here /\ lame' = lame \cup {s}
  /\ UNCHANGED <<ses, sessions, asleep, going, phase, at, ready, adding>>

(* The lame ducks after sessions S have been disconnected                  *)
LameAfter(S) == lame \cup {s \in S : ~ ses[s].auto}

(* Only sessions that have something to disconnect are told to.            *)
DisconnectSession(s) ==
  /\ Call /\ s \in Here /\ adding = Idle
  /\ ses[s].sock # "none"
  /\ ses' = [ses EXCEPT ![s] = Disconnected(@)]
  /\ lame' = LameAfter({s}) /\ ready' = ready \ {s}
  /\ UNCHANGED <<sessions, asleep, going, phase, at, adding>>

(* A session that is being replaced shares its gateway with the new one:   *)
(* both are left alone.                                                    *)
Reconnect(s, outcome) ==
  /\ Call /\ s \in Here /\ ses[s].dest
  /\ adding # Idle => adding.how # "replace" \/ s \notin {adding.old, adding.new}
  /\ ManualReconnect \/ (ses[s].reconnect = "never" /\ ses[s].wake = "no")
  /\ ses' = [ses EXCEPT ![s] = Reconnected(@, outcome)] /\ ready' = ready \ {s}
  /\ UNCHANGED <<sessions, lame, asleep, going, phase, at, adding>>

(* Sessions whose socket may have the address of a peer                    *)
Connected ==
  {s \in Here : ses[s].sock = "open" \/ (ses[s].sock = "broken" /\ ses[s].connected)}

(* SetComputerIsAboutToSleep(true): the connections to other computers are *)
(* disconnected, those that are local or whose peer is unknown are not.    *)
ComputerIsAboutToSleep(remote) ==
  /\ Call /\ adding = Idle /\ ~ asleep /\ asleep' = TRUE
  /\ remote \subseteq Connected
  /\ lame' = LameAfter(remote) /\ ready' = ready \ remote
  /\ ses' = [s \in Session |->
       IF s \notin remote THEN ses[s]
       ELSE [Disconnected(ses[s]) EXCEPT
              !.wake = IF ses[s].dest /\ ses[s].auto /\ s \notin lame' THEN "timer" ELSE @]]
  /\ UNCHANGED <<sessions, going, phase, at, adding>>

(* Mutant: the pulse time of a session that reconnects is not updated.     *)
Woken_Silently(r, outcome) ==
  IF r.wake = "reconnect" THEN Reconnected([r EXCEPT !.wake = "no"], outcome)
  ELSE [r EXCEPT !.wake = "no"]

(* SetComputerIsAboutToSleep(false), which ignores what Reconnect returns  *)
Woken(r, outcome) ==
  CASE r.wake = "no"        -> r
    [] r.wake = "timer"     -> [r EXCEPT !.wake = "no", !.pulse = Invalid]
    [] r.wake = "reconnect" -> Reconnected([r EXCEPT !.wake = "no"], outcome)

ComputerJustWokeUp(outcomes) ==
  /\ Call /\ adding = Idle /\ asleep /\ asleep' = FALSE
  /\ ses' = [s \in Session |->
               IF s \in Here THEN Woken(ses[s], outcomes[s]) ELSE [ses[s] EXCEPT !.wake = "no"]]
  /\ ready' = {s \in ready : ses[s].wake # "reconnect"}
  /\ UNCHANGED <<sessions, lame, going, phase, at, adding>>

EndServer ==
  /\ Call /\ going = "yes" /\ going' = "ended"
  /\ UNCHANGED <<ses, sessions, lame, asleep, phase, at, ready, adding>>

-----------------------------------------------------------------------------
(* The network and the clock *)

(* A connection attempt succeeds or fails, or a connection breaks.  The    *)
(* loop can tell only then; a change at another time is as if it came now. *)
SocketChanges(s) ==
  /\ adding = Idle /\ phase \in {"wait", "session"}
  /\ \/ ses[s].sock = "connecting" /\ ses' = [ses EXCEPT ![s].sock = "open"]
     \/ ses[s].sock \in {"connecting", "open"} /\ ses' = [ses EXCEPT ![s].sock = "broken"]
  /\ UNCHANGED <<sessions, lame, asleep, going, phase, at, ready, adding, calls>>

ReconnectTimer(s) ==
  /\ ses[s].reconnect = "running" /\ ses' = [ses EXCEPT ![s].reconnect = "due"]
  /\ UNCHANGED <<sessions, lame, asleep, going, phase, at, ready, adding, calls>>

TimeoutTimer(s) ==
  /\ ses[s].timeout = "running" /\ ses' = [ses EXCEPT ![s].timeout = "due"]
  /\ UNCHANGED <<sessions, lame, asleep, going, phase, at, ready, adding, calls>>

-----------------------------------------------------------------------------
(* The event loop *)

Loop(p) == phase = p /\ adding = Idle

(* The condition of the loop is tested before the lame ducks are cleared:  *)
(* AboutToDetachFromServer that ends the server does so a cycle later.     *)
TestKeepServerGoing ==
  /\ phase' = "clear" /\ going' = IF going = "yes" THEN "yes" ELSE "over"
  /\ UNCHANGED <<ses, sessions, lame, asleep, at, ready, adding, calls>>

(* DoFirstTimeServerSetup has called ReadyToRun.                           *)
ServerProcessLoop == Loop("setup") /\ TestKeepServerGoing

(* ClearLameDucks: one of them (the order does not matter) is told.        *)
DetachDuck(s) ==
  /\ Loop("clear") /\ s \in lame \cap Here /\ phase' = "detach"
  /\ ses' = [ses EXCEPT ![s] = AboutToDetachFromServer(@)]
  /\ at' = IndexOf(sessions, s)
  /\ UNCHANGED <<sessions, lame, asleep, going, ready, adding, calls>>

DropDuck(s) ==
  /\ Loop("clear") /\ s \in lame \ Here /\ lame' = lame \ {s}
  /\ UNCHANGED <<ses, sessions, asleep, going, phase, at, ready, adding, calls>>

RemoveDuck ==
  LET s == sessions[at] IN
  /\ Loop("detach") /\ phase' = "clear" /\ at' = 0
  /\ ses' = [ses EXCEPT ![s] = Detached(@)]
  /\ sessions' = Without(sessions, s) /\ lame' = lame \ {s} /\ ready' = ready \ {s}
  /\ UNCHANGED <<asleep, going, adding, calls>>

(* Mutant: the server does not wait for the last lame duck to be detached. *)
EventLoopCycleBegins_Early ==
  /\ Loop("clear") /\ phase' = IF going = "over" THEN "cleanup" ELSE "begin"
  /\ UNCHANGED <<ses, sessions, lame, asleep, going, at, ready, adding, calls>>

(* The lame ducks are cleared once more after the loop; the program then   *)
(* calls Cleanup.                                                          *)
EventLoopCycleBegins ==
  /\ Loop("clear") /\ lame = {} /\ phase' = IF going = "over" THEN "cleanup" ELSE "begin"
  /\ UNCHANGED <<ses, sessions, lame, asleep, going, at, ready, adding, calls>>

PrepareToWaitForEvents ==
  /\ Loop("begin") /\ phase' = "wait"
  /\ ses' = [s \in Session |->
       IF s \in Here /\ ses[s].pulse = Invalid
       THEN [ses[s] EXCEPT !.pulse = Counted(ses[s])] ELSE ses[s]]
  /\ UNCHANGED <<sessions, lame, asleep, going, at, ready, adding, calls>>

(* Sockets that are readable (end of file), or writable after a connect    *)
ReadyNow ==
  {s \in Here : ses[s].sock = "broken" \/ (ses[s].sock = "open" /\ ses[s].connecting)}

HandleEvents ==
  /\ at' = 1 /\ phase' = IF sessions = <<>> THEN "accept" ELSE "pulse"
  /\ ready' = ReadyNow
  /\ UNCHANGED <<ses, sessions, lame, asleep, going, adding, calls>>

(* WaitForEvents returns for a timer or one of these sockets, or because   *)
(* a client sends something, connects, or can be sent something.           *)
WaitForEvents ==
  /\ Loop("wait") /\ HandleEvents
  /\ ReadyNow # {} \/ \E s \in Here : PulseDue(ses[s])

WaitForTraffic == Loop("wait") /\ HandleEvents

Current == sessions[at]

(* CallPulseAux with AbstractReflectSession::Pulse: it is time to try to   *)
(* reconnect, or else to give up an attempt to connect.                    *)
PulseReconnects(outcome) ==
  LET r == ses[Current] IN
  /\ Loop("pulse") /\ phase' = "session" /\ PulseDue(r) /\ ReconnectDue(r)
  /\ ses' = [ses EXCEPT ![Current] = [AutoReconnect(r, outcome) EXCEPT !.pulse = Invalid]]
  /\ ready' = ready \ {Current}
  /\ UNCHANGED <<sessions, lame, asleep, going, at, adding, calls>>

(* Mutant: only the flags are reset; the attempt goes on.                  *)
GivenUp_SocketOpen(r) == [Disconnected(r) EXCEPT !.sock = r.sock]

GivenUp(r) == [Disconnected(r) EXCEPT !.pulse = Invalid]

PulseTimesOut ==
  LET r == ses[Current] IN
  /\ Loop("pulse") /\ phase' = "session"
  /\ PulseDue(r) /\ ~ ReconnectDue(r) /\ TimeoutDue(r)
  /\ ses' = [ses EXCEPT ![Current] = GivenUp(@)]
  /\ lame' = LameAfter({Current}) /\ ready' = ready \ {Current}
  /\ UNCHANGED <<sessions, asleep, going, at, adding, calls>>

NoPulse ==
  LET r == ses[Current] IN
  /\ Loop("pulse") /\ phase' = "session"
  /\ ~ (PulseDue(r) /\ (ReconnectDue(r) \/ TimeoutDue(r)))
  /\ ses' = [ses EXCEPT ![Current].pulse = IF PulseDue(r) THEN Invalid ELSE @]
  /\ UNCHANGED <<sessions, lame, asleep, going, at, ready, adding, calls>>

EndTurn ==
  /\ IF at < Len(sessions) THEN at' = at + 1 /\ phase' = "pulse"
     ELSE at' = 0 /\ phase' = "accept"
  /\ UNCHANGED <<sessions, asleep, going, adding, calls>>

(* A read error, a failed connect, a write error or an output stall        *)
ConnectionLost ==
  LET r == ses[Current] IN
  /\ Loop("session")
  /\ \/ Current \in ready /\ r.sock = "broken"
     \/ r.sock \in {"open", "broken"} /\ ~ r.connecting
  /\ ses' = [ses EXCEPT ![Current] = Disconnected(@)]
  /\ lame' = LameAfter({Current}) /\ ready' = ready \ {Current}
  /\ EndTurn

AsyncConnectCompleted ==
  /\ Loop("session") /\ Current \in ready
  /\ ses[Current].sock = "open" /\ ses[Current].connecting
  /\ ses' = [ses EXCEPT ![Current] = Finalized(@)]
  /\ ready' = ready \ {Current}
  /\ EndTurn /\ UNCHANGED lame

(* Bytes are transferred, or there is nothing to do.                       *)
Transfer ==
  /\ Loop("session")
  /\ Current \in ready => ~ ses[Current].connecting /\ ses[Current].sock # "broken"
  /\ ready' = ready \ {Current}
  /\ EndTurn /\ UNCHANGED <<ses, lame>>

(* DoAccept: the factory creates a session for a client that connected.    *)
DoAccept(s) ==
  /\ Loop("accept")
  /\ Attach(s, [NewSession EXCEPT !.sock = "open", !.connected = TRUE], "accept", NoSession)
  /\ UNCHANGED <<lame, asleep, going, phase, at, ready, calls>>

EventLoopCycleEnds == Loop("accept") /\ TestKeepServerGoing

(* Cleanup                                                                 *)
CleanupDetaches ==
  /\ Loop("cleanup") /\ sessions # <<>> /\ phase' = "cleaning" /\ at' = 1
  /\ ses' = [ses EXCEPT ![Head(sessions)] = AboutToDetachFromServer(@)]
  /\ UNCHANGED <<sessions, lame, asleep, going, ready, adding, calls>>

CleanupRemoves ==
  /\ Loop("cleaning") /\ phase' = "cleanup" /\ at' = 0
  /\ ses' = [ses EXCEPT ![Head(sessions)] = Detached(@)]
  /\ sessions' = Tail(sessions) /\ lame' = lame \cup {Head(sessions)}
  /\ UNCHANGED <<asleep, going, ready, adding, calls>>

CleanupEnds ==
  /\ Loop("cleanup") /\ sessions = <<>> /\ phase' = "stopped" /\ lame' = {}
  /\ UNCHANGED <<ses, sessions, asleep, going, at, ready, adding, calls>>

-----------------------------------------------------------------------------
UserCalls ==
  \/ \E s \in Session :
       \/ EndSession(s) \/ DisconnectSession(s) \/ AddNewDormantConnectSession(s)
       \/ \E o \in Attempt : Reconnect(s, o)
       \/ \E o \in Outcome, limited \in TimeLimits : AddNewConnectSession(s, o, limited)
       \/ \E old \in Session : ReplaceSession(s, old)
  \/ \E remote \in SUBSET Session : ComputerIsAboutToSleep(remote)
  \/ \E o \in [Session -> Attempt] : ComputerJustWokeUp(o)
  \/ EndServer

(* What the server's thread does by itself                                 *)
ServerSteps ==
  \/ \E auto \in BOOLEAN, limited \in TimeLimits : AttachSucceeds(auto, limited)
  \/ AttachFails
  \/ ServerProcessLoop \/ RemoveDuck \/ EventLoopCycleBegins
  \/ \E s \in Session : DetachDuck(s) \/ DropDuck(s)
  \/ PrepareToWaitForEvents \/ WaitForEvents
  \/ \E o \in Attempt : PulseReconnects(o)
  \/ PulseTimesOut \/ NoPulse \/ ConnectionLost \/ AsyncConnectCompleted \/ Transfer
  \/ EventLoopCycleEnds \/ CleanupDetaches \/ CleanupRemoves \/ CleanupEnds

Next ==
  \/ UserCalls \/ ServerSteps \/ WaitForTraffic
  \/ \E s \in Session :
       SocketChanges(s) \/ ReconnectTimer(s) \/ TimeoutTimer(s) \/ DoAccept(s)

Spec == Init /\ [][Next]_vars

(* The server's thread runs, callbacks return, and time passes.            *)
FairSpec ==
  /\ Spec /\ WF_vars(ServerSteps)
  /\ \A s \in Session : WF_vars(ReconnectTimer(s)) /\ WF_vars(TimeoutTimer(s))

-----------------------------------------------------------------------------
(* The server's tables and the members of its sessions.                    *)
ServerTypeOK ==
  /\ \A s \in Session :
       /\ ses[s].place \in {"new", "here", "gone"} /\ ses[s].sock \in Socket
       /\ {ses[s].reconnect, ses[s].timeout} \subseteq Timer
       /\ ses[s].wake \in {"no", "timer", "reconnect"}
       /\ (s \in Here <=> ses[s].place = "here")
  /\ lame \subseteq Session /\ ready \subseteq Session
  /\ phase \in {"pulse", "session", "detach", "cleaning"} => at \in DOMAIN sessions

(* AboutToDetachFromServer() is called exactly once for every session that *)
(* was attached, before it leaves the server, also if it is ended again    *)
(* and again, from AttachedToServer() that then fails, from               *)
(* AboutToDetachFromServer() itself, or when the server is cleaned up      *)
(* (AttachNewSession, ClearLameDucks, Cleanup).                            *)
DetachedExactlyOnce ==
  \A s \in Session :
    ses[s].detaches =
      IF ses[s].place = "gone" \/ (phase \in {"detach", "cleaning"} /\ Current = s)
      THEN 1 ELSE 0

(* A session is marked as connected or connecting, and times out, only     *)
(* while it has a socket for it: an answer that comes late, after a        *)
(* timeout, finds nothing to connect (Pulse, FinalizeAsyncConnect).  A     *)
(* session that was replaced has lost its socket but not its flags.        *)
FlagsMatchSocket ==
  /\ ServerTypeOK
  /\ \A s \in Here \ lame :
       /\ ses[s].connecting => ses[s].sock # "none" /\ ~ ses[s].connected
       /\ ses[s].connected => ses[s].sock \in {"open", "broken"}
       /\ ses[s].timeout # "never" => ses[s].connecting
       /\ s \in ready => ses[s].sock # "none"

(* A session that reconnects by itself is never forgotten: as long as it   *)
(* stays, it has a socket, a planned reconnect or an entry for the time    *)
(* the computer wakes up, however connecting, disconnecting, failing and   *)
(* sleeping follow each other (DisconnectSession, Pulse,                   *)
(* SetComputerIsAboutToSleep).  Two cases are excluded: a session that was *)
(* added dormant and never connected, and one whose last Reconnect() could *)
(* not even make a socket.  When user code made that call, it was told.    *)
(* When the computer woke up, nobody was: that session is forgotten, since *)
(* SetComputerIsAboutToSleep ignores the error.                            *)
NeverForgotten ==
  \A s \in Here \ lame :
    ses[s].auto /\ ses[s].sock = "none" /\ ses[s].reconnect = "never" =>
      ses[s].wake = "reconnect" \/ ~ ses[s].started \/ ses[s].failed

(* A reconnect is planned only for a session without a connection: the     *)
(* timer never replaces a connection that works (Pulse).                   *)
PlannedOnlyWhenDown ==
  \A s \in Here : ses[s].reconnect # "never" => ses[s].sock = "none"

(* A session that has ended is detached from the server (ClearLameDucks).  *)
EndedIsDetached ==
  \A s \in Session : s \in lame ~> ses[s].place = "gone"

(* A reconnect whose time has come is attempted, and a connect that takes  *)
(* too long is given up, even if nothing else wakes the server, unless the *)
(* session or the server ends: whatever changes the times also has them    *)
(* counted again (GetPulseTime, Pulse, SetComputerIsAboutToSleep).         *)
TimersAreServed ==
  \A s \in Session :
    ReconnectDue(ses[s]) \/ TimeoutDue(ses[s])
    ~> ~ (ReconnectDue(ses[s]) \/ TimeoutDue(ses[s])) \/ s \in lame \/ going # "yes"
=============================================================================
