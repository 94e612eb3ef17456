--------------------------- MODULE ProxyConnection ---------------------------
(***************************************************************************)
(* The connection lifecycle of WebSocketProxyClient (src/src/client.js):   *)
(* connect(), close(), updateConfig(), the four events of a WebSocket, the *)
(* connect timeout, the application heartbeat and the reconnect timer.     *)
(*                                                                         *)
(* A socket is an identity, because what the code has to get right is      *)
(* which socket an event belongs to: every listener, and the connect       *)
(* timeout, compare their own socket with this.ws before they touch the    *)
(* client.  JavaScript runs a callback to its end, so one callback is one  *)
(* action and everything between two callbacks may interleave; but where   *)
(* it emits an event and goes on, the handlers of the app run in between   *)
(* and may call the client.  Such a callback is cut at that point: `rest`  *)
(* says what is left of it.  (Where the handlers can make no difference to *)
(* what is left, after `connect` and `token`, or nothing is left, it is    *)
(* not cut.)                                                               *)
(***************************************************************************)
EXTENDS Integers, FiniteSets

CONSTANTS
  Socket,                \* identities of WebSocket objects
  NoSocket,              \* this.ws === null
  Timer,                 \* identities of the timeouts that call _open()
  NoTimer,               \* this._reconnectTimer === null
  Limits,                \* values of the option maxReconnectAttempts
  EnableHeartbeat,       \* the option of that name
  HasConnectTimeout      \* connectTimeout > 0

ASSUME ConnectionAssumption ==
  /\ NoSocket \notin Socket
  /\ NoTimer \notin Timer
  /\ Limits \subseteq Nat
  /\ EnableHeartbeat \in BOOLEAN
  /\ HasConnectTimeout \in BOOLEAN

VARIABLES
  autoReconnect,   \* this.autoReconnect
  maxReconnectAttempts,  \* this.maxReconnectAttempts
  ws,              \* this.ws
  connected,       \* this._connected
  attempts,        \* this._reconnectAttempts
  retryTimers,     \* the armed timeouts that will call _open()
  reconnectTimer,  \* the handle this._reconnectTimer (may name a spent one)
  hbTimer,         \* this._hbTimer is armed
  hbDeadTimer,     \* this._hbDeadTimer is armed
  sock,            \* the state of every socket object
  openTimer,       \* per socket: its connect timeout is armed
  token,           \* what this.token says of the connection in this.ws
  waiter,          \* a promise of connect() waits in _connectResolve/_connectReject
  rest,            \* what is left of a callback whose event is being handled
  released,        \* history: close() was the app's last word (see Close)
  overtaken        \* history: a retry was armed after the app had called connect()
                   \* or close() in a handler of the same callback

config   == <<autoReconnect, maxReconnectAttempts>>
appVars  == <<waiter, released>>
linkVars == <<ws, connected, sock, openTimer, token>>
retryVars == <<attempts, retryTimers, reconnectTimer>>
hbVars   == <<hbTimer, hbDeadTimer>>
restVars == <<rest, overtaken>>
vars == <<autoReconnect, maxReconnectAttempts, ws, connected, attempts, retryTimers,
          reconnectTimer, hbTimer, hbDeadTimer, sock, openTimer, token, waiter, rest,
          released, overtaken>>

(***************************************************************************)
(* The states of a socket object.  "open" and "ready" are readyState OPEN, *)
(* before and after the proxy's `connected` frame; "aborting" is close()   *)
(* called while CONNECTING, "closing" close() called while OPEN; "failing" *)
(* has fired `error` and still owes its `close`.  "closed" has fired its   *)
(* `close` and is still what this.ws refers to; one nobody refers to is    *)
(* "free", as is one that was never created.                               *)
(***************************************************************************)
SocketState == {"free", "connecting", "open", "ready",
                "aborting", "closing", "failing", "closed"}
Live == {"connecting", "open", "ready"}

(***************************************************************************)
(* What is left of a callback once the handlers of its event return: of    *)
(* `error`, `close`, _onConnectTimeout() and _onHeartbeatDead(), with      *)
(* their locals wasConnected and dead; "retry" is the end of               *)
(* _scheduleReconnect(), from `reconnecting` on.  `called`: a handler has  *)
(* called connect() or close().                                            *)
(***************************************************************************)
Rest == [of : {"nothing", "error", "close", "timeout", "dead", "retry"},
         wasConnected : BOOLEAN, dead : Socket \cup {NoSocket}, called : BOOLEAN]
Nothing == [of |-> "nothing", wasConnected |-> FALSE, dead |-> NoSocket, called |-> FALSE]

Idle == rest.of = "nothing"

TypeOK ==
  /\ autoReconnect \in BOOLEAN
  /\ maxReconnectAttempts \in Limits
  /\ ws \in Socket \cup {NoSocket}
  /\ connected \in BOOLEAN
  /\ attempts \in Nat
  /\ attempts = 0 \/ \E limit \in Limits : attempts <= limit
  /\ retryTimers \in SUBSET Timer
  /\ reconnectTimer \in Timer \cup {NoTimer}
  /\ hbTimer \in BOOLEAN
  /\ hbDeadTimer \in BOOLEAN
  /\ sock \in [Socket -> SocketState]
  /\ openTimer \in [Socket -> BOOLEAN]
  /\ token \in {"none", "current", "stale"}
  /\ waiter \in BOOLEAN
  /\ rest \in Rest
  /\ released \in BOOLEAN
  /\ overtaken \in BOOLEAN

\* A client built with autoReconnect on or off, before its first connect().
Init ==
  /\ autoReconnect \in BOOLEAN
  /\ maxReconnectAttempts \in Limits
  /\ ws = NoSocket
  /\ connected = FALSE
  /\ attempts = 0
  /\ retryTimers = {}
  /\ reconnectTimer = NoTimer
  /\ hbTimer = FALSE
  /\ hbDeadTimer = FALSE
  /\ sock = [s \in Socket |-> "free"]
  /\ openTimer = [s \in Socket |-> FALSE]
  /\ token = "none"
  /\ waiter = FALSE
  /\ rest = Nothing
  /\ released = FALSE
  /\ overtaken = FALSE

-----------------------------------------------------------------------------
(* Helpers *)

\* What WebSocket.close() does to a socket, as the code sees it.
AfterClose(state) ==
  CASE state = "connecting"      -> "aborting"
    [] state \in {"open", "ready"} -> "closing"
    [] OTHER                       -> state

\* A socket this.ws stops referring to without closing it.
Unreferenced(state) == IF state = "closed" THEN "free" ELSE state

\* Seeded fault: the half-open attempt _open() replaces is not closed.
BugReplaceWithoutClosing(state) == Unreferenced(state)

\* The state of the previous this.ws once _open() has replaced it.
AfterReplace(state) ==
  IF state = "connecting" THEN AfterClose(state) ELSE Unreferenced(state)

\* this.token keeps its value when the connection it came with ends.
Expired(tok) == IF tok = "current" THEN "stale" ELSE tok

\* Seeded fault: the ping's deadline outlives the heartbeat.
BugDeadlineSurvives == hbTimer' = FALSE /\ UNCHANGED hbDeadTimer

\* _stopHeartbeat()
StopHeartbeat == hbTimer' = FALSE /\ hbDeadTimer' = FALSE

\* Seeded fault: only a connection that needed no retry is watched.
BugHeartbeatFirstTimeOnly ==
  IF EnableHeartbeat /\ attempts = 0 THEN hbTimer' = TRUE /\ hbDeadTimer' = FALSE
                                     ELSE UNCHANGED hbVars

\* _startHeartbeat()
StartHeartbeat ==
  IF EnableHeartbeat THEN hbTimer' = TRUE /\ hbDeadTimer' = FALSE
                     ELSE UNCHANGED hbVars

\* No more attempts than maxReconnectAttempts (_scheduleReconnect).
LimitReached == attempts >= maxReconnectAttempts

\* _scheduleReconnect(), up to `reconnecting`; at the limit it only emits
\* `reconnect_failed`, which ends the callback.
ScheduleReconnect ==
  IF LimitReached
    THEN rest' = Nothing /\ UNCHANGED attempts
    ELSE rest' = [rest EXCEPT !.of = "retry"] /\ attempts' = attempts + 1

ScheduleReconnectIf(condition) ==
  IF condition THEN ScheduleReconnect ELSE rest' = Nothing /\ UNCHANGED attempts

\* connect() or close(), if it is called by a handler of a callback that may go
\* on to schedule a retry.
CalledInHandler ==
  rest' = [rest EXCEPT !.called = rest.of \in {"close", "timeout", "dead", "retry"}]

\* Seeded fault: the handle is forgotten but its timeout stays armed.
BugForgetTimer == reconnectTimer' = NoTimer /\ UNCHANGED retryTimers

\* Clearing this._reconnectTimer, in connect() and in close().
ClearReconnectTimer ==
  /\ retryTimers' = retryTimers \ {reconnectTimer}
  /\ reconnectTimer' = NoTimer

\* The waiting connect() promise, if there is one, settles and leaves its slot.
SettleWaiter == waiter' = FALSE

\* Seeded fault: nothing limits how long the handshake may take.
BugNoConnectTimeout == FALSE

\* Whether _open() arms the connect timeout of the socket it creates.
ArmsConnectTimeout == HasConnectTimeout

\* _open(): a new socket takes this.ws; one still CONNECTING is closed first.
OpenSocket ==
  \E s \in Socket :
    /\ sock[s] = "free"
    /\ sock' = [x \in Socket |-> IF x = s THEN "connecting"
                                 ELSE IF x = ws THEN AfterReplace(sock[x])
                                 ELSE sock[x]]
    /\ ws' = s
    /\ openTimer' = [openTimer EXCEPT ![s] = ArmsConnectTimeout]
    /\ token' = Expired(token)
    /\ UNCHANGED connected

-----------------------------------------------------------------------------
(* The application, between two callbacks or from one of its handlers. *)

\* connect() with _connected set: it resolves on the spot, with this.token.
ConnectAlreadyOpen ==
  /\ connected
  /\ released' = FALSE
  /\ CalledInHandler
  /\ UNCHANGED <<config, waiter, linkVars, retryVars, hbVars, overtaken>>

\* A bound: connect() is called from a handler only while no timeout is armed
\* but the one it clears, so two of them are all there can be.
MayCallBack == Idle \/ retryTimers \subseteq {reconnectTimer}

\* connect() otherwise: a retry that waited its turn is dropped, this promise
\* takes the slot (whoever held it is forgotten) and _open() runs.
ConnectOpen ==
  /\ ~connected
  /\ MayCallBack
  /\ ClearReconnectTimer
  /\ waiter' = TRUE
  /\ OpenSocket
  /\ released' = FALSE
  /\ CalledInHandler
  /\ UNCHANGED <<config, attempts, hbVars, overtaken>>

\* Seeded fault: close() leaves autoReconnect as the app configured it.
BugAutoReconnectAfterClose == autoReconnect

\* What close() leaves in this.autoReconnect.
AutoReconnectAfterClose == FALSE

\* close().  `released` holds from here until the app asks for a connection
\* again, with connect() or by turning autoReconnect back on.
Close ==
  /\ released' = TRUE
  /\ autoReconnect' = AutoReconnectAfterClose
  /\ ClearReconnectTimer
  /\ sock' = [s \in Socket |-> IF s = ws THEN AfterClose(sock[s]) ELSE sock[s]]
  /\ CalledInHandler
  /\ UNCHANGED <<maxReconnectAttempts, ws, connected, openTimer, token, attempts, hbVars,
                 waiter, overtaken>>

\* updateConfig({ autoReconnect, maxReconnectAttempts }): either may stay as it is.
UpdateConfig(value, limit) ==
  /\ autoReconnect' = value
  /\ maxReconnectAttempts' = limit
  /\ released' = (released /\ ~(value /\ ~autoReconnect))
  /\ UNCHANGED <<waiter, linkVars, retryVars, hbVars, restVars>>

-----------------------------------------------------------------------------
(* The events of a socket *)

\* `open`
OpenEvent(s) ==
  /\ Idle
  /\ sock[s] = "connecting"
  /\ sock' = [sock EXCEPT ![s] = "open"]
  /\ openTimer' = [openTimer EXCEPT ![s] = FALSE]
  /\ IF s = ws
       THEN /\ connected' = TRUE
            /\ attempts' = 0
            /\ StartHeartbeat
       ELSE UNCHANGED <<connected, attempts, hbVars>>
  /\ UNCHANGED <<config, ws, token, retryTimers, reconnectTimer, appVars, restVars>>

\* `message` with the proxy's `connected` frame: the token of this connection.
ConnectedFrame(s) ==
  /\ Idle
  /\ sock[s] = "open"
  /\ sock' = [sock EXCEPT ![s] = "ready"]
  /\ IF s = ws
       THEN /\ hbDeadTimer' = FALSE
            /\ token' = "current"
            /\ SettleWaiter
       ELSE UNCHANGED <<hbDeadTimer, token, waiter>>
  /\ UNCHANGED <<config, ws, connected, openTimer, retryVars, hbTimer, released, restVars>>

\* `message` with any other frame, a `pong` among them.
OtherFrame(s) ==
  /\ Idle
  /\ sock[s] \in {"open", "ready"}
  /\ s = ws
  /\ hbDeadTimer' = FALSE
  /\ UNCHANGED <<config, linkVars, retryVars, hbTimer, appVars, restVars>>

\* `error`, which a socket that could not open fires before its `close`.
ErrorEvent(s) ==
  /\ Idle
  /\ sock[s] \in Live \cup {"aborting", "closing"}
  /\ sock' = [sock EXCEPT ![s] = "failing"]
  /\ rest' = IF s = ws THEN [rest EXCEPT !.of = "error"] ELSE rest
  /\ UNCHANGED <<config, ws, connected, openTimer, token, retryVars, hbVars, appVars,
                 overtaken>>

\* ... and after the handlers of `error`.  Who called connect() there is rejected.
AfterError ==
  /\ rest.of = "error"
  /\ SettleWaiter
  /\ rest' = Nothing
  /\ UNCHANGED <<config, linkVars, retryVars, hbVars, released, overtaken>>

\* `close`
CloseEvent(s) ==
  /\ Idle
  /\ sock[s] \in {"open", "ready", "closing", "failing"}
  /\ openTimer' = [openTimer EXCEPT ![s] = FALSE]
  /\ IF s = ws
       THEN /\ sock' = [sock EXCEPT ![s] = "closed"]
            /\ StopHeartbeat
            /\ connected' = FALSE
            /\ token' = Expired(token)
            /\ rest' = [rest EXCEPT !.of = "close", !.wasConnected = connected]
       ELSE /\ sock' = [sock EXCEPT ![s] = "free"]
            /\ UNCHANGED <<connected, token, hbVars, rest>>
  /\ UNCHANGED <<config, ws, retryVars, appVars, overtaken>>

\* Seeded fault: a retry that failed to open is not retried (the outage of
\* 2026-09-16 that the comment in the `close` listener tells of).
BugRetryOnlyIfOpened == rest.wasConnected /\ autoReconnect

\* Seeded fault: every failed attempt is retried, the app's first one too.
BugRetryAlways == autoReconnect

\* The `close` of this.ws is followed by another attempt.
CloseIsRetried == (rest.wasConnected \/ attempts > 0) /\ autoReconnect

\* ... and after the handlers of `disconnect`.
AfterDisconnect ==
  /\ rest.of = "close"
  /\ ScheduleReconnectIf(CloseIsRetried)
  /\ UNCHANGED <<config, linkVars, retryTimers, reconnectTimer, hbVars, appVars, overtaken>>

-----------------------------------------------------------------------------
(* The timers *)

\* After the handlers of `reconnecting`, _scheduleReconnect() arms the timeout.
ArmRetry ==
  /\ rest.of = "retry"
  /\ \E t \in Timer \ retryTimers :
       /\ retryTimers' = retryTimers \cup {t}
       /\ reconnectTimer' = t
  /\ overtaken' = (overtaken \/ rest.called)
  /\ rest' = Nothing
  /\ UNCHANGED <<config, linkVars, attempts, hbVars, appVars>>

\* The timeout _scheduleReconnect armed calls _open().
RetryTimerFires(t) ==
  /\ Idle
  /\ t \in retryTimers
  /\ retryTimers' = retryTimers \ {t}
  /\ OpenSocket
  /\ UNCHANGED <<config, attempts, reconnectTimer, hbVars, appVars, restVars>>

\* _onConnectTimeout(s) of an attempt that is no longer this.ws, or that opened.
ConnectTimeoutLate(s) ==
  /\ Idle
  /\ openTimer[s]
  /\ s # ws \/ connected
  /\ openTimer' = [openTimer EXCEPT ![s] = FALSE]
  /\ UNCHANGED <<config, ws, connected, sock, token, retryVars, hbVars, appVars, restVars>>

\* _onConnectTimeout(s) of the attempt in this.ws: it is given up.
ConnectTimeout(s) ==
  /\ Idle
  /\ openTimer[s]
  /\ s = ws
  /\ ~connected
  /\ openTimer' = [openTimer EXCEPT ![s] = FALSE]
  /\ ws' = NoSocket
  /\ sock' = [sock EXCEPT ![s] = AfterClose(@)]
  /\ rest' = [rest EXCEPT !.of = "timeout"]
  /\ UNCHANGED <<config, connected, token, retryVars, hbVars, appVars, overtaken>>

\* ... and after the handlers of `error`.
AfterTimeout ==
  /\ rest.of = "timeout"
  /\ SettleWaiter
  /\ ScheduleReconnectIf(attempts > 0 /\ autoReconnect)
  /\ UNCHANGED <<config, linkVars, retryTimers, reconnectTimer, hbVars, released, overtaken>>

\* _heartbeatTick(), which does nothing while _hbDeadTimer is armed.
Ticks == Idle /\ hbTimer /\ connected /\ ws # NoSocket /\ ~hbDeadTimer

\* A ping leaves and its deadline is armed.
HeartbeatTick ==
  /\ Ticks /\ sock[ws] # "connecting"
  /\ hbDeadTimer' = TRUE
  /\ UNCHANGED <<config, linkVars, retryVars, hbTimer, appVars, restVars>>

\* _onHeartbeatDead(): the socket is abandoned.
Abandon ==
  /\ StopHeartbeat
  /\ ws' = NoSocket
  /\ connected' = FALSE
  /\ token' = Expired(token)
  /\ rest' = [rest EXCEPT !.of = "dead", !.wasConnected = connected, !.dead = ws]
  /\ UNCHANGED <<config, sock, openTimer, retryVars, appVars, overtaken>>

\* send() throws on a socket that is CONNECTING.
PingThrows ==
  /\ Ticks /\ sock[ws] = "connecting"
  /\ Abandon

\* Nothing answered the ping.
HeartbeatDead ==
  /\ Idle /\ hbDeadTimer
  /\ Abandon

\* ... and after the handlers of `error` and `disconnect`.
AfterDead ==
  /\ rest.of = "dead"
  /\ sock' = [s \in Socket |-> IF s = rest.dead THEN AfterClose(Unreferenced(sock[s]))
                                ELSE sock[s]]
  /\ ScheduleReconnectIf(rest.wasConnected /\ autoReconnect)
  /\ UNCHANGED <<config, ws, connected, openTimer, token, retryTimers, reconnectTimer,
                 hbVars, appVars, overtaken>>

-----------------------------------------------------------------------------

App ==
  \/ ConnectAlreadyOpen
  \/ ConnectOpen
  \/ Close
  \/ \E value \in BOOLEAN, limit \in Limits : UpdateConfig(value, limit)

SocketEvent ==
  \/ \E s \in Socket : OpenEvent(s)
  \/ \E s \in Socket : ConnectedFrame(s)
  \/ \E s \in Socket : OtherFrame(s)
  \/ \E s \in Socket : ErrorEvent(s)
  \/ \E s \in Socket : CloseEvent(s)

TimerFires ==
  \/ \E t \in Timer : RetryTimerFires(t)
  \/ \E s \in Socket : ConnectTimeoutLate(s)
  \/ \E s \in Socket : ConnectTimeout(s)
  \/ HeartbeatTick
  \/ PingThrows
  \/ HeartbeatDead

\* The handlers have returned.
GoesOn == AfterError \/ AfterDisconnect \/ AfterTimeout \/ AfterDead \/ ArmRetry

Next == App \/ SocketEvent \/ TimerFires \/ GoesOn

Spec == Init /\ [][Next]_vars

-----------------------------------------------------------------------------
(* What must always hold *)

(***************************************************************************)
(* Where the code arms a retry although a handler of the same callback has *)
(* called connect() or close() (`overtaken`), the retry collides with what *)
(* the app asked for, and three of these do not hold: see CloseIsLast and  *)
(* NobodyIsOrphaned.  connect() and close() in a handler do no harm when   *)
(* no retry follows, and that is said here of them, too.                   *)
(***************************************************************************)

\* A socket that is connecting or open is the one in this.ws, or is about to be
\* closed by _onHeartbeatDead(): _open() and the connect timeout never leave a
\* live socket behind whose events nobody listens to.
NoOrphanSocket ==
  ~overtaken => \A s \in Socket : sock[s] \in Live => s \in {ws, rest.dead}

\* At most one _open() is scheduled, this._reconnectTimer can cancel it, and
\* it is scheduled only while there is no attempt for it to collide with.
SingleRetry ==
  ~overtaken =>
    /\ retryTimers \subseteq {reconnectTimer}
    /\ retryTimers # {} /\ ws \in Socket => sock[ws] = "closed"

\* After close(), and until the app asks for a connection again, nothing is
\* left that could open one and, once the callback it came in is over, no
\* socket is open or opening.
ReleasedIsFinal ==
  released /\ ~overtaken =>
    /\ ~autoReconnect
    /\ retryTimers = {}
    /\ Idle => \A s \in Socket : sock[s] \notin Live

\* _connected speaks of the socket in this.ws, every connection is under
\* watch until its end is noticed, and no deadline outlives its connection
\* (one that did would tear down the next).
HeartbeatWatches ==
  /\ connected => ws \in Socket
  /\ connected /\ ~overtaken => sock[ws] \in {"open", "ready", "closing", "failing"}
  /\ hbTimer = (connected /\ EnableHeartbeat)
  /\ hbDeadTimer => hbTimer

\* "Closings the client intends have autoReconnect=false (close() puts it), so
\* that this does not let through disconnections the app asked for"
\* (client.js:2083).  It does: _scheduleReconnect() emits `reconnecting` before
\* it has the timer that close(), in a handler of it, would clear.
CloseIsLast == released /\ Idle => retryTimers = {}

\* "A retry that waited its turn is not needed any more: this connect() opens
\* one" (client.js:485).  connect() in a handler of `disconnect` finds no such
\* retry, for it is armed afterwards, and replaces the socket that opened.
NobodyIsOrphaned == \A s \in Socket : sock[s] \in Live => s \in {ws, rest.dead}

\* connect() "is not resolved when the socket opens but with the proxy's
\* greeting, the frame that brings this connection's token"
\* (test/reconnect.test.mjs).  It is resolved at once while _connected is set.
ConnectYieldsToken == connected => token = "current"

(* What a step may never do *)

AttemptUnderway == ws \in Socket /\ sock[ws] \in {"connecting", "aborting", "failing"}

\* A callback that is to schedule a retry, if autoReconnect is on when it gets to it.
Ending ==
  \/ rest.of = "close" /\ (rest.wasConnected \/ attempts > 0)
  \/ rest.of = "dead" /\ rest.wasConnected
  \/ rest.of = "timeout" /\ attempts > 0
  \/ rest.of = "retry"

Reconnecting ==
  /\ ~connected
  /\ Ending \/ (attempts > 0 /\ (retryTimers # {} \/ AttemptUnderway))

\* While autoReconnect is on, no step takes the client from connected, or
\* from trying to be, to neither: only the last allowed attempt may fail.
\* Whatever the app's handlers call, and whatever limit it sets meanwhile.
NoSilentGiveUp ==
  [][ (connected \/ Reconnecting) /\ autoReconnect'
      => connected' \/ Reconnecting' \/ LimitReached ]_vars

\* The loss of an open connection is the only thing that starts a chain of
\* retries: a first connect() that fails leaves no loop in the background.
RetriesFollowALoss ==
  [][ /\ attempts = 0 /\ attempts' > 0 => rest.wasConnected
      /\ rest'.wasConnected /\ ~rest.wasConnected => connected ]_vars

(* What must eventually happen *)

(***************************************************************************)
(* Timers fire, handlers return, and a socket that fired `error` fires     *)
(* `close`.  Nothing is assumed of the network: no attempt need ever open, *)
(* fail or answer.  The last two conjuncts are about sockets this.ws has   *)
(* left behind, whose events change nothing but give their identity back:  *)
(* a real `new WebSocket` never has to wait for one.                       *)
(***************************************************************************)
Fairness ==
  /\ WF_vars(GoesOn)
  /\ \A t \in Timer : WF_vars(RetryTimerFires(t))
  /\ \A s \in Socket : WF_vars(ConnectTimeout(s))
  /\ WF_vars(HeartbeatTick \/ PingThrows)
  /\ WF_vars(HeartbeatDead)
  /\ \A s \in Socket : WF_vars(sock[s] = "failing" /\ CloseEvent(s))
  /\ \A s \in Socket : WF_vars(s # ws /\ sock[s] = "aborting" /\ ErrorEvent(s))
  /\ \A s \in Socket : WF_vars(s # ws /\ sock[s] # "failing" /\ CloseEvent(s))

FairSpec == Spec /\ Fairness

GaveUp == LimitReached /\ ~Reconnecting

\* Unless the app keeps calling connect() itself, an outage ends: the client
\* connects, or has used up its attempts, or is told to stop.  An attempt
\* that neither opens nor fails does not stop the chain.
OutageEnds ==
  <>[][~ConnectOpen]_vars => (Reconnecting ~> (connected \/ GaveUp \/ ~autoReconnect))

\* A connection on which nothing arrives any more, though no socket event
\* says so (TCP dead without a FIN), does not count as connected for ever.
HalfOpenIsNoticed ==
  <>[][\A s \in Socket : ~OtherFrame(s) /\ ~ConnectedFrame(s)]_vars
  => []<>~connected
=============================================================================
