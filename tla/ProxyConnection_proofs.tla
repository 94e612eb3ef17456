------------------------ MODULE ProxyConnection_proofs ------------------------
(* Proofs about the connection to the proxy and the requests over it:        *)
(* ProxyConnection, for every set of sockets, of timeouts and of limits, and *)
(* Requests, for every set of requests.                                      *)
EXTENDS ProxyConnection, ClientRequests, TLAPS

\* An open socket in this.ws counts as connected, so _open() never replaces one.
OpenMeansConnected ==
  ws \in Socket => /\ sock[ws] # "free"
                   /\ sock[ws] \in {"open", "ready"} => connected

\* A connect timeout is armed only on an attempt that has not yet ended.
TimeoutMeansAttempt ==
  \A s \in Socket : openTimer[s] => sock[s] \in {"connecting", "aborting", "failing"}

\* A callback that may go on to schedule a retry.
Unfinished == rest.of \in {"close", "timeout", "dead", "retry"}

\* What its locals say while the app's handlers run.
RestIsTrue ==
  /\ Idle => rest = Nothing
  /\ Unfinished => ~connected
  /\ rest.of = "retry" => attempts > 0
  /\ rest.of = "dead" => /\ rest.dead \in Socket /\ rest.dead # ws
                         /\ sock[rest.dead] # "free"
                         /\ rest.wasConnected

\* It began with no retry armed and no attempt under way, and so it is still,
\* unless a handler has called the client.
NothingBegunYet ==
  Unfinished /\ ~rest.called /\ ~overtaken =>
    /\ retryTimers = {}
    /\ ws \in Socket => sock[ws] = "closed"

\* NoOrphanSocket, and ReleasedIsFinal, while a callback is unfinished: the
\* socket _onHeartbeatDead() is about to close is the one exception of either.
LiveIsOwned ==
  ~overtaken =>
    \A s \in Socket :
      sock[s] \in Live =>
        \/ s = ws /\ ~released
        \/ rest.of = "dead" /\ s = rest.dead

\* close() came from a handler, if it came before _scheduleReconnect() was over.
CloseWasCalled == rest.of = "retry" /\ released /\ ~overtaken => rest.called

\* Who owns which socket and which timer: what the steps preserve together.
Ownership ==
  /\ SingleRetry
  /\ released /\ ~overtaken => ~autoReconnect /\ retryTimers = {}
  /\ HeartbeatWatches
  /\ OpenMeansConnected
  /\ TimeoutMeansAttempt
  /\ RestIsTrue
  /\ NothingBegunYet
  /\ LiveIsOwned
  /\ CloseWasCalled

IInv == TypeOK /\ Ownership

-----------------------------------------------------------------------------
\* _scheduleReconnect() counts an attempt below the limit and goes on; at the
\* limit, or if nobody asks for a retry, the callback is over.
LEMMA ScheduleFacts ==
  ASSUME TypeOK, NEW condition \in BOOLEAN, ScheduleReconnectIf(condition)
  PROVE  \/ /\ condition /\ ~LimitReached
            /\ attempts' = attempts + 1
            /\ rest' = [rest EXCEPT !.of = "retry"]
         \/ ~(condition /\ ~LimitReached) /\ attempts' = attempts /\ rest' = Nothing
BY DEF ScheduleReconnectIf, ScheduleReconnect

\* Either way the count and what is left of the callback keep their types.
LEMMA ScheduleTypes ==
  ASSUME TypeOK, NEW condition \in BOOLEAN, ScheduleReconnectIf(condition)
  PROVE  /\ attempts' \in Nat
         /\ attempts' = 0 \/ \E limit \in Limits : attempts' <= limit
         /\ rest' \in Rest
<1>1. rest' \in Rest
  <2>1. rest \in Rest /\ Nothing \in Rest
    BY DEF TypeOK, Rest, Nothing
  <2>2. [rest EXCEPT !.of = "retry"] \in Rest
    BY <2>1 DEF Rest
  <2>3. QED
    BY <2>1, <2>2, ScheduleFacts
<1>2. CASE attempts' = attempts
  BY <1>1, <1>2 DEF TypeOK
<1>3. CASE ~LimitReached /\ attempts' = attempts + 1
  <2>1. attempts' <= maxReconnectAttempts
    BY <1>3, ConnectionAssumption DEF ConnectionAssumption, TypeOK, LimitReached
  <2>2. QED
    BY <1>1, <1>3, <2>1 DEF TypeOK
<1>4. QED
  BY <1>2, <1>3, ScheduleFacts

\* A call from a handler changes nothing of the callback but that it is known.
LEMMA CallFacts ==
  ASSUME TypeOK, CalledInHandler
  PROVE  /\ rest' \in Rest
         /\ rest'.of = rest.of
         /\ rest'.wasConnected = rest.wasConnected
         /\ rest'.dead = rest.dead
         /\ rest'.called = (rest.of \in {"close", "timeout", "dead", "retry"})
         /\ rest = Nothing => rest' = Nothing
<1> DEFINE unfinished == rest.of \in {"close", "timeout", "dead", "retry"}
<1>1. unfinished \in BOOLEAN /\ rest \in Rest
  BY DEF TypeOK
<1>2. rest' = [rest EXCEPT !.called = unfinished]
  BY DEF CalledInHandler
<1>3. rest = Nothing => unfinished = FALSE /\ rest.called = FALSE
  BY DEF Nothing
<1>4. rest = Nothing => rest' = Nothing
  BY <1>2, <1>3 DEF Nothing
<1> HIDE DEF unfinished
<1>5. /\ rest' \in Rest
      /\ rest'.of = rest.of
      /\ rest'.wasConnected = rest.wasConnected
      /\ rest'.dead = rest.dead
      /\ rest'.called = unfinished
  BY <1>1, <1>2 DEF Rest
<1>6. QED
  BY <1>4, <1>5 DEF unfinished

\* The types, to begin with,
LEMMA TypeInit == Init => TypeOK
<1> SUFFICES ASSUME Init PROVE TypeOK
  OBVIOUS
<1>1. rest \in Rest
  BY DEF Init, Nothing, Rest
<1>2. QED
  BY <1>1 DEF Init, TypeOK, SocketState

\* and after every step.
LEMMA TypeStep == TypeOK /\ [Next]_vars => TypeOK'
<1> SUFFICES ASSUME TypeOK, [Next]_vars PROVE TypeOK'
  OBVIOUS
<1> USE ConnectionAssumption DEF ConnectionAssumption, TypeOK, SocketState
<1>1. ASSUME ConnectAlreadyOpen PROVE TypeOK'
  BY <1>1, CallFacts DEF ConnectAlreadyOpen, config, linkVars, retryVars, hbVars
<1>2. ASSUME ConnectOpen PROVE TypeOK'
  <2>1. /\ ws' \in Socket \cup {NoSocket}
        /\ connected' \in BOOLEAN
        /\ sock' \in [Socket -> SocketState]
        /\ openTimer' \in [Socket -> BOOLEAN]
        /\ token' \in {"none", "current", "stale"}
    BY <1>2 DEF ConnectOpen, OpenSocket, AfterReplace, AfterClose, Unreferenced, Expired,
       ArmsConnectTimeout
  <2>2. retryTimers' \in SUBSET Timer /\ reconnectTimer' \in Timer \cup {NoTimer}
    BY <1>2 DEF ConnectOpen, ClearReconnectTimer
  <2>3. rest' \in Rest
    BY <1>2, CallFacts DEF ConnectOpen
  <2>4. UNCHANGED <<autoReconnect, maxReconnectAttempts, attempts, hbTimer, hbDeadTimer,
                    overtaken>> /\ waiter' = TRUE /\ released' = FALSE
    BY <1>2 DEF ConnectOpen, config, hbVars
  <2>5. QED
    BY <2>1, <2>2, <2>3, <2>4
<1>3. ASSUME Close PROVE TypeOK'
  BY <1>3, CallFacts DEF Close, ClearReconnectTimer, AfterClose, AutoReconnectAfterClose,
     hbVars
<1>4. ASSUME NEW value \in BOOLEAN, NEW limit \in Limits, UpdateConfig(value, limit)
      PROVE  TypeOK'
  BY <1>4 DEF UpdateConfig, linkVars, retryVars, hbVars, restVars
<1>5. ASSUME NEW s \in Socket, OpenEvent(s) PROVE TypeOK'
  <2>1. /\ attempts' \in Nat
        /\ attempts' = 0 \/ \E limit \in Limits : attempts' <= limit
        /\ sock' \in [Socket -> SocketState]
    BY <1>5 DEF OpenEvent
  <2>2. hbTimer' \in BOOLEAN /\ hbDeadTimer' \in BOOLEAN /\ connected' \in BOOLEAN
    BY <1>5, Zenon DEF OpenEvent, StartHeartbeat, hbVars
  <2>3. openTimer' \in [Socket -> BOOLEAN]
    BY <1>5 DEF OpenEvent
  <2>4. UNCHANGED <<autoReconnect, maxReconnectAttempts, ws, token, retryTimers,
                    reconnectTimer, waiter, released, rest, overtaken>>
    BY <1>5 DEF OpenEvent, config, appVars, restVars
  <2>5. QED
    BY <2>1, <2>2, <2>3, <2>4
<1>6. ASSUME NEW s \in Socket, ConnectedFrame(s) PROVE TypeOK'
  BY <1>6 DEF ConnectedFrame, SettleWaiter, config, retryVars, restVars
<1>7. ASSUME NEW s \in Socket, OtherFrame(s) PROVE TypeOK'
  BY <1>7 DEF OtherFrame, config, linkVars, retryVars, appVars, restVars
<1>8. ASSUME NEW s \in Socket, ErrorEvent(s) PROVE TypeOK'
  BY <1>8 DEF ErrorEvent, Rest, config, retryVars, hbVars, appVars
<1>9. ASSUME AfterError PROVE TypeOK'
  BY <1>9 DEF AfterError, SettleWaiter, Nothing, Rest, config, linkVars, retryVars, hbVars
<1>10. ASSUME NEW s \in Socket, CloseEvent(s) PROVE TypeOK'
  <2>1. sock' \in [Socket -> SocketState] /\ openTimer' \in [Socket -> BOOLEAN]
    BY <1>10 DEF CloseEvent
  <2>2. /\ hbTimer' \in BOOLEAN /\ hbDeadTimer' \in BOOLEAN /\ connected' \in BOOLEAN
        /\ token' \in {"none", "current", "stale"}
    BY <1>10 DEF CloseEvent, StopHeartbeat, Expired, hbVars
  <2>3. rest' \in Rest
    BY <1>10 DEF CloseEvent, Rest
  <2>4. UNCHANGED <<autoReconnect, maxReconnectAttempts, ws, attempts, retryTimers,
                    reconnectTimer, waiter, released, overtaken>>
    BY <1>10 DEF CloseEvent, config, retryVars, appVars
  <2>5. QED
    BY <2>1, <2>2, <2>3, <2>4
<1>11. ASSUME AfterDisconnect PROVE TypeOK'
  BY <1>11, ScheduleTypes DEF AfterDisconnect, CloseIsRetried, Rest, config, linkVars, hbVars,
     appVars
<1>12. ASSUME ArmRetry PROVE TypeOK'
  BY <1>12 DEF ArmRetry, Nothing, Rest, config, linkVars, hbVars, appVars
<1>13. ASSUME NEW t \in Timer, RetryTimerFires(t) PROVE TypeOK'
  BY <1>13 DEF RetryTimerFires, OpenSocket, AfterReplace, AfterClose, Unreferenced, Expired,
     ArmsConnectTimeout, config, hbVars, appVars, restVars
<1>14. ASSUME NEW s \in Socket, ConnectTimeoutLate(s) PROVE TypeOK'
  BY <1>14 DEF ConnectTimeoutLate, config, retryVars, hbVars, appVars, restVars
<1>15. ASSUME NEW s \in Socket, ConnectTimeout(s) PROVE TypeOK'
  BY <1>15 DEF ConnectTimeout, AfterClose, Rest, config, retryVars, hbVars, appVars
<1>16. ASSUME AfterTimeout PROVE TypeOK'
  BY <1>16, ScheduleTypes DEF AfterTimeout, SettleWaiter, config, linkVars, hbVars
<1>17. ASSUME HeartbeatTick PROVE TypeOK'
  BY <1>17 DEF HeartbeatTick, config, linkVars, retryVars, appVars, restVars
<1>18. ASSUME Abandon PROVE TypeOK'
  BY <1>18 DEF Abandon, StopHeartbeat, Expired, Rest, config, retryVars, appVars
<1>19. ASSUME AfterDead PROVE TypeOK'
  BY <1>19, ScheduleTypes DEF AfterDead, AfterClose, Unreferenced, Rest, config, hbVars, appVars
<1>20. CASE UNCHANGED vars
  BY <1>20 DEF vars
<1>21. QED
  BY <1>1, <1>2, <1>3, <1>4, <1>5, <1>6, <1>7, <1>8, <1>9, <1>10, <1>11, <1>12, <1>13, <1>14,
     <1>15, <1>16, <1>17, <1>18, <1>19, <1>20
  DEF Next, App, SocketEvent, TimerFires, GoesOn, PingThrows, HeartbeatDead

\* Every variable keeps its type, and the count of attempts stays within what
\* the app has ever allowed, whatever it lowers the limit to meanwhile.
THEOREM TypeCorrect == Spec => []TypeOK
<1>1. QED
  BY TypeInit, TypeStep, PTL DEF Spec
-----------------------------------------------------------------------------
\* Nothing is owned to begin with,
LEMMA OwnershipInit == Init => Ownership
<1> SUFFICES ASSUME Init PROVE Ownership
  OBVIOUS
<1>1. QED
  BY ConnectionAssumption
  DEF ConnectionAssumption, Init, Ownership, SingleRetry, HeartbeatWatches,
      OpenMeansConnected, TimeoutMeansAttempt, RestIsTrue, NothingBegunYet, LiveIsOwned,
      CloseWasCalled, Unfinished, Idle, Nothing, Live

\* and what each socket owns follows from what becomes of it.
LEMMA OwnershipStep == IInv /\ [Next]_vars => Ownership'
<1> SUFFICES ASSUME IInv, [Next]_vars PROVE Ownership'
  OBVIOUS
<1> USE ConnectionAssumption
    DEF ConnectionAssumption, IInv, Ownership, TypeOK, SocketState, Live, SingleRetry,
        HeartbeatWatches, OpenMeansConnected, TimeoutMeansAttempt, RestIsTrue,
        NothingBegunYet, LiveIsOwned, CloseWasCalled, Unfinished, Idle, Nothing, Rest
<1>1. ASSUME ConnectAlreadyOpen PROVE Ownership'
  BY <1>1, CallFacts DEF ConnectAlreadyOpen, config, linkVars, retryVars, hbVars
<1>2. ASSUME ConnectOpen PROVE Ownership'
  BY <1>2, CallFacts DEF ConnectOpen, ClearReconnectTimer, OpenSocket, AfterReplace, AfterClose,
     Unreferenced, config, hbVars
<1>3. ASSUME Close PROVE Ownership'
  BY <1>3, CallFacts DEF Close, ClearReconnectTimer, AfterClose, AutoReconnectAfterClose,
     hbVars
<1>4. ASSUME NEW value \in BOOLEAN, NEW limit \in Limits, UpdateConfig(value, limit)
      PROVE  Ownership'
  BY <1>4 DEF UpdateConfig, linkVars, retryVars, hbVars, restVars
<1>5. ASSUME NEW s \in Socket, OpenEvent(s) PROVE Ownership'
  BY <1>5 DEF OpenEvent, StartHeartbeat, config, hbVars, appVars, restVars
<1>6. ASSUME NEW s \in Socket, ConnectedFrame(s) PROVE Ownership'
  BY <1>6 DEF ConnectedFrame, SettleWaiter, config, retryVars, restVars
<1>7. ASSUME NEW s \in Socket, OtherFrame(s) PROVE Ownership'
  BY <1>7 DEF OtherFrame, config, linkVars, retryVars, appVars, restVars
<1>8. ASSUME NEW s \in Socket, ErrorEvent(s) PROVE Ownership'
  BY <1>8 DEF ErrorEvent, config, retryVars, hbVars, appVars
<1>9. ASSUME AfterError PROVE Ownership'
  BY <1>9 DEF AfterError, config, linkVars, retryVars, hbVars
<1>10. ASSUME NEW s \in Socket, CloseEvent(s) PROVE Ownership'
  BY ZenonT(40), <1>10 DEF CloseEvent, StopHeartbeat, config, retryVars, hbVars, appVars
<1>11. ASSUME AfterDisconnect PROVE Ownership'
  BY <1>11, ScheduleFacts DEF AfterDisconnect, CloseIsRetried, config, linkVars, hbVars, appVars
<1>12. ASSUME ArmRetry PROVE Ownership'
  BY <1>12 DEF ArmRetry, config, linkVars, hbVars, appVars
<1>13. ASSUME NEW t \in Timer, RetryTimerFires(t) PROVE Ownership'
  BY <1>13 DEF RetryTimerFires, OpenSocket, AfterReplace, AfterClose, Unreferenced, config,
     hbVars, appVars, restVars
<1>14. ASSUME NEW s \in Socket, ConnectTimeoutLate(s) PROVE Ownership'
  BY <1>14 DEF ConnectTimeoutLate, config, retryVars, hbVars, appVars, restVars
<1>15. ASSUME NEW s \in Socket, ConnectTimeout(s) PROVE Ownership'
  BY <1>15 DEF ConnectTimeout, AfterClose, config, retryVars, hbVars, appVars
<1>16. ASSUME AfterTimeout PROVE Ownership'
  BY <1>16, ScheduleFacts DEF AfterTimeout, config, linkVars, hbVars
<1>17. ASSUME HeartbeatTick PROVE Ownership'
  BY <1>17 DEF HeartbeatTick, Ticks, config, linkVars, retryVars, appVars, restVars
<1>18. ASSUME Idle, connected, Abandon PROVE Ownership'
  BY <1>18 DEF Abandon, StopHeartbeat, config, retryVars, appVars
<1>19. ASSUME AfterDead PROVE Ownership'
  BY <1>19, ScheduleFacts DEF AfterDead, AfterClose, Unreferenced, config, hbVars, appVars
<1>20. CASE UNCHANGED vars
  BY <1>20 DEF vars
<1>21. QED
  BY <1>1, <1>2, <1>3, <1>4, <1>5, <1>6, <1>7, <1>8, <1>9, <1>10, <1>11, <1>12, <1>13, <1>14,
     <1>15, <1>16, <1>17, <1>18, <1>19, <1>20
  DEF Next, App, SocketEvent, TimerFires, GoesOn, PingThrows, HeartbeatDead, Ticks

\* The inductive invariant holds in every reachable state.
LEMMA IInvHolds == Spec => []IInv
<1>1. Init => IInv
  BY TypeInit, OwnershipInit DEF IInv
<1>2. IInv /\ [Next]_vars => IInv'
  BY TypeStep, OwnershipStep DEF IInv
<1>3. QED
  BY <1>1, <1>2, PTL DEF Spec

\* Unless a retry was armed over a call of a handler, no live socket is ever
\* left behind: _open(), _onConnectTimeout() and _onHeartbeatDead() close what
\* they take out of this.ws.
THEOREM NoOrphanSocketHolds == Spec => []NoOrphanSocket
<1>1. IInv => NoOrphanSocket
  BY DEF IInv, Ownership, LiveIsOwned, NoOrphanSocket
<1>2. QED
  BY <1>1, IInvHolds, PTL

\* With the same exception, _open() is never scheduled twice, nor beside an
\* attempt, and this._reconnectTimer always names the timeout that would call it.
THEOREM SingleRetryHolds == Spec => []SingleRetry
<1>1. IInv => SingleRetry
  BY DEF IInv, Ownership
<1>2. QED
  BY <1>1, IInvHolds, PTL

\* With the same exception, close() is final: nothing it leaves behind can
\* open a connection.
THEOREM ReleasedIsFinalHolds == Spec => []ReleasedIsFinal
<1>1. IInv => ReleasedIsFinal
  BY DEF IInv, Ownership, LiveIsOwned, ReleasedIsFinal, Idle
<1>2. QED
  BY <1>1, IInvHolds, PTL

\* The heartbeat runs exactly while the client counts as connected.
THEOREM HeartbeatWatchesHolds == Spec => []HeartbeatWatches
<1>1. IInv => HeartbeatWatches
  BY DEF IInv, Ownership
<1>2. QED
  BY <1>1, IInvHolds, PTL

-----------------------------------------------------------------------------
\* Only the loss of an open connection starts a chain of retries: the callers
\* of _scheduleReconnect() each ask for one or for a chain already begun.
THEOREM RetriesFollowALossHolds == Spec => RetriesFollowALoss
<1> DEFINE Kept == /\ attempts = 0 /\ attempts' > 0 => rest.wasConnected
                   /\ rest'.wasConnected /\ ~rest.wasConnected => connected
<1>1. ASSUME TypeOK, [Next]_vars PROVE Kept
  <2>0. attempts \in Nat /\ rest \in Rest /\ connected \in BOOLEAN
    BY <1>1 DEF TypeOK
  <2>1. CASE UNCHANGED vars
    BY <2>1 DEF vars
  <2>2. CASE App
    BY <1>1, <2>0, <2>2, CallFacts DEF App, ConnectAlreadyOpen, ConnectOpen, Close,
       UpdateConfig, retryVars, restVars
  <2>3. CASE SocketEvent
    <3>1. ASSUME NEW s \in Socket,
                 OpenEvent(s) \/ ConnectedFrame(s) \/ OtherFrame(s) \/ ErrorEvent(s)
          PROVE  Kept
      BY <2>0, <3>1 DEF OpenEvent, ConnectedFrame, OtherFrame, ErrorEvent, retryVars,
         restVars, Rest
    <3>2. ASSUME NEW s \in Socket, CloseEvent(s) PROVE Kept
      <4>1. UNCHANGED attempts
        BY <3>2 DEF CloseEvent, retryVars
      <4>2. rest' = rest \/ rest' = [rest EXCEPT !.of = "close", !.wasConnected = connected]
        BY <3>2 DEF CloseEvent
      <4>3. [rest EXCEPT !.of = "close", !.wasConnected = connected].wasConnected = connected
        BY <2>0 DEF Rest
      <4>4. ~(attempts = 0 /\ attempts' > 0)
        BY <2>0, <4>1
      <4>5. rest'.wasConnected /\ ~rest.wasConnected => connected
        BY <4>2, <4>3, Zenon
      <4>6. QED
        BY <4>4, <4>5, Zenon
    <3>3. QED
      BY <2>3, <3>1, <3>2 DEF SocketEvent
  <2>4. CASE TimerFires
    <3>1. CASE Abandon
      BY <2>0, <3>1 DEF Abandon, retryVars, Rest
    <3>2. ASSUME NEW s \in Socket, ConnectTimeout(s) PROVE Kept
      BY <2>0, <3>2 DEF ConnectTimeout, retryVars, Rest
    <3>3. ASSUME NEW s \in Socket, ConnectTimeoutLate(s) PROVE Kept
      BY <2>0, <3>3 DEF ConnectTimeoutLate, retryVars, restVars
    <3>4. ASSUME NEW t \in Timer, RetryTimerFires(t) PROVE Kept
      BY <2>0, <3>4 DEF RetryTimerFires, restVars
    <3>5. CASE HeartbeatTick
      BY <2>0, <3>5 DEF HeartbeatTick, retryVars, restVars
    <3>6. QED
      BY <2>4, <3>1, <3>2, <3>3, <3>4, <3>5 DEF TimerFires, PingThrows, HeartbeatDead
  <2>5. CASE AfterDisconnect \/ AfterTimeout \/ AfterDead
    <3>1. PICK condition \in BOOLEAN : /\ ScheduleReconnectIf(condition)
                                       /\ condition => rest.wasConnected \/ attempts > 0
      BY <1>1, <2>5 DEF AfterDisconnect, AfterTimeout, AfterDead, CloseIsRetried, TypeOK, Rest
    <3>2. QED
      BY <1>1, <2>0, <3>1, ScheduleFacts DEF Rest, Nothing
  <2>6. CASE AfterError \/ ArmRetry
    BY <2>0, <2>6 DEF AfterError, ArmRetry, retryVars, Nothing
  <2>7. QED
    BY <1>1, <2>1, <2>2, <2>3, <2>4, <2>5, <2>6 DEF Next, GoesOn
<1>2. TypeOK /\ [Next]_vars => Kept
  BY <1>1
<1>3. QED
  BY <1>2, TypeCorrect, PTL DEF Spec, RetriesFollowALoss

\* A client that is connected or reconnecting stays one or the other while
\* autoReconnect is on, except when the last allowed attempt fails: every
\* handler that ends a connection or an attempt goes on to arm a retry.
THEOREM NoSilentGiveUpHolds == Spec => NoSilentGiveUp
<1> DEFINE Kept == connected' \/ Reconnecting' \/ LimitReached
<1>1. ASSUME IInv, [Next]_vars, connected \/ Reconnecting, autoReconnect'
      PROVE  Kept
  <2> USE <1>1, ConnectionAssumption
      DEF ConnectionAssumption, IInv, Ownership, TypeOK, Reconnecting, Ending,
          AttemptUnderway, HeartbeatWatches, OpenMeansConnected, RestIsTrue, Unfinished,
          SocketState, Idle, Rest, Nothing
  <2>1. ASSUME ConnectAlreadyOpen PROVE Kept
    BY <2>1 DEF ConnectAlreadyOpen, linkVars
  <2>2. ASSUME ConnectOpen PROVE Kept
    BY <2>2 DEF ConnectOpen, OpenSocket, CalledInHandler
  <2>3. ASSUME Close PROVE Kept
    BY <2>3 DEF Close, AutoReconnectAfterClose
  <2>4. ASSUME NEW value \in BOOLEAN, NEW limit \in Limits, UpdateConfig(value, limit)
        PROVE  Kept
    BY <2>4 DEF UpdateConfig, linkVars, retryVars, restVars
  <2>5. ASSUME NEW s \in Socket, OpenEvent(s) PROVE Kept
    BY <2>5 DEF OpenEvent, appVars, restVars
  <2>6. ASSUME NEW s \in Socket, ConnectedFrame(s) PROVE Kept
    BY <2>6 DEF ConnectedFrame, retryVars, restVars
  <2>7. ASSUME NEW s \in Socket, OtherFrame(s) PROVE Kept
    BY <2>7 DEF OtherFrame, linkVars, retryVars, restVars
  <2>8. ASSUME NEW s \in Socket, ErrorEvent(s) PROVE Kept
    BY <2>8 DEF ErrorEvent, retryVars
  <2>9. ASSUME AfterError PROVE Kept
    BY <2>9 DEF AfterError, linkVars, retryVars
  <2>10. ASSUME NEW s \in Socket, CloseEvent(s) PROVE Kept
    BY ZenonT(40), <2>10 DEF CloseEvent, retryVars
  <2>11. ASSUME AfterDisconnect PROVE Kept
    BY <2>11, ScheduleFacts DEF AfterDisconnect, CloseIsRetried, config, linkVars
  <2>12. ASSUME ArmRetry PROVE Kept
    BY <2>12 DEF ArmRetry, linkVars
  <2>13. ASSUME NEW t \in Timer, RetryTimerFires(t) PROVE Kept
    BY <2>13 DEF RetryTimerFires, OpenSocket, restVars
  <2>14. ASSUME NEW s \in Socket, ConnectTimeoutLate(s) PROVE Kept
    BY <2>14 DEF ConnectTimeoutLate, retryVars, restVars
  <2>15. ASSUME NEW s \in Socket, ConnectTimeout(s) PROVE Kept
    BY <2>15 DEF ConnectTimeout, retryVars
  <2>16. ASSUME AfterTimeout PROVE Kept
    BY <2>16, ScheduleFacts DEF AfterTimeout, config, linkVars
  <2>17. ASSUME HeartbeatTick PROVE Kept
    BY <2>17 DEF HeartbeatTick, linkVars, retryVars, restVars
  <2>18. ASSUME Idle, connected, Abandon PROVE Kept
    BY <2>18 DEF Abandon
  <2>19. ASSUME AfterDead PROVE Kept
    BY <2>19, ScheduleFacts DEF AfterDead, config
  <2>20. CASE UNCHANGED vars
    BY <2>20 DEF vars
  <2>21. QED
    BY <2>1, <2>2, <2>3, <2>4, <2>5, <2>6, <2>7, <2>8, <2>9, <2>10, <2>11, <2>12, <2>13, <2>14,
       <2>15, <2>16, <2>17, <2>18, <2>19, <2>20
    DEF Next, App, SocketEvent, TimerFires, GoesOn, PingThrows, HeartbeatDead, Ticks
<1>2. IInv /\ [Next]_vars => ((connected \/ Reconnecting) /\ autoReconnect' => Kept)
  BY <1>1
<1>3. QED
  BY <1>2, IInvHolds, PTL DEF Spec, NoSilentGiveUp
-----------------------------------------------------------------------------
(* The requests over the connection (Requests.tla): their bookkeeping, what  *)
(* close() leaves, and that their steps are steps of Answers.tla.            *)

\* Told that nothing was done.
NotDone == {"NOT_CONNECTED", "refused"}

\* Told nothing, or nothing certain.
Uncertain == {"waiting", "REQUEST_TIMEOUT", "CONNECTION_CLOSED"}

\* A frame says what the proxy has done with the request, and is of one that
\* was asked; one on its way to the proxy is of a request nobody has settled
\* for certain.
WireTruth ==
  \A f \in wire :
    /\ f.kind = "request" => f.id \notin carried /\ told[f.id] \in Uncertain
    /\ f.kind = "answer" => f.id \in carried
    /\ f.kind = "error" => f.id \notin carried
    /\ f.kind \in {"answer", "error"} => Req!Of(f.id, "request") \notin wire
    /\ f.kind = "answer" => Req!Of(f.id, "error") \notin wire

\* What a promise says of what the proxy did.
PromiseTruth ==
  \A r \in Request :
    /\ told[r] = "resolved" => r \in carried
    /\ told[r] \in NotDone \cup {"none"} => r \notin carried
    /\ told[r] = "none" => \A f \in wire : f.id # r

RequestsInv == Req!TypeOK /\ Req!Bookkeeping /\ Req!NobodyWaitsAfterClose /\ WireTruth /\ PromiseTruth

-----------------------------------------------------------------------------

\* Init establishes the invariant.
LEMMA RequestsInit == Req!Init => RequestsInv
  BY DEF Req!Init, RequestsInv, Req!TypeOK, Req!Bookkeeping, Req!NobodyWaitsAfterClose,
         WireTruth, PromiseTruth,
         NotDone, Req!Frame, Req!Kind, Req!Settled

\* Every step keeps types.
LEMMA RequestsTypes == Req!TypeOK /\ [Req!Next]_Req!vars => Req!TypeOK'
<1> SUFFICES ASSUME Req!TypeOK, [Req!Next]_Req!vars PROVE Req!TypeOK'
  OBVIOUS
<1> USE DEF Req!TypeOK, Req!Settled
<1>1. ASSUME NEW r \in Request, Req!Ask(r) PROVE Req!TypeOK'
  BY <1>1 DEF Req!Ask, Req!Of, Req!Frame, Req!Kind
<1>2. ASSUME NEW f \in wire, Req!Arrive(f) PROVE Req!TypeOK'
  BY <1>2 DEF Req!Arrive, Req!Settle, Req!Ignore, Req!Frame
<1>3. ASSUME NEW r \in Request, Req!TimesOut(r) PROVE Req!TypeOK'
  BY <1>3 DEF Req!TimesOut, Req!Settle
<1>4. CASE Req!Close
  BY <1>4 DEF Req!Close, Req!RejectAllPending
<1>5. CASE Req!LinkEnds
  BY <1>5 DEF Req!LinkEnds
<1>6. CASE Req!LinkReopens
  BY <1>6 DEF Req!LinkReopens
<1>7. ASSUME NEW r \in Request, Req!ProxyCarriesOut(r) PROVE Req!TypeOK'
  BY <1>7 DEF Req!ProxyCarriesOut, Req!Of, Req!Frame, Req!Kind
<1>8. ASSUME NEW r \in Request, Req!ProxyRefuses(r) PROVE Req!TypeOK'
  BY <1>8 DEF Req!ProxyRefuses, Req!Of, Req!Frame, Req!Kind
<1>9. ASSUME NEW r \in Request, Req!ProxySaysElse(r) PROVE Req!TypeOK'
  BY <1>9 DEF Req!ProxySaysElse, Req!Of, Req!Frame, Req!Kind
<1>10. CASE UNCHANGED Req!vars
  BY <1>10 DEF Req!vars
<1> QED
  BY <1>1, <1>2, <1>3, <1>4, <1>5, <1>6, <1>7, <1>8, <1>9, <1>10 DEF Req!Next

\* Every step keeps the invariant.
LEMMA RequestsStep == RequestsInv /\ [Req!Next]_Req!vars => RequestsInv'
<1> SUFFICES ASSUME RequestsInv, [Req!Next]_Req!vars PROVE RequestsInv'
  OBVIOUS
<1>t. Req!TypeOK /\ Req!TypeOK'
  BY RequestsTypes DEF RequestsInv
<1>f. \A f \in wire : f = Req!Of(f.id, f.kind) /\ f.id \in Request /\ f.kind \in Req!Kind
  BY <1>t DEF Req!TypeOK, Req!Frame, Req!Of
<1> DEFINE Wanted == Req!Bookkeeping /\ Req!NobodyWaitsAfterClose /\ WireTruth /\ PromiseTruth
<1> USE DEF RequestsInv, Req!TypeOK, Req!Bookkeeping, Req!NobodyWaitsAfterClose, WireTruth,
            PromiseTruth,
            NotDone, Uncertain, Req!Settled
<1>1. ASSUME NEW r \in Request, Req!Ask(r) PROVE Wanted'
  BY <1>1, <1>t DEF Req!Ask, Req!Of, Req!Frame, Req!Kind
<1>2. ASSUME NEW f \in wire, Req!Arrive(f) PROVE Wanted'
  <2>1. CASE f.id \in pending /\ Req!Answers(f)
    BY ZenonT(40), <1>2, <1>t, <2>1 DEF Req!Arrive, Req!Settle, Req!Answers, Req!Frame, Req!Of
  <2>2. CASE f.id \in pending /\ f.kind = "error"
    <3>1. /\ wire' = wire \ {f} /\ UNCHANGED <<link, carried>>
          /\ Req!Settle(f.id, "refused")
      BY <1>2, <2>2 DEF Req!Arrive, Req!Answers
    <3>2. f.id \notin carried /\ Req!Of(f.id, "request") \notin wire
      BY <2>2
    <3>3. (Req!Bookkeeping /\ Req!NobodyWaitsAfterClose)'
      BY <1>t, <2>2, <3>1 DEF Req!Settle
    <3>4. PromiseTruth'
      BY <1>t, <2>2, <3>1, <3>2 DEF Req!Settle, Req!Frame
    <3>5. WireTruth'
      BY <1>t, <1>f, <2>2, <3>1, <3>2 DEF Req!Settle, Req!Frame
    <3> QED
      BY <3>3, <3>4, <3>5
  <2>3. CASE ~(f.id \in pending /\ (Req!Answers(f) \/ f.kind = "error"))
    BY <1>2, <1>t, <2>3 DEF Req!Arrive, Req!Ignore, Req!Frame, Req!Of
  <2> QED
    BY <2>1, <2>2, <2>3
<1>3. ASSUME NEW r \in Request, Req!TimesOut(r) PROVE Wanted'
  BY <1>3, <1>t DEF Req!TimesOut, Req!Settle, Req!Frame
<1>4. CASE Req!Close
  BY <1>4, <1>t DEF Req!Close, Req!RejectAllPending, Req!Frame
<1>5. CASE Req!LinkEnds
  BY <1>5, <1>t DEF Req!LinkEnds
<1>6. CASE Req!LinkReopens
  BY <1>6, <1>t DEF Req!LinkReopens
<1>7. ASSUME NEW r \in Request, Req!ProxyCarriesOut(r) PROVE Wanted'
  <2>1. r \notin carried /\ told[r] \in Uncertain
    BY <1>7 DEF Req!ProxyCarriesOut, Req!Of
  <2>2. (Req!Bookkeeping /\ Req!NobodyWaitsAfterClose)'
    BY <1>7, <1>t DEF Req!ProxyCarriesOut
  <2>3. PromiseTruth'
    BY <1>7, <1>t, <2>1 DEF Req!ProxyCarriesOut, Req!Of
  <2>4. WireTruth'
    <3>1. Req!Of(r, "error") \notin wire /\ Req!Of(r, "answer") \notin wire
      BY <1>7 DEF Req!ProxyCarriesOut, Req!Of
    <3>2. wire' = (wire \ {Req!Of(r, "request")}) \cup {Req!Of(r, "answer")}
      BY <1>7 DEF Req!ProxyCarriesOut
    <3>3. \A f \in wire \ {Req!Of(r, "request")} : f.id = r => f.kind = "stray"
      BY <1>f, <3>1 DEF Req!Kind
    <3>4. carried' = carried \cup {r} /\ told' = told
      BY <1>7 DEF Req!ProxyCarriesOut
    <3>5. ASSUME NEW f \in wire \ {Req!Of(r, "request")}
          PROVE  /\ f.kind = "request" => f.id \notin carried' /\ told'[f.id] \in Uncertain
                 /\ f.kind = "answer" => f.id \in carried'
                 /\ f.kind = "error" => f.id \notin carried'
                 /\ f.kind \in {"answer", "error"} => Req!Of(f.id, "request") \notin wire'
                 /\ f.kind = "answer" => Req!Of(f.id, "error") \notin wire'
      BY <3>2, <3>3, <3>4 DEF Req!Of
    <3>6. Req!Of(r, "request") \notin wire' /\ Req!Of(r, "error") \notin wire' /\ r \in carried'
      BY <3>1, <3>2, <3>4 DEF Req!Of
    <3>7. Req!Of(r, "answer").kind = "answer" /\ Req!Of(r, "answer").id = r
      BY DEF Req!Of
    <3> HIDE DEF Uncertain
    <3> QED
      BY <3>2, <3>5, <3>6, <3>7
  <2> QED
    BY <2>2, <2>3, <2>4
<1>8. ASSUME NEW r \in Request, Req!ProxyRefuses(r) PROVE Wanted'
  BY <1>8, <1>t DEF Req!ProxyRefuses, Req!Of, Req!Frame, Req!Kind
<1>9. ASSUME NEW r \in Request, Req!ProxySaysElse(r) PROVE Wanted'
  BY <1>9, <1>t DEF Req!ProxySaysElse, Req!Of, Req!Frame, Req!Kind
<1>10. CASE UNCHANGED Req!vars
  BY <1>10, <1>t DEF Req!vars
<1> QED
  BY <1>t, <1>1, <1>2, <1>3, <1>4, <1>5, <1>6, <1>7, <1>8, <1>9, <1>10 DEF Req!Next

\* The invariant holds throughout.
LEMMA RequestsInvHolds == RequestsSpec => []RequestsInv
  BY RequestsInit, RequestsStep, PTL DEF RequestsSpec, Req!Spec

-----------------------------------------------------------------------------

\* Whatever arrives, and whatever frames the proxy sends, the variables of the
\* client, the wire and the promises keep their types.
THEOREM RequestsTypeCorrect == RequestsSpec => []Req!TypeOK
<1>1. RequestsInv => Req!TypeOK
  BY DEF RequestsInv
<1> QED
  BY <1>1, RequestsInvHolds, PTL

\* this._pending and the armed timeouts are those of the promises that wait.
THEOREM BookkeepingHolds == RequestsSpec => []Bookkeeping
<1>1. RequestsInv => Bookkeeping
  BY DEF RequestsInv, Bookkeeping
<1> QED
  BY <1>1, RequestsInvHolds, PTL

\* close() leaves nobody waiting.
THEOREM NobodyWaitsAfterCloseHolds == RequestsSpec => []NobodyWaitsAfterClose
<1>1. RequestsInv => NobodyWaitsAfterClose
  BY DEF RequestsInv, NobodyWaitsAfterClose
<1> QED
  BY <1>1, RequestsInvHolds, PTL

-----------------------------------------------------------------------------

\* What the abstract caller is told when one promise changes.
LEMMA OutcomeChange ==
  ASSUME told \in [Request -> {"none", "waiting"} \cup Req!Settled],
         NEW r \in Request, NEW p \in {"none", "waiting"} \cup Req!Settled,
         told' = [told EXCEPT ![r] = p]
  PROVE  [x \in Request |-> Req!OutcomeOf(told'[x])]
           = [[x \in Request |-> Req!OutcomeOf(told[x])] EXCEPT ![r] = Req!OutcomeOf(p)]
  OBVIOUS

\* Every step of the client, the connection and the proxy is a step of Answers
\* or leaves what it speaks of alone.
LEMMA StepSimulation == RequestsInv /\ [Req!Next]_Req!vars => [Req!A!Next]_(Req!A!vars)
<1> SUFFICES ASSUME RequestsInv, [Req!Next]_Req!vars PROVE [Req!A!Next]_(Req!A!vars)
  OBVIOUS
<1> DEFINE out == [x \in Request |-> Req!OutcomeOf(told[x])]
<1>t. Req!TypeOK /\ WireTruth /\ PromiseTruth /\ Req!Bookkeeping
  BY DEF RequestsInv
<1>p. told \in [Request -> {"none", "waiting"} \cup Req!Settled]
  BY <1>t DEF Req!TypeOK
<1>w. \A r \in Request : r \in pending <=> told[r] = "waiting"
  BY <1>t DEF Req!Bookkeeping, Req!TypeOK
<1>same. UNCHANGED <<told, carried>> => UNCHANGED Req!A!vars
  BY DEF Req!A!vars
<1>1. ASSUME NEW r \in Request, Req!Ask(r) PROVE Req!A!Ask(r)
  <2>1. CASE link = "open"
    BY <1>1, <1>p, <2>1, OutcomeChange DEF Req!Ask, Req!A!Ask, Req!OutcomeOf
  <2>2. CASE link # "open"
    <3>1. told' = [told EXCEPT ![r] = "NOT_CONNECTED"] /\ UNCHANGED carried
      BY <1>1, <2>2 DEF Req!Ask
    <3>2. out' = [out EXCEPT ![r] = Req!OutcomeOf("NOT_CONNECTED")]
      BY <3>1, <1>p, OutcomeChange DEF Req!Settled
    <3> QED
      BY <1>1, <1>p, <3>1, <3>2 DEF Req!Ask, Req!A!Ask, Req!OutcomeOf
  <2> QED
    BY <2>1, <2>2
<1>2. ASSUME NEW f \in wire, Req!Arrive(f) PROVE Req!A!Settle(f.id) \/ UNCHANGED Req!A!vars
  <2>0. f.id \in Request
    BY <1>t DEF Req!TypeOK, Req!Frame
  <2>1. CASE f.id \in pending /\ Req!Answers(f)
    <3>1. told' = [told EXCEPT ![f.id] = "resolved"] /\ UNCHANGED carried
      BY <1>2, <2>1 DEF Req!Arrive, Req!Settle, Req!Answers
    <3>2. out' = [out EXCEPT ![f.id] = Req!OutcomeOf("resolved")]
      BY <3>1, <1>p, <2>0, OutcomeChange DEF Req!Settled
    <3>3. f.id \in carried
      BY <1>t, <2>1 DEF WireTruth, Req!Answers
    <3> QED
      BY <1>w, <2>0, <2>1, <3>1, <3>2, <3>3 DEF Req!A!Settle, Req!OutcomeOf
  <2>2. CASE f.id \in pending /\ f.kind = "error"
    <3>1. told' = [told EXCEPT ![f.id] = "refused"] /\ UNCHANGED carried
      BY <1>2, <2>2 DEF Req!Arrive, Req!Settle, Req!Answers
    <3>2. out' = [out EXCEPT ![f.id] = Req!OutcomeOf("refused")]
      BY <3>1, <1>p, <2>0, OutcomeChange DEF Req!Settled
    <3>3. f.id \notin carried
      BY <1>t, <2>2 DEF WireTruth
    <3> QED
      BY <1>w, <2>0, <2>2, <3>1, <3>2, <3>3 DEF Req!A!Settle, Req!OutcomeOf
  <2>3. CASE ~(f.id \in pending /\ (Req!Answers(f) \/ f.kind = "error"))
    BY <1>2, <2>3, <1>same DEF Req!Arrive, Req!Ignore
  <2> QED
    BY <2>1, <2>2, <2>3
<1>3. ASSUME NEW r \in Request, Req!TimesOut(r) PROVE Req!A!Settle(r)
  <2>1. told' = [told EXCEPT ![r] = "REQUEST_TIMEOUT"] /\ UNCHANGED carried
    BY <1>3 DEF Req!TimesOut, Req!Settle
  <2>2. out' = [out EXCEPT ![r] = Req!OutcomeOf("REQUEST_TIMEOUT")]
    BY <2>1, <1>p, OutcomeChange DEF Req!Settled
  <2>3. told[r] = "waiting"
    BY <1>3, <1>t DEF Req!TimesOut, Req!Bookkeeping
  <2> QED
    BY <2>1, <2>2, <2>3 DEF Req!A!Settle, Req!OutcomeOf
<1>4. CASE Req!Close
  <2>1. /\ told' = [r \in Request |->
                         IF told[r] = "waiting" THEN "CONNECTION_CLOSED" ELSE told[r]]
        /\ UNCHANGED carried
    BY <1>4, <1>w DEF Req!Close, Req!RejectAllPending
  <2>2. \A r \in Request : Req!OutcomeOf(told[r]) = "waiting" <=> told[r] = "waiting"
    BY <1>p DEF Req!OutcomeOf, Req!Settled
  <2>3. Req!OutcomeOf("CONNECTION_CLOSED") = "doubt"
    BY DEF Req!OutcomeOf
  <2>4. out' = [r \in Request |-> IF out[r] = "waiting" THEN "doubt" ELSE out[r]]
    BY <2>1, <2>2, <2>3
  <2> QED
    BY <2>1, <2>4 DEF Req!A!Next, Req!A!GiveUp
<1>5. CASE Req!LinkEnds
  BY <1>5, <1>same DEF Req!LinkEnds
<1>6. CASE Req!LinkReopens
  BY <1>6, <1>same DEF Req!LinkReopens
<1>7. ASSUME NEW r \in Request, Req!ProxyCarriesOut(r) PROVE Req!A!CarryOut(r)
  <2>1. told[r] \in Uncertain
    BY <1>7, <1>t DEF Req!ProxyCarriesOut, WireTruth, Req!Of
  <2>2. Req!OutcomeOf(told[r]) \in {"waiting", "doubt"}
    BY <2>1 DEF Req!OutcomeOf, Uncertain
  <2> QED
    BY <1>7, <2>2 DEF Req!ProxyCarriesOut, Req!A!CarryOut
<1>8. ASSUME NEW r \in Request, Req!ProxyRefuses(r) PROVE UNCHANGED Req!A!vars
  BY <1>8, <1>same DEF Req!ProxyRefuses
<1>9. ASSUME NEW r \in Request, Req!ProxySaysElse(r) PROVE UNCHANGED Req!A!vars
  BY <1>9, <1>same DEF Req!ProxySaysElse
<1>10. CASE UNCHANGED Req!vars
  BY <1>10, <1>same DEF Req!vars
<1>11. ASSUME NEW f \in wire PROVE f.id \in Request
  BY <1>t DEF Req!TypeOK, Req!Frame
<1> QED
  BY <1>1, <1>2, <1>3, <1>4, <1>5, <1>6, <1>7, <1>8, <1>9, <1>10, <1>11 DEF Req!Next, Req!A!Next

\* A promise of _request settles once, resolves only for what the proxy did,
\* and says "not connected" or "refused" only of what it did not and will not.
THEOREM ImplementsAnswersHolds == RequestsSpec => ImplementsAnswers
<1>1. Req!Init => Req!A!Init
  BY DEF Req!Init, Req!A!Init, Req!OutcomeOf
<1>2. RequestsInv /\ [Req!Next]_Req!vars => [Req!A!Next]_(Req!A!vars)
  BY StepSimulation
<1> QED
  BY <1>1, <1>2, RequestsInvHolds, PTL DEF RequestsSpec, Req!Spec, ImplementsAnswers,
     Req!ImplementsAnswers, Req!A!Steps
=============================================================================
