------------------------------ MODULE TurnRelay ------------------------------
(***************************************************************************)
(* The TURN relay of WebRTC (src/src/client.js: enableTurn,                *)
(* getTurnCredentials, close; src/src/webrtc.js: setIceServers,            *)
(* pinTurnToIPv4): temporary credentials asked of the proxy, renewed by a  *)
(* timer, and asked for again later when the proxy says not now.           *)
(*                                                                         *)
(* A run is one call of enableTurn(), by the app or by a timer, together   *)
(* with the timer it leaves behind, which becomes the next run when it     *)
(* fires.  this._turnTimer remembers one timer; nothing keeps runs from    *)
(* overlapping.                                                            *)
(***************************************************************************)
CONSTANTS
  Run,    \* bound: runs and timers at one time
  NoRun

\* Assumed by Services.
RunAssumption == NoRun \notin Run

VARIABLES
  link,       \* of this client to its proxy, shared with EncPubs
  run,        \* how far each run has got, and who called it or what its timer calls
  turnTimer,  \* this._turnTimer
  turn,       \* this._turn
  ice,        \* _rtc.iceServers: STUN alone, or the relay too
  crossed,    \* history: runs have overlapped, or close() came during one
  ended       \* history: a request that nobody repeats has failed since the last answer

vars == <<link, run, turnTimer, turn, ice, crossed, ended>>

Running == {"signing", "asked", "lost", "pinning"}
Idle == [stage |-> "none", by |-> "app"]

TypeOK ==
  /\ link \in {"open", "down", "closed"}
  /\ run \in [Run -> [stage : Running \cup {"none", "armed"}, by : {"app", "renewal", "again"}]]
  /\ turnTimer \in Run \cup {NoRun}
  /\ turn \in {"none", "active", "refused", "disabled"}
  /\ ice \in {"stun", "relay"}
  /\ crossed \in BOOLEAN
  /\ ended \in BOOLEAN

Init ==
  /\ link = "down"
  /\ run = [r \in Run |-> Idle]
  /\ turnTimer = NoRun
  /\ turn = "none"
  /\ ice = "stun"
  /\ crossed = FALSE
  /\ ended = FALSE

Is(r, stage) == run[r].stage = stage
Busy(r) == run[r].stage \in Running

-----------------------------------------------------------------------------
(* Timers *)

\* Seeded fault: the handle is forgotten and the timer not cleared.
BugClearTurnTimer == run

\* clearTimeout(this._turnTimer): of the timers, only the one remembered.
ClearTurnTimer ==
  [r \in Run |-> IF r = turnTimer /\ Is(r, "armed") THEN Idle ELSE run[r]]

\* A run ends, leaving a timer that replaces the one remembered, or none.
Arm(r, why) ==
  /\ run' = [run EXCEPT ![r] = [stage |-> "armed", by |-> why]]
  /\ turnTimer' = r

Ends(r) ==
  /\ run' = [run EXCEPT ![r] = Idle]
  /\ UNCHANGED turnTimer

Crosses(r) == crossed' = (crossed \/ \E q \in Run \ {r} : Busy(q))

-----------------------------------------------------------------------------
(* enableTurn *)

\* By the app, or by identify() once the proxy has acknowledged.
EnableTurn(r) ==
  /\ ClearTurnTimer[r] = Idle
  /\ run' = [ClearTurnTimer EXCEPT ![r] = [stage |-> "signing", by |-> "app"]]
  /\ turnTimer' = NoRun
  /\ Crosses(r)
  /\ UNCHANGED <<link, turn, ice, ended>>

\* A timer that fires forgets the one remembered, itself or another, and calls.
TimerFires(r) ==
  /\ Is(r, "armed")
  /\ run' = [run EXCEPT ![r].stage = "signing"]
  /\ turnTimer' = NoRun
  /\ Crosses(r)
  /\ UNCHANGED <<link, turn, ice, ended>>

Signed(r) ==
  /\ Is(r, "signing")
  /\ link = "open"
  /\ run' = [run EXCEPT ![r].stage = "asked"]
  /\ UNCHANGED <<link, turnTimer, turn, ice, crossed, ended>>

Answered(r) ==
  /\ Is(r, "asked")
  /\ link = "open"
  /\ ended' = FALSE

\* Credentials: before they are used, their names are turned into addresses.
Granted(r) ==
  /\ Answered(r)
  /\ turn' = "active"
  /\ run' = [run EXCEPT ![r].stage = "pinning"]
  /\ UNCHANGED <<link, turnTimer, ice, crossed>>

Pinned(r) ==
  /\ Is(r, "pinning")
  /\ ice' = "relay"
  /\ Arm(r, "renewal")
  /\ UNCHANGED <<link, turn, crossed, ended>>

\* Seeded fault: nobody asks again later.
BugRefused(r) ==
  /\ Answered(r)
  /\ turn' = "refused"
  /\ ice' = "stun"
  /\ Ends(r)
  /\ UNCHANGED <<link, crossed>>

\* Status 429, not now: the relay is given up, and asked for again later.
Refused(r) ==
  /\ Answered(r)
  /\ turn' = "refused"
  /\ ice' = "stun"
  /\ Arm(r, "again")
  /\ UNCHANGED <<link, crossed>>

\* The proxy has no relay.  The servers in use are left as they are.
Disabled(r) ==
  /\ Answered(r)
  /\ turn' = "disabled"
  /\ Ends(r)
  /\ UNCHANGED <<link, ice, crossed>>

\* Seeded fault: a renewal that fails is not tried again.
BugEnableTurnFails(r) ==
  /\ run[r].stage \in {"signing", "asked", "lost"}
  /\ Ends(r)
  /\ ended' = (ended \/ run[r].by # "renewal")
  /\ UNCHANGED <<link, turn, ice, crossed>>

\* Signing fails, the request cannot leave, or it gets no answer or an error.
\* A failed renewal is tried once more; other failures are the caller's, and
\* the caller that is a timer says nothing.
EnableTurnFails(r) ==
  /\ run[r].stage \in {"signing", "asked", "lost"}
  /\ IF run[r].by = "renewal"
       THEN Arm(r, "again") /\ UNCHANGED ended
       ELSE Ends(r) /\ ended' = TRUE
  /\ UNCHANGED <<link, turn, ice, crossed>>

-----------------------------------------------------------------------------
(* The connection *)

\* A request of a connection that broke only times out.
Losing(runs) ==
  [r \in Run |-> IF Is(r, "asked") THEN [runs[r] EXCEPT !.stage = "lost"] ELSE runs[r]]

LinkDrops ==
  /\ link = "open"
  /\ link' = "down"
  /\ run' = Losing(run)
  /\ UNCHANGED <<turnTimer, turn, ice, crossed, ended>>

LinkOpens ==
  /\ link # "open"
  /\ link' = "open"
  /\ UNCHANGED <<run, turnTimer, turn, ice, crossed, ended>>

\* close() clears the timer; of the runs under way it only rejects the requests,
\* which is for EnableTurnFails.
Close ==
  /\ link # "closed"
  /\ link' = "closed"
  /\ run' = Losing(ClearTurnTimer)
  /\ turnTimer' = NoRun
  /\ crossed' = (crossed \/ \E r \in Run : Busy(r))
  /\ ended' = TRUE
  /\ UNCHANGED <<turn, ice>>

-----------------------------------------------------------------------------

\* A run goes on, by itself or by what it awaits.
GoesOn(r) ==
  \/ TimerFires(r)
  \/ Signed(r)
  \/ Granted(r)
  \/ Pinned(r)
  \/ Refused(r)
  \/ Disabled(r)
  \/ EnableTurnFails(r)

Next ==
  \/ \E r \in Run : GoesOn(r)
  \/ \E r \in Run : EnableTurn(r)
  \/ LinkDrops
  \/ LinkOpens
  \/ Close

Spec == Init /\ [][Next]_vars

\* Timers fire, names resolve or do not, signing ends one way or the other, and
\* so does a request: the connection answers while it is up, or the timeout does.
Fairness == \A r \in Run : WF_vars(GoesOn(r))

FairSpec == Spec /\ Fairness

-----------------------------------------------------------------------------

OneTimer ==
  /\ \A r, q \in Run : run[r] # Idle /\ run[q] # Idle => r = q
  /\ \A r \in Run : Is(r, "armed") => turnTimer = r /\ link # "closed"

RefusedIsGivenUp == turn = "refused" => ice = "stun"

\* As long as no run overlaps another or a close(): there is one run or one timer,
\* close() can reach that one and leaves none, and new channels use no relay that
\* the proxy refuses.
InOrder == ~crossed => OneTimer /\ RefusedIsGivenUp

\* Whatever overlaps, a relay that is in use goes on being renewed, and one that
\* was refused goes on being asked for, until a request fails that nobody repeats.
RenewalGoesOn ==
  turn \in {"active", "refused"} /\ ~ended => \E r \in Run : run[r] # Idle

\* A device that was told not now has its relay again, and need not reconnect for
\* that, if from some moment the connection stays up, the proxy refuses nobody and
\* no request fails that nobody repeats.
ComesBackOn ==
  /\ <>[](link = "open" /\ ~ended)
  /\ <>[][\A r \in Run : ~Refused(r)]_vars
  => (turn = "refused" ~> turn # "refused")
=============================================================================
