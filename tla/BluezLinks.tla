----------------------------- MODULE BluezLinks -----------------------------
(***************************************************************************)
(* The links of one central to one device over BlueZ (ble/bluez.js:        *)
(* connect and the signals), as the Bluetooth manager uses them: the       *)
(* search for peers keeps a link for a channel, discover() reads what the  *)
(* device announces and closes it again.  Both go one at a time            *)
(* (_withConnectLock), but the links that are kept live on.                *)
(*                                                                         *)
(* All links to the device are one connection of BlueZ's, and its          *)
(* notifications go to one handler.  The other device may be a central of  *)
(* ours on the same connection.  Signals and replies come over one bus, in *)
(* order: a call is answered by what BlueZ has at that place of the order. *)
(***************************************************************************)
EXTENDS Integers, Sequences

CONSTANTS
  Seeker,  \* visits of the search for peers
  Looker,  \* visits of discover(), others than those
  Nobody

Visit == Seeker \cup Looker

VARIABLES
  up,         \* the device is connected
  notifying,  \* BlueZ passes its notifications on to us
  handler,    \* valueHandlers: whose link they go to
  line,       \* who waits for the lock
  lock,       \* who has it
  visit       \* each visit, with its link

vars == <<up, notifying, handler, line, lock, visit>>

None ==
  [step  |-> "no",
   was   |-> FALSE,   \* wasConnected
   open  |-> FALSE,   \* there is a link, and `closed` is not set
   held  |-> FALSE,   \* a peer has it in p.link
   ending |-> "no"]   \* what close() awaits

Init ==
  /\ up \in BOOLEAN
  /\ notifying = FALSE
  /\ handler = Nobody
  /\ line = <<>>
  /\ lock = Nobody
  /\ visit = [v \in Visit |-> None]

Step(v, s) == [visit EXCEPT ![v].step = s]

-----------------------------------------------------------------------------
(* The lock.                                                               *)

Probing(v) == v = lock \/ \E n \in 1 .. Len(line) : line[n] = v

\* The device is found on the air (for peers: unless it is being probed).
Seek(v) ==
  /\ visit[v] = None
  /\ v \in Seeker => \A w \in Seeker : ~Probing(w)
  /\ line' = Append(line, v)
  /\ visit' = Step(v, "line")
  /\ UNCHANGED <<up, notifying, handler, lock>>

\* _withConnectLock.
TakeLock(v) ==
  /\ line # <<>> /\ v = Head(line) /\ lock = Nobody
  /\ lock' = v
  /\ line' = Tail(line)
  /\ visit' = Step(v, "ask")
  /\ UNCHANGED <<up, notifying, handler>>

Unlock(v) == IF lock = v THEN Nobody ELSE lock

-----------------------------------------------------------------------------
(* The end of the connection, and of a link.                               *)

\* Connected is FALSE: every link is told (closeHandlers), its peer lets go of it.
AllTold ==
  [v \in Visit |-> IF up /\ visit[v].open THEN [visit[v] EXCEPT !.open = FALSE, !.held = FALSE]
                   ELSE visit[v]]

Gone ==
  /\ up' = FALSE
  /\ notifying' = FALSE
  /\ handler' = IF up /\ \E v \in Visit : visit[v].open THEN Nobody ELSE handler

\* The device goes, or comes as a central of ours.
DeviceGoes ==
  /\ up
  /\ Gone
  /\ visit' = AllTold
  /\ UNCHANGED <<line, lock>>

DeviceComes ==
  /\ ~up
  /\ up' = TRUE
  /\ UNCHANGED <<notifying, handler, line, lock, visit>>

\* close(), up to its first await.
Closing(v, r) ==
  IF ~r.open THEN [r EXCEPT !.ending = "done"]
  ELSE IF handler # Nobody THEN [r EXCEPT !.ending = "stop"]
  ELSE IF ~r.was THEN [r EXCEPT !.ending = "cut"]
  ELSE [r EXCEPT !.ending = "done"]

\* StopNotify is answered, after a StartNotify called before.
Stopped(v) ==
  /\ visit[v].ending = "stop" /\ visit[v].step # "subscribe"
  /\ notifying' = FALSE
  /\ visit' = [visit EXCEPT ![v].ending = IF visit[v].was THEN "done" ELSE "cut"]
  /\ UNCHANGED <<up, handler, line, lock>>

Cut(v) ==
  /\ visit[v].ending = "cut"
  /\ Gone
  /\ visit' = [AllTold EXCEPT ![v].ending = "done"]
  /\ UNCHANGED <<line, lock>>

\* fireClose; and the lock, if the link was closed under it.
Closed(v) ==
  /\ visit[v].ending = "done" /\ visit[v].step # "subscribe"
  /\ handler' = IF visit[v].open THEN Nobody ELSE handler
  /\ lock' = Unlock(v)
  /\ visit' = [visit EXCEPT ![v] = None]
  /\ UNCHANGED <<up, notifying, line>>

-----------------------------------------------------------------------------
(* connect(), read, and what becomes of the link.                          *)

\* What Get says of Connected.
WasConnected(v) == up

Ask(v) ==
  /\ visit[v].step = "ask"
  /\ visit' = [visit EXCEPT ![v].was = WasConnected(v),
                            ![v].step = IF up THEN "services" ELSE "connect"]
  /\ UNCHANGED <<up, notifying, handler, line, lock>>

Connect(v) ==
  /\ visit[v].step = "connect"
  /\ up' = TRUE
  /\ visit' = Step(v, "services")
  /\ UNCHANGED <<notifying, handler, line, lock>>

\* An error; or no answer in time, then Disconnect is called.
ConnectFails(v) ==
  /\ visit[v].step = "connect"
  /\ \/ visit' = [visit EXCEPT ![v] = None] /\ UNCHANGED <<up, notifying, handler>>
     \/ visit' = [AllTold EXCEPT ![v] = None] /\ Gone
  /\ lock' = Unlock(v)
  /\ UNCHANGED line

\* ServicesResolved, now or after a while.
Resolved(v) ==
  /\ visit[v].step = "services" /\ up
  /\ visit' = Step(v, "objects")
  /\ UNCHANGED <<up, notifying, handler, line, lock>>

\* GetManagedObjects: there is the service, and now there is a link.
Objects(v) ==
  /\ visit[v].step = "objects"
  /\ visit' = [visit EXCEPT ![v].step = "read", ![v].open = TRUE]
  /\ UNCHANGED <<up, notifying, handler, line, lock>>

\* They do not come in time, or there is no service of ours: whoever connected
\* disconnects.
NoService(v) ==
  /\ visit[v].step \in {"services", "objects"}
  /\ \/ visit[v].was /\ visit' = [visit EXCEPT ![v] = None] /\ UNCHANGED <<up, notifying, handler>>
     \/ ~visit[v].was /\ visit' = [AllTold EXCEPT ![v] = None] /\ Gone
  /\ lock' = Unlock(v)
  /\ UNCHANGED line

\* The bid is wanted: the manager has one peer at most for this device that has
\* not let go of its link.
Wanted(v) == v \in Seeker /\ \A w \in Seeker : ~visit[w].held

\* The value is read.  A link that nobody wants is closed.  One that is wanted is
\* the peer's from now on, and subscribes (_attachLink).
Read(v) ==
  /\ visit[v].step = "read" /\ up
  /\ \/ /\ visit' = [visit EXCEPT ![v] = Closing(v, [@ EXCEPT !.step = "close"])]
        /\ UNCHANGED handler
     \/ /\ Wanted(v)
        /\ visit' = [visit EXCEPT ![v].step = "subscribe", ![v].held = TRUE]
        /\ handler' = v
  /\ UNCHANGED <<up, notifying, line, lock>>

\* StartNotify; then the hello is written, which a link that has been closed
\* meanwhile does not take.
Subscribed(v) ==
  /\ visit[v].step = "subscribe" /\ up
  /\ notifying' = TRUE
  /\ visit' = [visit EXCEPT ![v] =
                 IF @.held /\ @.open THEN [@ EXCEPT !.step = "kept"]
                 ELSE [@ EXCEPT !.step = "close", !.held = FALSE,
                                !.ending = IF @ = "no" THEN "done" ELSE @]]
  /\ lock' = Unlock(v)
  /\ UNCHANGED <<up, handler, line>>

\* A call is refused: the link is closed, if that is not under way.
CallFails(v) ==
  /\ visit[v].step \in {"read", "subscribe"}
  /\ visit' = [visit EXCEPT ![v] =
                 IF @.ending = "no" THEN Closing(v, [@ EXCEPT !.step = "close", !.held = FALSE])
                 ELSE [@ EXCEPT !.step = "close"]]
  /\ UNCHANGED <<up, notifying, handler, line, lock>>

\* The peer ends its channel (_release): it lets go, and the link is closed.
Release(v) ==
  /\ visit[v].held /\ visit[v].ending = "no"
  /\ visit' = [visit EXCEPT ![v] =
                 Closing(v, [@ EXCEPT !.held = FALSE, !.step = IF @ = "kept" THEN "close" ELSE @])]
  /\ UNCHANGED <<up, notifying, handler, line, lock>>

\* A channel that was told of the end: nothing is left to do.
Over(v) ==
  /\ visit[v].step = "kept" /\ ~visit[v].held /\ visit[v].ending = "no"
  /\ visit' = [visit EXCEPT ![v] = None]
  /\ UNCHANGED <<up, notifying, handler, line, lock>>

\* What BlueZ or the manager does next for a visit, good or bad.
Proceeds(v) ==
  \/ TakeLock(v) \/ Ask(v) \/ Connect(v) \/ ConnectFails(v) \/ Resolved(v) \/ Objects(v)
  \/ NoService(v) \/ Read(v) \/ Subscribed(v) \/ CallFails(v)
  \/ Stopped(v) \/ Cut(v) \/ Closed(v) \/ Over(v)

Next ==
  \/ \E v \in Visit : Seek(v) \/ Proceeds(v) \/ Release(v)
  \/ DeviceGoes \/ DeviceComes

Spec == Init /\ [][Next]_vars

\* Every call over the bus is answered (connect() has a timeout of its own).
FairSpec == Spec /\ \A v \in Visit : WF_vars(Proceeds(v))

-----------------------------------------------------------------------------
\* Every variable has its type; who waits, waits once, and not for itself.
TypeOK ==
  /\ up \in BOOLEAN /\ notifying \in BOOLEAN
  /\ handler \in Visit \cup {Nobody} /\ lock \in Visit \cup {Nobody}
  /\ line \in Seq(Visit)
  /\ \A m, n \in 1 .. Len(line) : line[m] = line[n] => m = n
  /\ lock \notin {line[n] : n \in 1 .. Len(line)}
  /\ visit \in [Visit -> [step : {"no", "line", "ask", "connect", "services", "objects", "read",
                                  "subscribe", "kept", "close"},
                          was : BOOLEAN, open : BOOLEAN, held : BOOLEAN,
                          ending : {"no", "stop", "cut", "done"}]]

\* A channel's link is a link that works: when the connection ends, whoever ends
\* it and however many links were on it, every peer that has one is told.
KeptIsUp == \A v \in Visit : visit[v].held /\ visit[v].step = "kept" => up /\ visit[v].open

\* Who only looked does not cut a channel: when a visit closes its link and cuts
\* the connection while it has the lock, no peer has a link on it.
LookingCutsNoChannel ==
  \A v \in Visit : visit[v].ending = "cut" /\ lock = v => \A w \in Visit : ~visit[w].held

\* Everybody gets a turn, whatever becomes of those before.
EverybodyHasATurn == \A v \in Visit : visit[v].step = "line" ~> visit[v].step # "line"

\* The comment of connect (bluez.js:237): where there was a connection already, it is
\* not cut at the end, since that would cut the channel on it.  A channel that is
\* kept hears what the device notifies.
ChannelHears ==
  \A v \in Visit : visit[v].held /\ visit[v].step = "kept" => handler = v /\ notifying
=============================================================================
