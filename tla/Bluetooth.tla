------------------------------ MODULE Bluetooth ------------------------------
(***************************************************************************)
(* The Bluetooth managers (ble/manager.js) of several devices: keys agreed *)
(* over the proxy, the search on the air, the greeting that says who is at *)
(* the other end of a link, and the records of an open channel.            *)
(*                                                                         *)
(* A peer is a BlePeer object.  The code's promises close over it, so one  *)
(* that was dropped, closed or replaced lives on until they are done.  An  *)
(* ephemeral key pair belongs to one peer and stands for it: the key of a  *)
(* channel is that of two peers, and each end has it if each derived from  *)
(* the other's half.  Sealing and opening are perfect.                     *)
(*                                                                         *)
(* Of two devices the one with the greater token is the central.  They     *)
(* share one physical link at most, as in BlueZ (ble/bluez.js).            *)
(***************************************************************************)
EXTENDS Integers, FiniteSets, Sequences

CONSTANTS
  Node,       \* the devices, each with the token of its client
  Rank,       \* the order of the tokens as strings
  MaxPeers,   \* bound: peers of each device for each other one, over or not
  MaxBid,     \* bound: bids of each device
  MaxRecords, \* bound: records sealed by each peer
  MaxTroubles \* bound: failures, timeouts, losses and ends asked for

Peer == UNION {{n} \X (Node \ {n}) \X (1 .. MaxPeers[n]) : n \in Node}
Link == {l \in Node \X Node : Rank[l[1]] > Rank[l[2]]}   \* <<central, peripheral>>
NoPeer == <<"none", "none", 0>>

ASSUME BluetoothAssumptions ==
  /\ IsFiniteSet(Node)
  /\ "none" \notin Node
  /\ Rank \in [Node -> Nat]
  /\ \A m, n \in Node : Rank[m] = Rank[n] => m = n
  /\ MaxPeers \in [Node -> Nat]
  /\ MaxBid \in [Node -> Nat \ {0}]
  /\ MaxRecords \in Nat
  /\ MaxTroubles \in Nat

VARIABLES
  on,        \* there is an adapter
  opening,   \* what _bleStarting awaits
  closed,    \* _closed of the client
  bid,       \* this.bid, numbered in the order they are made
  wire,      \* signals on their way to each device
  peer,      \* the peers
  scan,      \* the search
  probe,     \* what holds the connect lock
  seen,      \* _seen: the bid read from a device lately, 0 if none
  link,      \* the links, with what each end keeps of them
  troubles   \* history: how often something has gone against a channel

vars == <<on, opening, closed, bid, wire, peer, scan, probe, seen, link, troubles>>

IsCentral(p) == Rank[p[1]] > Rank[p[2]]
LinkOf(p) == IF IsCentral(p) THEN <<p[1], p[2]>> ELSE <<p[2], p[1]>>

\* What a signal brings of its sender: whose ephemeral key, and the bid.
Half == [by : Peer, bid : Nat]
NoHalf == [by |-> NoPeer, bid |-> 0]
Frame == [kind : {"offer", "answer"}, half : Half]

\* A sealed record: by whom, for whom (the key), with which counter, type, and
\* the tag of its chunks if it goes to a central.
Record == [by : Peer, to : Peer, ctr : Nat, type : {"hello", "data"}, tag : Nat]
NoRecord == [by |-> NoPeer, to |-> NoPeer, ctr |-> 0, type |-> "hello", tag |-> 0]

\* A record being opened: for a peer, or to find out which peer wrote it
\* (then `left` are the tokens still to be tried); or finding out has thrown, and
\* the central's chain is at its end.
Job == [how : {"none", "record", "identify", "thrown"}, rec : Record \cup {NoRecord},
        peer : Peer \cup {NoPeer}, left : SUBSET Node, gone : BOOLEAN]
NoJob == [how |-> "none", rec |-> NoRecord, peer |-> NoPeer, left |-> {}, gone |-> FALSE]

BlePeer ==
  [state    : {"unused", "new", "offered", "keyed", "open", "failed", "closed"},
   mapped   : BOOLEAN,                      \* it is in this.peers
   making   : {"no", "offer", "answer"},    \* makeEphemeral() has not resolved
   deriving : SUBSET Half,                  \* nor deriveKey(), of these
   half     : Half \cup {NoHalf},           \* what `key` and `theirBid` come from
   rekeyed  : BOOLEAN,                      \* history: and another signal came meanwhile
   myBid    : Nat,
   wanted   : SUBSET Nat,                   \* this.wanted leads from these bids to it
   timer    : BOOLEAN,
   resting  : BOOLEAN,                      \* failed less than FAIL_RETRY_MS ago
   link     : {"none", "own", "shared", "ownClosing", "sharedClosing"},
   central  : BOOLEAN,                      \* `central` is set
   late     : BOOLEAN,                      \* ... but by an _identify that ended after stop()
   sendCtr  : Nat,
   recvCtr  : Nat,
   queue    : Seq({"hello", "data"})]

Unused ==
  [state |-> "unused", mapped |-> FALSE, making |-> "no", deriving |-> {}, half |-> NoHalf,
   rekeyed |-> FALSE, myBid |-> 0, wanted |-> {}, timer |-> FALSE, resting |-> FALSE, link |-> "none",
   central |-> FALSE, late |-> FALSE, sendCtr |-> 0, recvCtr |-> 0, queue |-> <<>>]

Down ==
  [up      |-> FALSE,
   forgotten |-> FALSE,  \* history: the peer that held it has attached another one
   hangup  |-> FALSE,    \* a Disconnect is on its way
   handler |-> NoPeer,   \* central: whom the notifications are for
   toCentral |-> <<>>, fromPeripheral |-> NoJob,
   owner   |-> NoPeer,   \* peripheral: the central's `peer`
   hello   |-> NoRecord, \* and its pendingHello
   retry   |-> FALSE,    \* _retryHellos is to try it again
   toPeripheral |-> <<>>, fromCentral |-> NoJob]

NoProbe == [step |-> "no", dev |-> "none", own |-> FALSE, peer |-> NoPeer]

Init ==
  /\ on = [n \in Node |-> TRUE]
  /\ opening = [n \in Node |-> "no"]
  /\ closed = [n \in Node |-> FALSE]
  /\ bid = [n \in Node |-> 1]
  /\ wire = [n \in Node |-> <<>>]
  /\ peer = [p \in Peer |-> Unused]
  /\ scan = [n \in Node |-> "off"]
  /\ probe = [n \in Node |-> NoProbe]
  /\ seen = [l \in Link |-> 0]
  /\ link = [l \in Link |-> Down]
  /\ troubles = 0

\* Something goes wrong, or is ended on purpose.
Trouble == troubles < MaxTroubles /\ troubles' = troubles + 1

\* Nothing went wrong, but a negotiation was given up for another one.
Marred(given_up) == troubles' = IF given_up /\ troubles = 0 THEN 1 ELSE troubles

-----------------------------------------------------------------------------
(* Peers and the map.                                                      *)

Mapped(n, t) == {p \in Peer : p[1] = n /\ p[2] = t /\ peer[p].mapped}

Done(r) == r.state \in {"failed", "closed"}

\* Nothing of the peer can happen any more, and nothing refers to it.
Idle(r) ==
  /\ r.state \in {"unused", "failed", "closed"}
  /\ ~r.mapped /\ r.making = "no" /\ r.deriving = {} /\ r.wanted = {}
  /\ ~r.timer /\ r.link = "none" /\ ~r.central

RecordsOf(l) ==
  {link[l].toCentral[i] : i \in 1 .. Len(link[l].toCentral)}
    \cup {link[l].toPeripheral[i] : i \in 1 .. Len(link[l].toPeripheral)}
    \cup {link[l].hello, link[l].fromCentral.rec, link[l].fromPeripheral.rec}

Free(p) ==
  /\ Idle(peer[p]) /\ ~peer[p].late
  /\ \A n \in Node : probe[n].peer # p /\ \A i \in 1 .. Len(wire[n]) : wire[n][i].half.by # p
  /\ \A q \in Peer :
       Idle(peer[q]) \/ (peer[q].half.by # p /\ \A h \in peer[q].deriving : h.by # p)
  /\ \A l \in Link :
       /\ p \notin {link[l].owner, link[l].handler, link[l].fromCentral.peer, link[l].fromPeripheral.peer}
       /\ \A rec \in RecordsOf(l) : rec.by # p /\ rec.to # p

\* _newPeer.
NewPeer(n, t) ==
  LET free == {p \in Peer : p[1] = n /\ p[2] = t /\ Free(p)}
  IN {p \in free : \A q \in free : p[3] <= q[3]}

-----------------------------------------------------------------------------
(* What the methods do to a peer.                                          *)

LetGo(state) == CASE state = "own" -> "ownClosing" [] state = "shared" -> "sharedClosing"
                  [] OTHER -> state

\* _release.
Release(r) ==
  [r EXCEPT !.timer = FALSE, !.wanted = @ \ {r.half.bid}, !.link = LetGo(@),
            !.central = FALSE, !.late = FALSE]

Fail(r) ==
  IF r.state = "closed" THEN r ELSE [Release(r) EXCEPT !.state = "failed", !.resting = TRUE]

\* _closed, and _drop.
Close(r) == [Release(r) EXCEPT !.state = "closed", !.mapped = FALSE]
Closed(r) == IF r.state = "closed" THEN r ELSE Close(r)

Open(r) == [r EXCEPT !.timer = FALSE, !.state = "open"]

Say(r, type) == [r EXCEPT !.queue = Append(@, type)]

Searching(n, peers) == \E p \in Peer : p[1] = n /\ peers[p].wanted # {}

\* A link is hung up if a peer lets go of it; a search ends with the last peer
\* that wanted something.
Hung(peers, links) ==
  [l \in Link |->
     [links[l] EXCEPT
        !.hangup = @ \/ (links[l].up /\ \E p \in Peer :
                            /\ LinkOf(p) = l
                            /\ \/ peer[p].link = "own" /\ peers[p].link = "ownClosing"
                               \/ peer[p].central /\ ~peers[p].central /\ on[p[1]]
                               \/ peer[p].late /\ ~peers[p].late /\ on[p[1]]),
        !.owner = IF @ # NoPeer /\ ~peers[@].central THEN NoPeer ELSE @]]

Rested(peers, scans) ==
  [n \in Node |-> IF scans[n] = "on" /\ Searching(n, peer) /\ ~Searching(n, peers)
                  THEN "stopping" ELSE scans[n]]

\* The peers become these; what that means for links and search.
BecomeAll(peers, links, scans) ==
  /\ peer' = peers
  /\ link' = Hung(peers, links)
  /\ scan' = Rested(peers, scans)

Become(p, r) == BecomeAll([peer EXCEPT ![p] = r], link, scan)

-----------------------------------------------------------------------------
(* Signals.                                                                *)

Signal(p, kind) ==
  wire' = [wire EXCEPT ![p[2]] =
             Append(@, [kind |-> kind, half |-> [by |-> p, bid |-> bid[p[1]]]])]

\* upgrade: unless something is under way, or failed a short time ago.
Upgrade(n, t) ==
  /\ on[n]
  /\ \A q \in Mapped(n, t) : peer[q].state = "failed" /\ ~peer[q].resting
  /\ \E p \in NewPeer(n, t) :
       peer' = [q \in Peer |->
                  IF q = p THEN [Unused EXCEPT !.state = "new", !.mapped = TRUE, !.making = "offer"]
                  ELSE IF q \in Mapped(n, t) THEN [peer[q] EXCEPT !.mapped = FALSE]
                  ELSE peer[q]]
  /\ UNCHANGED <<on, opening, closed, bid, wire, scan, probe, seen, link, troubles>>

\* _offer goes on, whatever became of the peer.
OfferReady(p) ==
  /\ peer[p].making = "offer"
  /\ peer' = [peer EXCEPT ![p].making = "no", ![p].state = "offered",
                          ![p].myBid = bid[p[1]], ![p].timer = TRUE]
  /\ Signal(p, "offer")
  /\ UNCHANGED <<on, opening, closed, bid, scan, probe, seen, link, troubles>>

\* An offer that crosses one of ours is taken for its answer.
TakenForAnswer(r) == r.state = "offered"

\* handleIncoming, _handleSignal.
Receive(n) ==
  /\ wire[n] # <<>>
  /\ LET f == Head(wire[n])
         t == f.half.by[1]
         known == Mapped(n, t)
     IN \/ /\ on[n]
           /\ \E p \in known :
                /\ TakenForAnswer(peer[p])
                /\ peer' = [peer EXCEPT ![p].rekeyed = @ \/ peer[p].deriving # {},
                                        ![p].deriving = @ \cup {f.half}]
                /\ Marred(peer[p].deriving # {})
           /\ UNCHANGED <<scan, link>>
        \/ /\ on[n]
           /\ f.kind = "offer"
           /\ \A p \in known : ~TakenForAnswer(peer[p])
           /\ \E q \in NewPeer(n, t) :
                BecomeAll([p \in Peer |->
                    IF p = q THEN [Unused EXCEPT !.state = "new", !.mapped = TRUE,
                                                 !.making = "answer", !.deriving = {f.half}]
                    ELSE IF p \in known THEN Close(peer[p]) ELSE peer[p]], link, scan)
           /\ Marred(known # {})
        \/ /\ ~on[n] \/ (f.kind = "answer" /\ \A p \in known : ~TakenForAnswer(peer[p]))
           /\ UNCHANGED <<peer, link, scan, troubles>>
  /\ wire' = [wire EXCEPT ![n] = Tail(@)]
  /\ UNCHANGED <<on, opening, closed, bid, probe, seen>>

\* _handleSignal goes on with an ephemeral key of its own.
AnswerReady(p) ==
  /\ peer[p].making = "answer"
  /\ peer' = [peer EXCEPT ![p].making = "no", ![p].myBid = bid[p[1]]]
  /\ Signal(p, "answer")
  /\ UNCHANGED <<on, opening, closed, bid, scan, probe, seen, link, troubles>>

\* What _addScan asks of the adapter, which is null after stop(): that throws.
Asked(n) == IF on[n] THEN "starting" ELSE "failing"

\* _addScan.
Searched(n) == CASE scan[n] = "off" -> Asked(n) [] scan[n] = "stopping" -> "restarting"
                 [] OTHER -> scan[n]

BugKeyedKeepsTimer(p, h) ==
  [peer[p] EXCEPT !.deriving = @ \ {h}, !.half = h, !.state = "keyed",
                  !.wanted = IF IsCentral(p) THEN @ \cup {h.bid} ELSE @]

\* The key is there: the central wants the bid, the peripheral awaits it.
Keyed(p, h) ==
  [peer[p] EXCEPT !.deriving = @ \ {h}, !.half = h, !.state = "keyed", !.timer = TRUE,
                  !.wanted = IF IsCentral(p) THEN @ \cup {h.bid} ELSE @]

BugHellosNotRetried(n) == link

\* _retryHellos.
RetryHellos(n) ==
  [l \in Link |-> [link[l] EXCEPT
     !.retry = @ \/ (l[2] = n /\ link[l].owner = NoPeer /\ link[l].hello # NoRecord)]]

\* _handleSignal goes on with the key.  A bid leads to the last peer that
\* wanted it.
Derived(p, h) ==
  LET n == p[1] IN
  /\ peer[p].making = "no" /\ h \in peer[p].deriving
  /\ \/ /\ IsCentral(p)
        /\ peer' = [q \in Peer |->
                      IF q = p THEN Keyed(p, h)
                      ELSE IF q[1] = n /\ q[2] = p[2] THEN [peer[q] EXCEPT !.wanted = @ \ {h.bid}]
                      ELSE peer[q]]
        /\ scan' = [scan EXCEPT ![n] = Searched(n)]
        /\ UNCHANGED link
     \/ /\ ~IsCentral(p)
        /\ peer' = [peer EXCEPT ![p] = Keyed(p, h)]
        /\ link' = RetryHellos(n)
        /\ UNCHANGED scan
  /\ UNCHANGED <<on, opening, closed, bid, wire, probe, seen, troubles>>

-----------------------------------------------------------------------------
(* The search.                                                             *)

\* The adapter has begun to search; stop() does not wait for it.
ScanStarts(n) ==
  /\ scan[n] = "starting"
  /\ scan' = [scan EXCEPT ![n] = IF Searching(n, peer) THEN "on" ELSE "stopping"]
  /\ UNCHANGED <<on, opening, closed, bid, wire, peer, probe, seen, link, troubles>>

\* ... or cannot: whoever asked for it fails.
ScanFails(n) ==
  /\ scan[n] \in {"starting", "failing"}
  /\ BecomeAll([p \in Peer |-> IF p[1] = n /\ peer[p].wanted # {} THEN Fail(peer[p]) ELSE peer[p]],
               link, [scan EXCEPT ![n] = "off"])
  /\ IF on[n] /\ scan[n] = "starting" THEN Trouble ELSE UNCHANGED troubles
  /\ UNCHANGED <<on, opening, closed, bid, wire, probe, seen>>

\* The adapter has stopped searching; another search may have waited for it.
ScanStopped(n) ==
  /\ scan[n] \in {"stopping", "restarting"}
  /\ scan' = [scan EXCEPT ![n] = IF @ = "restarting" THEN Asked(n) ELSE "off"]
  /\ UNCHANGED <<on, opening, closed, bid, wire, peer, probe, seen, link, troubles>>

Wants(n, t, b) == {p \in Peer : p[1] = n /\ p[2] = t /\ b \in peer[p].wanted}

\* _onFoundForPeers, and the lock is free.  A device seen lately is left alone
\* unless its bid of then is wanted.
LeftAlone(l) == seen[l] # 0 /\ Wants(l[1], l[2], seen[l]) = {}

Found(l) ==
  LET n == l[1] IN
  /\ scan[n] = "on" /\ Searching(n, peer) /\ probe[n] = NoProbe /\ on[n] /\ on[l[2]]
  /\ ~LeftAlone(l)
  /\ probe' = [probe EXCEPT ![n] = [NoProbe EXCEPT !.step = "connect", !.dev = l[2]]]
  /\ UNCHANGED <<on, opening, closed, bid, wire, peer, scan, seen, link, troubles>>

SeenExpires(l) ==
  /\ seen[l] # 0
  /\ seen' = [seen EXCEPT ![l] = 0]
  /\ UNCHANGED <<on, opening, closed, bid, wire, peer, scan, probe, link, troubles>>

Probed(n) == <<n, probe[n].dev>>

\* adapter.connect: if the devices are connected already, the link is shared.
Connected(n) ==
  LET l == Probed(n) IN
  /\ probe[n].step = "connect" /\ on[n] /\ on[l[2]]
  /\ probe' = [probe EXCEPT ![n].step = "read", ![n].own = ~link[l].up]
  /\ link' = [link EXCEPT ![l].up = TRUE]
  /\ UNCHANGED <<on, opening, closed, bid, wire, peer, scan, seen, troubles>>

\* Something of this is refused, or the other device is gone.
ProbeFails(n) ==
  LET l == Probed(n)
      p == probe[n].peer
      hangs == probe[n].step # "connect" /\ probe[n].own /\ link[l].up
      lost == ~on[n] \/ ~on[l[2]] \/ (probe[n].step # "connect" /\ ~link[l].up)
  IN /\ probe[n].step \in {"connect", "read", "subscribe"}
     /\ probe' = [probe EXCEPT ![n] = IF hangs THEN [@ EXCEPT !.step = "close"] ELSE NoProbe]
     /\ BecomeAll(IF p = NoPeer THEN peer ELSE [peer EXCEPT ![p].link = LetGo(@)],
                  [link EXCEPT ![l].hangup = @ \/ hangs,
                               ![l].handler = IF probe[n].step = "connect" THEN @ ELSE NoPeer], scan)
     /\ IF lost THEN UNCHANGED troubles ELSE Trouble
     /\ UNCHANGED <<on, opening, closed, bid, wire, seen>>

BugUnwantedLinkKept(l, own) == link

\* link.close() of a link that nobody wants.  Whoever had the notifications of the
\* device has them no longer (bluez.js:267).
Refused(l, own) == [link EXCEPT ![l].hangup = @ \/ own, ![l].handler = NoPeer]

\* What the hello of a device says.
HelloOf(d) == bid[d]

\* The device's hello is read.  If nobody wants it, the link is closed; else it
\* is the channel's from now on (_attachLink).
HelloRead(n) ==
  LET l == Probed(n)
      b == HelloOf(l[2])
      wanting == {p \in Wants(n, l[2], b) : peer[p].state = "keyed"}
  IN /\ probe[n].step = "read" /\ link[l].up /\ on[l[2]]
     /\ seen' = [seen EXCEPT ![l] = b]
     /\ \/ /\ wanting = {}
           /\ probe' = [probe EXCEPT ![n] = IF @.own THEN [@ EXCEPT !.step = "close"] ELSE NoProbe]
           /\ link' = Refused(l, probe[n].own)
           /\ UNCHANGED <<peer, scan>>
        \/ \E p \in wanting :
             /\ probe' = [probe EXCEPT ![n].step = "subscribe", ![n].peer = p]
             /\ BecomeAll([peer EXCEPT ![p].wanted = @ \ {b},
                                       ![p].link = IF probe[n].own THEN "own" ELSE "shared"],
                          [link EXCEPT ![l].handler = p,
                                       ![l].forgotten = @ \/ peer[p].link = "own"], scan)
     /\ UNCHANGED <<on, opening, closed, bid, wire, troubles>>

\* _attachLink goes on: the central greets.
Subscribed(n) ==
  LET p == probe[n].peer IN
  /\ probe[n].step = "subscribe" /\ link[Probed(n)].up
  /\ peer' = [peer EXCEPT ![p] = Say(@, "hello")]
  /\ probe' = [probe EXCEPT ![n] = NoProbe]
  /\ UNCHANGED <<on, opening, closed, bid, wire, scan, seen, link, troubles>>

ProbeClosed(n) ==
  /\ probe[n].step = "close" /\ ~link[Probed(n)].up
  /\ probe' = [probe EXCEPT ![n] = NoProbe]
  /\ UNCHANGED <<on, opening, closed, bid, wire, peer, scan, seen, link, troubles>>

-----------------------------------------------------------------------------
(* Records.                                                                *)

HasLink(p) ==
  /\ link[LinkOf(p)].up
  /\ IF IsCentral(p) THEN peer[p].link \in {"own", "shared"} ELSE peer[p].central /\ on[p[1]]

Sealed(p) ==
  [by |-> p, to |-> peer[p].half.by, ctr |-> peer[p].sendCtr, type |-> Head(peer[p].queue),
   tag |-> IF IsCentral(p) THEN 0 ELSE peer[p].half.bid]

\* _sendRecord, when its turn comes.
Write(p) ==
  LET l == LinkOf(p)
      sent == [peer[p] EXCEPT !.queue = Tail(@), !.sendCtr = @ + 1]
  IN /\ peer[p].queue # <<>>
     /\ \/ /\ Done(peer[p])
           /\ Become(p, [peer[p] EXCEPT !.queue = <<>>])
        \/ /\ ~Done(peer[p]) /\ HasLink(p)
           /\ BecomeAll([peer EXCEPT ![p] = sent],
                IF IsCentral(p) THEN [link EXCEPT ![l].toPeripheral = Append(@, Sealed(p))]
                                ELSE [link EXCEPT ![l].toCentral = Append(@, Sealed(p))], scan)
        \/ /\ ~Done(peer[p]) /\ ~HasLink(p)
           /\ Become(p, Closed([peer[p] EXCEPT !.queue = <<>>]))
     /\ UNCHANGED <<on, opening, closed, bid, wire, probe, seen, troubles>>

Opens(p, rec, ctr) == rec.to = p /\ rec.by = peer[p].half.by /\ rec.ctr = ctr

\* _onRecord, from the opening of the record on.
AfterRecord(p, rec) ==
  LET r == [peer[p] EXCEPT !.recvCtr = @ + 1] IN
  CASE ~Opens(p, rec, peer[p].recvCtr) -> Closed(peer[p])
    [] OTHER ->
       IF rec.type = "hello" THEN (IF IsCentral(p) THEN Open(r) ELSE r)
       ELSE IF r.state = "open" THEN r ELSE Closed(r)

\* Who is awaited at a peripheral with a token of these.
Awaited(n, left) ==
  {p \in Peer : /\ p[1] = n /\ p[2] \in left /\ peer[p].mapped /\ ~IsCentral(p)
                /\ peer[p].state = "keyed" /\ ~peer[p].central /\ ~peer[p].late}

\* _identify, from one await to the next: the hello is tried on the next peer
\* that is awaited (those passed over are not looked at again), or kept.
Identify(l, rec, left, gone, links) ==
  LET awaited == Awaited(l[2], left) IN
  \/ /\ awaited = {}
     /\ link' = [links EXCEPT ![l].fromCentral = NoJob, ![l].hello = IF gone THEN @ ELSE rec]
  \/ \E p \in awaited : \E passed \in SUBSET (left \ {q[2] : q \in awaited}) :
       link' = [links EXCEPT ![l].fromCentral =
                  [how |-> "identify", rec |-> rec, peer |-> p, gone |-> gone,
                   left |-> left \ (passed \cup {p[2]})]]

\* A record from the central: _onWrite, and the chain gets to it.
FromCentral(l) ==
  LET rec == Head(link[l].toPeripheral)
      p == link[l].owner
      rest == [link EXCEPT ![l].toPeripheral = Tail(@)]
  IN /\ link[l].toPeripheral # <<>> /\ link[l].fromCentral = NoJob
     /\ \/ p = NoPeer /\ Identify(l, rec, Node \ {l[2]}, FALSE, rest)
        \/ /\ p # NoPeer
           /\ link' = [rest EXCEPT ![l].fromCentral =
                         [NoJob EXCEPT !.how = "record", !.rec = rec, !.peer = p]]
     /\ UNCHANGED <<on, opening, closed, bid, wire, peer, scan, probe, seen, troubles>>

\* The chain gets to a hello to be tried again (unless it has opened meanwhile).
RetryHello(l) ==
  /\ link[l].retry /\ link[l].fromCentral = NoJob
  /\ Identify(l, link[l].hello, Node \ {l[2]}, FALSE, [link EXCEPT ![l].retry = FALSE])
  /\ UNCHANGED <<on, opening, closed, bid, wire, peer, scan, probe, seen, troubles>>

BugCounterNotSet(r) == Open(Say([r EXCEPT !.central = TRUE], "hello"))

\* The peripheral answers the hello that opened.
Greeted(r) == Open(Say([r EXCEPT !.central = TRUE, !.recvCtr = 1], "hello"))

\* _identify goes on: the peer whose key opens the hello has its central.  After
\* stop() it is given its `central` as well, but there is no adapter to ask for the
\* size of a chunk (manager.js:299-300): that throws, the central does not get to
\* know its peer, and whatever else comes of it is not looked at.
Identified(l) ==
  LET job == link[l].fromCentral
      p == job.peer
      known == Opens(p, job.rec, 0) /\ job.rec.type = "hello"
  IN /\ job.how = "identify"
     /\ \/ /\ known /\ on[l[2]]
           /\ BecomeAll([peer EXCEPT ![p] = Greeted(@)],
                        [link EXCEPT ![l].fromCentral = NoJob,
                                     ![l].retry = FALSE,
                                     ![l].owner = IF job.gone THEN @ ELSE p,
                                     ![l].hello = IF job.gone THEN @ ELSE NoRecord], scan)
        \/ /\ known /\ ~on[l[2]]
           /\ peer' = [peer EXCEPT ![p].late = TRUE]
           /\ link' = [link EXCEPT ![l].fromCentral =
                         IF job.gone THEN NoJob ELSE [job EXCEPT !.how = "thrown"]]
           /\ UNCHANGED scan
        \/ /\ ~known
           /\ Identify(l, job.rec, job.left, job.gone, link)
           /\ UNCHANGED <<peer, scan>>
     /\ UNCHANGED <<on, opening, closed, bid, wire, probe, seen, troubles>>

RecordFromCentral(l) ==
  LET job == link[l].fromCentral IN
  /\ job.how = "record"
  /\ BecomeAll([peer EXCEPT ![job.peer] = AfterRecord(job.peer, job.rec)],
               [link EXCEPT ![l].fromCentral = NoJob], scan)
  /\ UNCHANGED <<on, opening, closed, bid, wire, probe, seen, troubles>>

\* Its chunks have the tag this end awaits.
HasTag(rec, p) == rec.tag = peer[p].myBid

\* A record from the peripheral.  Chunks with another tag are not ours.
FromPeripheral(l) ==
  LET rec == Head(link[l].toCentral)
      p == link[l].handler
      rest == [link EXCEPT ![l].toCentral = Tail(@)]
  IN /\ link[l].toCentral # <<>> /\ link[l].fromPeripheral = NoJob
     /\ link' = IF p = NoPeer \/ ~HasTag(rec, p) \/ Done(peer[p]) THEN rest
                ELSE [rest EXCEPT ![l].fromPeripheral =
                        [NoJob EXCEPT !.how = "record", !.rec = rec, !.peer = p]]
     /\ UNCHANGED <<on, opening, closed, bid, wire, peer, scan, probe, seen, troubles>>

RecordFromPeripheral(l) ==
  LET job == link[l].fromPeripheral IN
  /\ job.how = "record"
  /\ BecomeAll([peer EXCEPT ![job.peer] = AfterRecord(job.peer, job.rec)],
               [link EXCEPT ![l].fromPeripheral = NoJob], scan)
  /\ UNCHANGED <<on, opening, closed, bid, wire, probe, seen, troubles>>

\* trySend.
TrySend(p) ==
  /\ peer[p].mapped /\ peer[p].state = "open"
  /\ peer[p].sendCtr + Len(peer[p].queue) < MaxRecords
  /\ peer' = [peer EXCEPT ![p] = Say(@, "data")]
  /\ UNCHANGED <<on, opening, closed, bid, wire, scan, probe, seen, link, troubles>>

-----------------------------------------------------------------------------
(* Ends.                                                                   *)

Timeout(p) ==
  /\ peer[p].timer
  /\ Become(p, IF peer[p].state = "open" THEN [peer[p] EXCEPT !.timer = FALSE]
               ELSE Fail([peer[p] EXCEPT !.timer = FALSE]))
  /\ Trouble
  /\ UNCHANGED <<on, opening, closed, bid, wire, probe, seen>>

\* FAIL_RETRY_MS are over.
RestOver(p) ==
  /\ peer[p].resting
  /\ peer' = [peer EXCEPT ![p].resting = FALSE]
  /\ UNCHANGED <<on, opening, closed, bid, wire, scan, probe, seen, link, troubles>>

ClosePeer(p) ==
  /\ peer[p].mapped
  /\ Become(p, Closed(peer[p]))
  /\ Trouble
  /\ UNCHANGED <<on, opening, closed, bid, wire, probe, seen>>

\* The link is gone: hung up, or out of reach.  Both ends are told
\* (_onCentralGone, onClose).
Gone(l) ==
  LET told(p) == LinkOf(p) = l /\ (peer[p].link # "none" \/ link[l].owner = p)
  IN BecomeAll(
       [p \in Peer |-> IF told(p) THEN [Closed(peer[p]) EXCEPT !.link = "none"] ELSE peer[p]],
       [link EXCEPT ![l] = [Down EXCEPT
           !.fromCentral = IF link[l].fromCentral.how \in {"none", "thrown"} THEN NoJob
                           ELSE [link[l].fromCentral EXCEPT !.gone = TRUE],
           !.fromPeripheral = link[l].fromPeripheral]], scan)

HungUp(l) ==
  /\ link[l].up /\ link[l].hangup
  /\ Gone(l)
  /\ UNCHANGED <<on, opening, closed, bid, wire, probe, seen, troubles>>

OutOfReach(l) ==
  /\ link[l].up
  /\ Gone(l)
  /\ Trouble
  /\ UNCHANGED <<on, opening, closed, bid, wire, probe, seen>>

\* close() of a link that was not ours to cut ends at this side only.
SharedClosed(p) ==
  /\ peer[p].link = "sharedClosing"
  /\ BecomeAll([peer EXCEPT ![p] = [Closed(@) EXCEPT !.link = "none"]],
               [link EXCEPT ![LinkOf(p)].handler = NoPeer], scan)
  /\ UNCHANGED <<on, opening, closed, bid, wire, probe, seen, troubles>>

\* close() of the client, and stop().
Stop(n) ==
  /\ ~closed[n]
  /\ closed' = [closed EXCEPT ![n] = TRUE]
  /\ \/ /\ on[n]
        /\ on' = [on EXCEPT ![n] = FALSE]
        /\ LET peers == [p \in Peer |-> IF p[1] = n /\ peer[p].mapped THEN Closed(peer[p]) ELSE peer[p]]
               hung == Hung(peers, link)
               rested == Rested(peers, scan)
           IN /\ peer' = peers
              /\ link' = [l \in Link |-> [hung[l] EXCEPT !.hangup = @ \/ (link[l].up /\ n \in {l[1], l[2]})]]
              /\ scan' = [rested EXCEPT ![n] = IF @ = "on" THEN "off" ELSE @]
        /\ Trouble
     \/ /\ ~on[n]
        /\ UNCHANGED <<on, peer, link, scan, troubles>>
  /\ UNCHANGED <<opening, bid, wire, probe, seen>>

\* connect() of the client, and _prepareBluetooth.
Connect(n) ==
  /\ ~on[n] /\ bid[n] < MaxBid[n]
  /\ closed[n] \/ opening[n] = "no"
  /\ closed' = [closed EXCEPT ![n] = FALSE]
  /\ opening' = [opening EXCEPT ![n] = IF @ = "no" THEN "bus" ELSE @]
  /\ UNCHANGED <<on, bid, wire, peer, scan, probe, seen, link, troubles>>

\* The bus is open: start(), if nobody has closed meanwhile.
BusOpened(n) ==
  /\ opening[n] = "bus"
  /\ \/ /\ closed[n]
        /\ opening' = [opening EXCEPT ![n] = "no"]
        /\ UNCHANGED bid
     \/ /\ ~closed[n]
        /\ opening' = [opening EXCEPT ![n] = "service"]
        /\ bid' = [bid EXCEPT ![n] = @ + 1]
  /\ UNCHANGED <<on, closed, wire, peer, scan, probe, seen, link, troubles>>

\* The adapter has started, and is stopped at once if the client was closed.
Started(n) ==
  /\ opening[n] = "service"
  /\ opening' = [opening EXCEPT ![n] = "no"]
  /\ on' = [on EXCEPT ![n] = ~closed[n]]
  /\ UNCHANGED <<closed, bid, wire, peer, scan, probe, seen, link, troubles>>

\* There is no Bluetooth here, or it does not start.
StartFails(n) ==
  /\ opening[n] # "no"
  /\ opening' = [opening EXCEPT ![n] = "no"]
  /\ UNCHANGED <<on, closed, bid, wire, peer, scan, probe, seen, link, troubles>>

\* BID_ROTATE_MS are over.
Rotate(n) ==
  /\ on[n] /\ bid[n] < MaxBid[n]
  /\ bid' = [bid EXCEPT ![n] = @ + 1]
  /\ Trouble
  /\ UNCHANGED <<on, opening, closed, wire, peer, scan, probe, seen, link>>

LoseSignal(n) ==
  /\ wire[n] # <<>>
  /\ wire' = [wire EXCEPT ![n] = Tail(@)]
  /\ Trouble
  /\ UNCHANGED <<on, opening, closed, bid, peer, scan, probe, seen, link>>

\* What goes on by itself.
Proceeds(n) ==
  \/ Receive(n) \/ ScanStarts(n) \/ ScanStopped(n)
  \/ Connected(n) \/ HelloRead(n) \/ Subscribed(n) \/ ProbeClosed(n)

PeerProceeds(p) ==
  \/ OfferReady(p) \/ AnswerReady(p) \/ Write(p) \/ SharedClosed(p)
  \/ \E h \in peer[p].deriving : Derived(p, h)

LinkProceeds(l) ==
  \/ Found(l) \/ HungUp(l) \/ RetryHello(l)
  \/ FromCentral(l) \/ Identified(l) \/ RecordFromCentral(l)
  \/ FromPeripheral(l) \/ RecordFromPeripheral(l)

Next ==
  \/ \E n \in Node : \/ Proceeds(n) \/ ScanFails(n) \/ ProbeFails(n)
                     \/ Stop(n) \/ Connect(n) \/ BusOpened(n) \/ Started(n) \/ StartFails(n)
                     \/ Rotate(n) \/ LoseSignal(n)
                     \/ \E t \in Node \ {n} : Upgrade(n, t)
  \/ \E p \in Peer : PeerProceeds(p) \/ TrySend(p) \/ Timeout(p) \/ RestOver(p) \/ ClosePeer(p)
  \/ \E l \in Link : LinkProceeds(l) \/ SeenExpires(l) \/ OutOfReach(l)

Spec == Init /\ [][Next]_vars
Fairness ==
  /\ \A n \in Node : WF_vars(Proceeds(n))
  /\ \A p \in Peer : WF_vars(PeerProceeds(p))
  /\ \A l \in Link : WF_vars(LinkProceeds(l))
FairSpec == Spec /\ Fairness

-----------------------------------------------------------------------------
\* Every variable has its type, and of a device's peers for another one, one
\* at most is in its map.
TypeOK ==
  /\ on \in [Node -> BOOLEAN] /\ closed \in [Node -> BOOLEAN]
  /\ opening \in [Node -> {"no", "bus", "service"}]
  /\ bid \in [Node -> Nat]
  /\ \A n \in Node : bid[n] <= MaxBid[n]
  /\ wire \in [Node -> Seq(Frame)]
  /\ peer \in [Peer -> BlePeer]
  /\ scan \in [Node -> {"off", "starting", "failing", "on", "stopping", "restarting"}]
  /\ troubles \in 0 .. MaxTroubles + 1
  /\ seen \in [Link -> Nat]
  /\ \A p, q \in Peer : peer[p].mapped /\ peer[q].mapped /\ p[1] = q[1] /\ p[2] = q[2] => p = q

\* A negotiation or channel that failed or ended holds nothing any more: no
\* timer that could fail it once more, no central, no link to be used, and no
\* central's records are given to it.  (_release is called on every such way.)
\* (The exception is `late`: what _identify finds out after stop() has closed
\* its peer, it leaves in the peer's `central`, for nobody clears that then.)
\* And a client that was closed is not on the air, though it was closed while
\* its adapter was being opened or started.
Released ==
  /\ \A p \in Peer : peer[p].state \in {"unused", "failed", "closed"} =>
       /\ ~peer[p].timer /\ ~peer[p].central /\ peer[p].link \notin {"own", "shared"}
       /\ \A l \in Link : link[l].owner # p
  /\ \A n \in Node : closed[n] => ~on[n]

\* A negotiation never waits without an end: for an answer or for the other
\* device, there is a timer; before that, WebCrypto is to answer.  This holds
\* for those that were dropped while WebCrypto had not answered, too.
NobodyWaitsForEver ==
  \A p \in Peer :
    /\ peer[p].state \in {"offered", "keyed"} => peer[p].timer
    /\ peer[p].state = "new" => peer[p].making # "no" \/ peer[p].deriving # {}

\* The search goes on for those who look for somebody: it is not left
\* on for nobody, and a peer of the map that has a device to find is not left
\* without it, though a search that is being stopped has to end first (_addScan,
\* _removeScan).  One that was dropped before its key was derived may be: stop()
\* closes the peers of the map only, so this one outlives it with what it wants.
ScanHasSearcher ==
  \A n \in Node :
    /\ scan[n] = "on" => Searching(n, peer)
    /\ (\E p \in Peer : p[1] = n /\ peer[p].mapped /\ peer[p].state = "keyed" /\ peer[p].wanted # {})
         => scan[n] \in {"starting", "failing", "on", "restarting"}

\* No connection is kept for nobody (it would drain both batteries and lock the
\* device for others): unless it is being cut, a peer holds it or a probe has it
\* in hand.  Left out is a link that a peer, keyed twice, has forgotten for a
\* second one on the same connection: the code loses p.link then.
LinkHasOwner ==
  \A l \in Link : link[l].up /\ ~link[l].hangup /\ ~link[l].forgotten =>
     \/ \E p \in Peer : LinkOf(p) = l /\ (peer[p].link = "own" \/ peer[p].central)
     \/ probe[l[1]].dev = l[2] /\ probe[l[1]].own /\ probe[l[1]].step # "close"

\* Nothing is held by what ended and nothing runs for nobody: the adapter, its
\* search, the links, the timers.
NothingKeptForNobody == Released /\ ScanHasSearcher /\ LinkHasOwner

\* The record p is opening, and those on their way to its device, in their order.
Coming(p) ==
  LET k == link[LinkOf(p)]
      job == IF IsCentral(p) THEN k.fromPeripheral ELSE k.fromCentral
      sent == IF IsCentral(p) THEN k.toCentral ELSE k.toPeripheral
  IN IF job.how = "record" /\ job.peer = p THEN <<job.rec>> \o sent ELSE sent

\* Which of them q has sealed for p.
ComingFrom(q, p) == {i \in DOMAIN Coming(p) : Coming(p)[i].by = q /\ Coming(p)[i].to = p}

\* What is closed stays closed: _onRecord returns at once if it is (manager.js:333).
\* But that is read before the record is opened and not after, so a greeting that
\* is being opened when the peer is closed opens it (BluetoothReopens.cfg).
ClosedStaysClosed ==
  [][\A p \in Peer : peer[p].state = "closed" => peer'[p].state # "open"]_vars

\* An open channel is between two peers that made their keys for each other,
\* and every record on its way to one of them will open: it has the counter
\* the receiver will be at, with none missing and none twice.  (A record that
\* does not open closes the channel.)  Of a central this holds while it has the
\* notifications of its link: once another of the device's peers has taken them,
\* a channel that was closed may open again all the same (_onRecord looks at the
\* state before it opens the record, and _open does not look at all).
InStep ==
  \A p \in Peer : peer[p].state = "open" /\ ~peer[p].rekeyed =>
    LET q == peer[p].half.by IN
      /\ peer[q].half.by = p \/ peer[q].rekeyed
      /\ (IsCentral(p) => link[LinkOf(p)].handler = p) =>
           \A i \in ComingFrom(q, p) :
             Coming(p)[i].ctr = peer[p].recvCtr + Cardinality({j \in ComingFrom(q, p) : j < i})

BothOpen(m, n) ==
  \E p \in Mapped(m, n), q \in Mapped(n, m) : peer[p].state = "open" /\ peer[q].state = "open"

\* A channel that was offered opens at both ends, whoever offered, be one of
\* them or both, and whatever comes first at the peripheral, the signal or the
\* hello; unless something goes against it (see `troubles`).
ChannelIsReached ==
  \A p \in Peer : peer[p].state = "offered" ~> troubles # 0 \/ BothOpen(p[1], p[2])
=============================================================================
