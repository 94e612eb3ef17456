---------------------------- MODULE DirectChannel ----------------------------
(***************************************************************************)
(* The WebRTC manager (webrtc.js) and the part of client.js that drives    *)
(* it, at several clients that signal to each other through the proxy.     *)
(*                                                                         *)
(* A peer is a PeerState object together with its RTCPeerConnection and    *)
(* its data channel, which is what the code's callbacks close over: a peer *)
(* taken out of the manager's map lives on until its callbacks are done.   *)
(* Descriptions (and batches of candidates) being set are the jobs of the  *)
(* platform's chain of operations, done in order; between a job's start    *)
(* and its end anything may happen.  A token is a client and the number of *)
(* its connection, since a client that reconnects has another token, and   *)
(* with it perhaps the other role.                                         *)
(***************************************************************************)
EXTENDS Integers, FiniteSets, Sequences

CONSTANTS
  Client,    \* the processes
  MaxConns,  \* bound: connections to the proxy, for each client
  MaxPeers,  \* bound: peers, for each client, the closed ones it still has included
  Rank       \* the order of the tokens as strings

Token == UNION {{c} \X (1 .. MaxConns[c]) : c \in Client}
Peer == UNION {{c} \X (1 .. MaxPeers[c]) : c \in Client}
NoPeer == <<"none", 0>>
NoToken == <<"none", 0>>

ASSUME Assumptions ==
  /\ IsFiniteSet(Client)
  /\ "none" \notin Client
  /\ MaxConns \in [Client -> Nat \ {0}]
  /\ MaxPeers \in [Client -> Nat]
  /\ Rank \in [Token -> Nat]
  /\ \A s, t \in Token : Rank[s] = Rank[t] => s = t

VARIABLES
  conn,       \* token: the number of the client's last connection
  online,     \* the socket to the proxy is open
  closed,     \* the manager's `closed`
  peer,       \* the peers
  wire,       \* signals on their way to each client
  disturbed   \* history: something has gone against the channels

vars == <<conn, online, closed, peer, wire, disturbed>>

PCState == {"none", "new", "connected", "disconnected", "failed", "closed"}
DCState == {"none", "connecting", "open", "closing", "closed"}

\* A signal: its sender's token and the peer that wrote it, which stands for
\* what is in a description or candidate.
Frame == [kind : {"start", "offer", "answer", "ice"}, from : Token, by : Peer]

\* An operation of the connection that has not ended.
Job == [op : {"offer", "answer", "accept", "flush"}, kind : {"none", "offer", "answer"},
        by : Peer \cup {NoPeer}]

PeerState ==
  [remote      : Token \cup {NoToken},
   mapped      : BOOLEAN,            \* it is in the manager's map
   pc          : PCState,            \* connectionState, or none
   signaling   : {"stable", "have-local-offer", "have-remote-offer"},
   description : Peer \cup {NoPeer}, \* whose the remote description is
   dc          : DCState,            \* readyState, or none
   needed      : BOOLEAN,            \* onnegotiationneeded is to fire
   jobs        : Seq(Job),
   sockets     : BOOLEAN,            \* the platform has UDP sockets open
   gathered    : BOOLEAN,            \* the candidates were announced
   candidates  : SUBSET Peer,        \* whose candidates were added
   pending     : SUBSET Peer,        \* pendingCandidates
   makingOffer : BOOLEAN,
   negotiating : BOOLEAN,
   failed      : BOOLEAN,
   polite      : BOOLEAN,
   closing     : BOOLEAN,
   waiting     : BOOLEAN,            \* openWaiters is not empty
   born        : Nat]                \* history: the token its client had when it was made

Fresh ==
  [remote |-> NoToken, mapped |-> FALSE, pc |-> "none", signaling |-> "stable",
   description |-> NoPeer, dc |-> "none", needed |-> FALSE, jobs |-> <<>>,
   sockets |-> FALSE, gathered |-> FALSE, candidates |-> {}, pending |-> {},
   makingOffer |-> FALSE, negotiating |-> FALSE, failed |-> FALSE, polite |-> FALSE,
   closing |-> FALSE, waiting |-> FALSE, born |-> 0]

Init ==
  /\ conn = [c \in Client |-> 1]
  /\ online = [c \in Client |-> TRUE]
  /\ closed = [c \in Client |-> FALSE]
  /\ peer = [p \in Peer |-> Fresh]
  /\ wire = [c \in Client |-> <<>>]
  /\ disturbed = FALSE

-----------------------------------------------------------------------------
(* Tokens and the map.                                                     *)

Self(c) == <<c, conn[c]>>
Alive(t) == online[t[1]] /\ conn[t[1]] = t[2]

\* Tokens of the others a client may have heard of.
Known(c) == {t \in Token : t[1] # c /\ t[2] <= conn[t[1]]}

\* Of two tokens, the greater creates the channel ...
BugBothCreate(c, t) == TRUE
Creates(c, t) == Rank[Self(c)] > Rank[t]

\* ... and the smaller gives way if offers collide.
IsPolite(c, t) == Rank[Self(c)] < Rank[t]

Mapped(c) == {p \in Peer : p[1] = c /\ peer[p].mapped}

Usable(r) == r.dc = "open" /\ r.pc = "connected"

Busy(r) == \E i \in 1 .. Len(r.jobs) : r.jobs[i].op # "flush"

\* Nothing of the peer can happen any more, and nothing refers to it.
Over(r) ==
  /\ ~r.mapped
  /\ r.pc \in {"none", "closed"}
  /\ r.dc \in {"none", "closed"}
  /\ r.jobs = <<>>
  /\ ~r.sockets
  /\ ~r.waiting

Unused(p) ==
  /\ Over(peer[p])
  /\ \A q \in Peer : Over(peer[q]) \/
       /\ peer[q].description # p
       /\ p \notin peer[q].candidates \cup peer[q].pending
       /\ \A i \in 1 .. Len(peer[q].jobs) : peer[q].jobs[i].by # p
  /\ \A c \in Client : \A i \in 1 .. Len(wire[c]) : wire[c][i].by # p

\* _ensurePeer: the peer of a token, the one in the map or a new one.
EnsurePeer(c, t) ==
  LET found == {p \in Mapped(c) : peer[p].remote = t}
      free == {p \in Peer : p[1] = c /\ Unused(p)}
  IN IF found # {} THEN found ELSE {p \in free : \A q \in free : p[2] <= q[2]}

Ensured(p, t) ==
  IF peer[p].mapped THEN peer[p] ELSE [Fresh EXCEPT !.remote = t, !.mapped = TRUE, !.born = conn[p[1]]]

\* _signal: through the proxy, if there is something to say, a socket to say it
\* on, and the token lives.
Signal(c, t, kind, p) ==
  wire' = IF kind # "none" /\ online[c] /\ Alive(t)
          THEN [wire EXCEPT ![t[1]] = Append(@, [kind |-> kind, from |-> Self(c), by |-> p])]
          ELSE wire

-----------------------------------------------------------------------------
(* What the methods do to a peer.                                          *)

CreatePC(c, r) ==
  IF r.pc = "none"
  THEN [r EXCEPT !.pc = "new", !.polite = IsPolite(c, r.remote)]
  ELSE r

\* _startNegotiation: the one who creates the channel creates it; the other
\* asks for it.
StartNegotiation(c, r) ==
  LET s == CreatePC(c, r)
      first == Creates(c, r.remote) /\ r.dc = "none"
  IN IF r.negotiating THEN r
     ELSE [s EXCEPT !.negotiating = TRUE,
                    !.dc = IF first THEN "connecting" ELSE @,
                    !.needed = @ \/ first]

BugNeverAsks(c, r) == FALSE
AsksToStart(c, r) == ~r.negotiating /\ ~Creates(c, r.remote) /\ r.dc = "none"

FailPeer(r) == [r EXCEPT !.failed = TRUE, !.negotiating = FALSE, !.waiting = FALSE]

CloseDC(r) == [r EXCEPT !.dc = IF @ \in {"connecting", "open"} THEN "closing" ELSE @]

\* A closed connection forgets what it had negotiated.
ClosePC(r) ==
  IF r.pc \in {"none", "closed"} THEN r
  ELSE [Fresh EXCEPT !.remote = r.remote, !.pc = "closed", !.jobs = r.jobs,
                     !.dc = IF r.dc = "none" THEN "none" ELSE "closed",
                     !.closing = r.closing, !.waiting = r.waiting]

\* _describe's finally.
CloseIfDone(r) == IF r.closing /\ ~Busy(r) THEN ClosePC(r) ELSE r

\* When closePeer closes the connection itself.
BugAlwaysAtOnce(r) == TRUE
ClosesAtOnce(r) == ~Busy(r)

Removed(r) == [r EXCEPT !.mapped = FALSE, !.closing = TRUE]

\* closePeer.
ClosePeer(r) ==
  LET s == CloseDC(Removed(r))
  IN IF ClosesAtOnce(r) THEN ClosePC(s) ELSE s

\* Setting a local description begins; a closed connection refuses at once.
Describe(r, op) ==
  IF r.pc = "closed" THEN r
  ELSE [r EXCEPT !.jobs = Append(@, [op |-> op, kind |-> "none", by |-> NoPeer])]

-----------------------------------------------------------------------------
(* The application.                                                        *)

\* One peer changes, and its client signals (or does not: "none").
Becomes(p, r, kind) ==
  /\ peer' = [peer EXCEPT ![p] = r]
  /\ Signal(p[1], r.remote, kind, p)

Request(c, r) == IF AsksToStart(c, r) THEN "start" ELSE "none"

\* trySend: a message for t that no channel can take starts the negotiation.
TrySend(c, t) ==
  /\ t \in Known(c)
  /\ ~closed[c]
  /\ \E p \in EnsurePeer(c, t) : LET r == Ensured(p, t) IN
       /\ ~Usable(r)
       /\ IF r.negotiating \/ r.failed THEN Becomes(p, r, "none")
          ELSE Becomes(p, StartNegotiation(c, r), Request(c, r))
  /\ UNCHANGED <<conn, online, closed, disturbed>>

\* connect: called by the application, and by client.js after a message that
\* went through the proxy (_upgradeDirect).
Connect(c, t) ==
  /\ t \in Known(c)
  /\ ~closed[c]
  /\ \E p \in EnsurePeer(c, t) : LET r == Ensured(p, t) IN
       /\ ~Usable(r)
       /\ Becomes(p, [StartNegotiation(c, r) EXCEPT !.waiting = TRUE], Request(c, r))
  /\ UNCHANGED <<conn, online, closed, disturbed>>

-----------------------------------------------------------------------------
(* Signals.                                                                *)

Collides(f, r) == f.kind = "offer" /\ (r.makingOffer \/ r.signaling # "stable")
Ignores(f, r) == ~r.polite /\ Collides(f, r)

\* A candidate before the description it belongs to has to wait.
BugKeepsUntilStable(r) == r.description = NoPeer \/ r.signaling # "stable"
KeepsCandidate(r) == r.description = NoPeer

AfterSignal(c, f, r) ==
  CASE f.kind = "start" ->
         IF Creates(c, r.remote) /\ r.dc = "none"
         THEN StartNegotiation(c, [r EXCEPT !.negotiating = FALSE]) ELSE r
    [] f.kind \in {"offer", "answer"} ->
         IF Ignores(f, r) THEN r
         ELSE [r EXCEPT !.jobs = Append(@, [op |-> "accept", kind |-> f.kind, by |-> f.by])]
    [] f.kind = "ice" ->
         IF KeepsCandidate(r) THEN [r EXCEPT !.pending = @ \cup {f.by}]
         ELSE IF r.description = f.by THEN [r EXCEPT !.candidates = @ \cup {f.by}] ELSE r

\* handleIncoming, _handleSignal.  A manager that is closed opens nothing.
Listens(c) == ~closed[c]

Receive(c) ==
  /\ wire[c] # <<>>
  /\ LET f == Head(wire[c]) IN
       IF ~Listens(c) THEN UNCHANGED peer
       ELSE \E p \in EnsurePeer(c, f.from) :
              peer' = [peer EXCEPT ![p] = AfterSignal(c, f, CreatePC(c, Ensured(p, f.from)))]
  /\ wire' = [wire EXCEPT ![c] = Tail(@)]
  /\ UNCHANGED <<conn, online, closed, disturbed>>

-----------------------------------------------------------------------------
(* Descriptions.                                                           *)

\* onnegotiationneeded: fires with the chain idle and the signaling stable.
NegotiationNeeded(p) ==
  LET r == peer[p] IN
  /\ r.needed
  /\ r.jobs = <<>>
  /\ r.signaling = "stable"
  /\ peer' = [peer EXCEPT ![p] =
                Describe([r EXCEPT !.needed = FALSE, !.makingOffer = TRUE], "offer")]
  /\ UNCHANGED <<conn, online, closed, wire, disturbed>>

\* setLocalDescription() ends: in Node with sockets open, even if the
\* connection was closed in between.
LocalKind(r) == IF r.signaling = "have-remote-offer" THEN "answer" ELSE "offer"

DescriptionSet(p) ==
  LET r == peer[p]
      set == IF r.pc = "closed" THEN r
             ELSE [r EXCEPT !.signaling =
                     IF LocalKind(r) = "answer" THEN "stable" ELSE "have-local-offer"]
      ended == [set EXCEPT !.jobs = Tail(@), !.sockets = TRUE,
                  !.makingOffer = IF Head(r.jobs).op = "offer" THEN FALSE ELSE @]
  IN /\ r.jobs # <<>> /\ Head(r.jobs).op \in {"offer", "answer"}
     /\ Becomes(p, CloseIfDone(ended),
                IF r.closing \/ r.pc = "closed" THEN "none" ELSE LocalKind(r))
     /\ UNCHANGED <<conn, online, closed, disturbed>>

\* After the remote description: the candidates that waited, then the answer.
Answered(r, kind) == IF kind = "offer" THEN Describe(r, "answer") ELSE r

Accept(p) ==
  LET r == peer[p]
      job == Head(r.jobs)
      rest == [r EXCEPT !.jobs = Tail(@)]
      valid == r.pc # "closed" /\ (job.kind = "answer" => r.signaling = "have-local-offer")
      set == [rest EXCEPT !.description = job.by,
                !.signaling = IF job.kind = "offer" THEN "have-remote-offer" ELSE "stable"]
      next == IF r.closing THEN set
              ELSE IF r.pending = {} THEN Answered(set, job.kind)
              ELSE [set EXCEPT !.jobs = Append(@, [job EXCEPT !.op = "flush"])]
  IN /\ r.jobs # <<>> /\ job.op = "accept"
     /\ peer' = [peer EXCEPT ![p] = CloseIfDone(IF valid THEN next ELSE rest)]
     /\ UNCHANGED <<conn, online, closed, wire, disturbed>>

\* The candidates are added: those of whoever wrote the description.
Flush(p) ==
  LET r == peer[p]
      job == Head(r.jobs)
      rest == [r EXCEPT !.jobs = Tail(@), !.pending = {},
                        !.candidates = @ \cup (r.pending \cap {r.description})]
  IN /\ r.jobs # <<>> /\ job.op = "flush"
     /\ peer' = [peer EXCEPT ![p] = Answered(rest, job.kind)]
     /\ UNCHANGED <<conn, online, closed, wire, disturbed>>

\* onicecandidate, of a local description set or being set.
Announce(p) ==
  LET r == peer[p] IN
  /\ ~r.gathered
  /\ r.pc \notin {"none", "closed"}
  /\ \/ r.sockets
     \/ r.jobs # <<>> /\ Head(r.jobs).op \in {"offer", "answer"}
  /\ Becomes(p, [r EXCEPT !.gathered = TRUE], "ice")
  /\ UNCHANGED <<conn, online, closed, disturbed>>

-----------------------------------------------------------------------------
(* The network below.                                                      *)

Partner(p) == peer[p].description

\* Both connections hold each other's description.
Linked(p) ==
  LET q == Partner(p) IN
  /\ q # NoPeer
  /\ peer[q].description = p
  /\ peer[p].signaling = "stable" /\ peer[q].signaling = "stable"

Living(p) == peer[p].pc \in {"new", "connected", "disconnected"}

\* The pair finds a way when each has the other's candidates.
IceConnects(p) ==
  /\ peer[p].pc \in {"new", "disconnected"}
  /\ Linked(p) /\ Living(Partner(p))
  /\ Partner(p) \in peer[p].candidates
  /\ p \in peer[Partner(p)].candidates
  /\ peer' = [peer EXCEPT ![p].pc = "connected"]
  /\ UNCHANGED <<conn, online, closed, wire, disturbed>>

IceDisconnects(p) ==
  /\ peer[p].pc = "connected"
  /\ peer' = [peer EXCEPT ![p].pc = "disconnected"]
  /\ disturbed' = TRUE
  /\ UNCHANGED <<conn, online, closed, wire>>

\* onconnectionstatechange, failed.
Failed(p) ==
  /\ peer' = [peer EXCEPT ![p] = CloseDC(FailPeer([@ EXCEPT !.pc = "failed"]))]
  /\ UNCHANGED <<conn, online, closed, wire>>

IceFails(p) ==
  /\ Living(p) /\ Linked(p)
  /\ Failed(p)
  /\ disturbed' = TRUE

\* The other end's connection is over: ICE finds out.
IceGivesUp(p) ==
  /\ Living(p)
  /\ Partner(p) # NoPeer
  /\ peer[Partner(p)].pc \in {"failed", "closed"}
  /\ Failed(p)
  /\ UNCHANGED disturbed

\* onconnectionstatechange, closed: some platforms tell, others do not.
ClosedEvent(p) ==
  /\ peer[p].pc = "closed"
  /\ peer[p].waiting
  /\ peer' = [peer EXCEPT ![p].waiting = FALSE]
  /\ UNCHANGED <<conn, online, closed, wire, disturbed>>

BothConnected(p) ==
  /\ peer[p].pc = "connected"
  /\ Linked(p)
  /\ peer[Partner(p)].pc = "connected"

\* ondatachannel.
ChannelArrives(p) ==
  /\ BothConnected(p)
  /\ peer[p].dc = "none"
  /\ peer[Partner(p)].dc \in {"connecting", "open"}
  /\ peer' = [peer EXCEPT ![p].dc = "connecting"]
  /\ UNCHANGED <<conn, online, closed, wire, disturbed>>

\* dc.onopen.
ChannelOpens(p) ==
  /\ BothConnected(p)
  /\ peer[p].dc = "connecting"
  /\ peer[Partner(p)].dc \notin {"closing", "closed"}
  /\ peer' = [peer EXCEPT ![p].dc = "open", ![p].waiting = FALSE]
  /\ UNCHANGED <<conn, online, closed, wire, disturbed>>

\* dc.onclose: this end closed it, or the other one did.
ChannelCloses(p) ==
  /\ \/ peer[p].dc = "closing"
     \/ /\ peer[p].dc \in {"connecting", "open"}
        /\ Linked(p) /\ peer[Partner(p)].dc \in {"closing", "closed"}
  /\ peer' = [peer EXCEPT ![p].dc = "closed"]
  /\ UNCHANGED <<conn, online, closed, wire, disturbed>>

-----------------------------------------------------------------------------
(* The connection to the proxy.                                            *)

\* `disconnected`: the token died with its connection.
PeerGone(c, p) ==
  /\ online[c]
  /\ p \in Mapped(c)
  /\ ~Alive(peer[p].remote)
  /\ peer' = [peer EXCEPT ![p] = ClosePeer(@)]
  /\ disturbed' = TRUE
  /\ UNCHANGED <<conn, online, closed, wire>>

\* The client's close(): closeAll.  Its socket may still bring what was on
\* the way.
CloseAll(c) ==
  /\ ~closed[c]
  /\ closed' = [closed EXCEPT ![c] = TRUE]
  /\ online' = [online EXCEPT ![c] = FALSE]
  /\ peer' = [p \in Peer |-> IF p \in Mapped(c) THEN ClosePeer(peer[p]) ELSE peer[p]]
  /\ disturbed' = TRUE
  /\ UNCHANGED <<conn, wire>>

\* The client's connect(): reopen(), with another socket.
Reopen(c) ==
  /\ closed[c]
  /\ conn[c] < MaxConns[c]
  /\ closed' = [closed EXCEPT ![c] = FALSE]
  /\ wire' = [wire EXCEPT ![c] = <<>>]
  /\ UNCHANGED <<conn, online, peer, disturbed>>

\* The proxy's greeting brings another token.
NewToken(c) ==
  /\ ~online[c] /\ ~closed[c]
  /\ conn[c] < MaxConns[c]
  /\ conn' = [conn EXCEPT ![c] = @ + 1]
  /\ online' = [online EXCEPT ![c] = TRUE]
  /\ UNCHANGED <<closed, peer, wire, disturbed>>

\* The socket is lost, with what was on it.
Lose(c) ==
  /\ online[c]
  /\ conn[c] < MaxConns[c]
  /\ online' = [online EXCEPT ![c] = FALSE]
  /\ wire' = [wire EXCEPT ![c] = <<>>]
  /\ disturbed' = TRUE
  /\ UNCHANGED <<conn, closed, peer>>

\* What the platform does of itself with a connection that works.
Platform(p) ==
  \/ NegotiationNeeded(p) \/ DescriptionSet(p) \/ Accept(p) \/ Flush(p) \/ Announce(p)
  \/ IceConnects(p) \/ IceGivesUp(p)
  \/ ChannelArrives(p) \/ ChannelOpens(p) \/ ChannelCloses(p)

Next ==
  \/ \E c \in Client :
       \/ \E t \in Token : TrySend(c, t) \/ Connect(c, t)
       \/ \E p \in Peer : PeerGone(c, p)
       \/ Receive(c) \/ CloseAll(c) \/ Reopen(c) \/ NewToken(c) \/ Lose(c)
  \/ \E p \in Peer : Platform(p) \/ IceDisconnects(p) \/ IceFails(p) \/ ClosedEvent(p)

Spec == Init /\ [][Next]_vars

\* Signals arrive; the platform ends what it began, and finds the way or gives
\* up.  Nobody is obliged to send, and nothing has to fail.
Fairness ==
  /\ \A c \in Client : WF_vars(Receive(c))
  /\ \A p \in Peer : WF_vars(Platform(p))

FairSpec == Spec /\ Fairness

-----------------------------------------------------------------------------
(* Properties.                                                             *)

\* Every variable has its type.  A peer in the map is not being closed, has a
\* remote, and is the only one of its remote.
TypeOK ==
  /\ conn \in [Client -> Nat \ {0}] /\ \A c \in Client : conn[c] <= MaxConns[c]
  /\ online \in [Client -> BOOLEAN]
  /\ closed \in [Client -> BOOLEAN]
  /\ peer \in [Peer -> PeerState]
  /\ wire \in [Client -> Seq(Frame)]
  /\ disturbed \in BOOLEAN
  /\ \A p \in Peer : peer[p].mapped =>
       /\ ~peer[p].closing
       /\ peer[p].remote # NoToken
       /\ \A q \in Mapped(p[1]) : peer[q].remote = peer[p].remote => q = p

\* A peer that is out of the map has nothing open but while a description is
\* in flight: no connection, no sockets of the platform.  A manager that is
\* closed has no peers (closePeer, _describe, handleIncoming: the process
\* could not end otherwise).
NothingLeftOpen ==
  /\ \A p \in Peer : ~peer[p].mapped /\ ~Busy(peer[p]) =>
       peer[p].pc \in {"none", "closed"} /\ ~peer[p].sockets
  /\ \A c \in Client : closed[c] => Mapped(c) = {}

\* Candidates wait for a remote description and no longer: once it is set,
\* whatever waited is being added, unless the peer is being closed
\* (_handleSignal).
CandidatesNotStranded ==
  \A p \in Peer :
    peer[p].pending # {} /\ peer[p].description # NoPeer /\ ~peer[p].closing =>
      \E i \in 1 .. Len(peer[p].jobs) : peer[p].jobs[i].op = "flush"

\* Two ends that took each other up with the tokens they still have, which are
\* alive, never have an offer each on the table: each sees in the same way which
\* of them creates the channel (_startNegotiation).
Offers(p) == peer[p].makingOffer \/ peer[p].signaling = "have-local-offer"
Paired(p, q) ==
  /\ peer[p].mapped /\ peer[q].mapped
  /\ peer[p].remote = Self(q[1]) /\ peer[q].remote = Self(p[1])
OffersDoNotCross ==
  \A p, q \in Peer :
    /\ Paired(p, q)
    /\ online[p[1]] /\ online[q[1]]
    /\ peer[p].born = conn[p[1]] /\ peer[q].born = conn[q[1]]
    => ~(Offers(p) /\ Offers(q))

\* The comment of _startNegotiation (webrtc.js:480): one alone creates the channel,
\* "so there are no crossed offers", whatever tokens they had before.
OffersNeverCross == \A p, q \in Peer : Paired(p, q) => ~(Offers(p) /\ Offers(q))

\* If nothing goes against it, whoever waits for a channel gets one that both
\* ends can use, whichever of them asked first (_startNegotiation's `start`).
DirectIsReached ==
  \A p \in Peer :
    peer[p].waiting ~> \/ disturbed
                       \/ /\ Partner(p) # NoPeer
                          /\ Usable(peer[p]) /\ Usable(peer[Partner(p)])

\* "Si el canal se cae, webrtc_close lo desapunta y el siguiente mensaje vuelve
\* a intentarlo": a connect() to a peer whose channel fell opens another, or
\* fails (client.js, _upgradeDirect and connectWebRTC).
FallenChannelIsTriedAgain ==
  \A p \in Peer :
    (peer[p].mapped /\ peer[p].dc = "closed" /\ peer[p].waiting)
      ~> (~peer[p].waiting \/ \E c \in Client : ~online[c])
=============================================================================
