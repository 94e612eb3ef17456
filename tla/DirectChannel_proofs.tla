------------------------- MODULE DirectChannel_proofs -------------------------
(***************************************************************************)
(* What is proved of DirectChannel for any clients, connections and peers: *)
(* its types, that nothing is left open, that no candidate waits for ever, *)
(* and that offers do not cross.  The first three are invariants of one    *)
(* peer at a time, but for the map, which has one peer of a remote: so the *)
(* lemmas say what each operation does to one peer's record.  The last is  *)
(* one of two peers and of the signals between them.                       *)
(***************************************************************************)
EXTENDS DirectChannel, TLAPS

Quiet(r) == r.pc \in {"none", "closed"} /\ ~r.sockets

\* What every peer is, but for what may still have to be closed ...
Almost(r) ==
  /\ r \in PeerState
  /\ r.mapped => ~r.closing /\ r.remote # NoToken
  /\ ~r.mapped => r.closing \/ Quiet(r)
  /\ r.pc = "closed" => ~r.mapped /\ ~Busy(r) /\ ~r.sockets
  /\ r.pc = "none" => r.jobs = <<>> /\ ~r.needed /\ ~r.sockets

\* ... and that it is closed when it has to be.
Sound(r) ==
  /\ Almost(r)
  /\ ~r.mapped /\ ~Busy(r) => Quiet(r)

\* The map has one peer of a remote, and none once it is closed.
MapOK ==
  /\ \A p, q \in Peer :
       /\ peer[p].mapped /\ peer[q].mapped
       /\ p[1] = q[1] /\ peer[p].remote = peer[q].remote
       => p = q
  /\ \A p \in Peer : closed[p[1]] => ~peer[p].mapped

PeersOK ==
  /\ peer = [p \in Peer |-> peer[p]]
  /\ \A p \in Peer : Sound(peer[p])
  /\ MapOK

Inv ==
  /\ conn \in [Client -> Nat \ {0}] /\ \A c \in Client : conn[c] <= MaxConns[c]
  /\ online \in [Client -> BOOLEAN]
  /\ closed \in [Client -> BOOLEAN]
  /\ wire \in [Client -> Seq(Frame)]
  /\ disturbed \in BOOLEAN
  /\ PeersOK

-----------------------------------------------------------------------------
(* One peer.                                                               *)

\* A peer just made is sound, and not yet in the map.
LEMMA FreshSound == Sound(Fresh) /\ ~Fresh.mapped
BY DEF Sound, Almost, Fresh, PeerState, Busy, Quiet, PCState, DCState, Job

\* _ensure: the peer in the map, or a new one.
LEMMA EnsuredSound ==
  ASSUME NEW p \in Peer, NEW t \in Token, Sound(peer[p]), conn[p[1]] \in Nat,
         peer[p].mapped => peer[p].remote = t
  PROVE  /\ Sound(Ensured(p, t))
         /\ Ensured(p, t).mapped
         /\ Ensured(p, t).remote = t
<1>1. t # NoToken
  BY Assumptions DEF Token, NoToken
<1>2. CASE peer[p].mapped
  BY <1>2 DEF Ensured
<1>3. CASE ~peer[p].mapped
  <2> DEFINE born == conn[p[1]]
             u == [Fresh EXCEPT !.remote = t, !.mapped = TRUE, !.born = born]
  <2>1. Ensured(p, t) = u /\ born \in Nat
    BY <1>3 DEF Ensured
  <2>2. Fresh \in PeerState
    BY FreshSound DEF Sound, Almost
  <2> HIDE DEF born
  <2>3. u \in PeerState
    BY <2>1, <2>2 DEF PeerState
  <2>4. /\ u.mapped = TRUE /\ u.closing = FALSE /\ u.remote = t /\ u.jobs = <<>>
        /\ u.sockets = FALSE /\ u.pc = "none" /\ u.needed = FALSE
    BY <2>2 DEF Fresh, PeerState
  <2> HIDE DEF u
  <2> QED BY <1>1, <2>1, <2>3, <2>4 DEF Sound, Almost
<1> QED BY <1>2, <1>3

\* A change that leaves alone what Sound looks at.
LEMMA SameSound ==
  ASSUME NEW r, NEW u \in PeerState, Sound(r),
         u.mapped = r.mapped, u.closing = r.closing, u.remote = r.remote,
         u.jobs = r.jobs, u.sockets = r.sockets,
         u.pc = r.pc \/ ({u.pc, r.pc} \cap {"none", "closed"} = {}),
         u.pc = "none" => ~u.needed
  PROVE  Sound(u)
BY DEF Sound, Almost, Busy, Quiet

\* _createPC gives a peer in the map its connection.
LEMMA CreatePCSound ==
  ASSUME NEW c \in Client, NEW r, Sound(r), r.mapped
  PROVE  /\ Sound(CreatePC(c, r))
         /\ CreatePC(c, r).mapped
         /\ CreatePC(c, r).remote = r.remote
         /\ CreatePC(c, r).pc \notin {"none", "closed"}
<1>1. CASE r.pc = "none"
  <2> DEFINE polite == IsPolite(c, r.remote)
             u == [r EXCEPT !.pc = "new", !.polite = polite]
  <2>1. polite \in BOOLEAN
    BY DEF IsPolite
  <2> HIDE DEF polite
  <2>2. u \in PeerState
    BY <2>1 DEF Sound, Almost, PeerState, PCState
  <2>3. /\ u.mapped = r.mapped /\ u.remote = r.remote /\ u.pc = "new" /\ u.jobs = r.jobs
        /\ u.closing = r.closing /\ u.sockets = r.sockets /\ u.needed = r.needed
    BY DEF Sound, Almost, PeerState
  <2>4. CreatePC(c, r) = u
    BY <1>1 DEF CreatePC, polite
  <2> HIDE DEF u
  <2> QED BY <2>2, <2>3, <2>4 DEF Sound, Almost, Busy, Quiet
<1>2. CASE r.pc # "none"
  BY <1>2 DEF CreatePC, Sound, Almost
<1> QED BY <1>1, <1>2

\* _startNegotiation gives it its channel.
LEMMA StartSound ==
  ASSUME NEW c \in Client, NEW r, Sound(r), r.mapped
  PROVE  /\ Sound(StartNegotiation(c, r))
         /\ StartNegotiation(c, r).mapped
         /\ StartNegotiation(c, r).remote = r.remote
<1> DEFINE s == CreatePC(c, r)
           first == Creates(c, r.remote) /\ r.dc = "none"
           u == [s EXCEPT !.negotiating = TRUE,
                          !.dc = IF first THEN "connecting" ELSE @,
                          !.needed = @ \/ first]
<1>1. Sound(s) /\ s.mapped /\ s.remote = r.remote /\ s.pc \notin {"none", "closed"}
  BY CreatePCSound
<1>2. first \in BOOLEAN
  BY DEF Creates
<1>a. s.needed \in BOOLEAN /\ s.dc \in DCState
  BY <1>1 DEF Sound, Almost, PeerState
<1>b. (s.needed \/ first) \in BOOLEAN /\ (IF first THEN "connecting" ELSE s.dc) \in DCState
  BY <1>a DEF DCState
<1> HIDE DEF s, first
<1>3. u \in PeerState
  BY ZenonT(40), <1>1, <1>b DEF Sound, Almost, PeerState
<1>4. /\ u.mapped = s.mapped /\ u.remote = s.remote /\ u.pc = s.pc /\ u.jobs = s.jobs
      /\ u.closing = s.closing /\ u.sockets = s.sockets
  BY <1>1 DEF Sound, Almost, PeerState
<1> HIDE DEF u
<1>5. Sound(u) /\ u.mapped /\ u.remote = r.remote
  BY <1>1, <1>3, <1>4 DEF Sound, Almost, Busy, Quiet
<1> QED BY <1>5 DEF StartNegotiation, s, first, u

\* A peer that failed stays where it is.
LEMMA FailPeerSound ==
  ASSUME NEW r, Sound(r)
  PROVE  /\ Sound(FailPeer(r))
         /\ FailPeer(r).mapped = r.mapped /\ FailPeer(r).remote = r.remote
         /\ FailPeer(r).pc = r.pc
<1> DEFINE u == FailPeer(r)
<1>1. u \in PeerState
  BY DEF Sound, Almost, PeerState, FailPeer
<1>2. /\ u.mapped = r.mapped /\ u.closing = r.closing /\ u.remote = r.remote /\ u.jobs = r.jobs
      /\ u.sockets = r.sockets /\ u.pc = r.pc /\ u.needed = r.needed
  BY DEF Sound, Almost, PeerState, FailPeer
<1>3. r.pc = "none" => ~r.needed
  BY DEF Sound, Almost
<1> HIDE DEF u
<1> QED BY <1>1, <1>2, <1>3, SameSound DEF u

\* Closing the channel changes nothing of the connection.
LEMMA CloseDCKeeps ==
  ASSUME NEW r \in PeerState
  PROVE  LET u == CloseDC(r) IN
         /\ u \in PeerState
         /\ u.mapped = r.mapped /\ u.closing = r.closing /\ u.remote = r.remote
         /\ u.jobs = r.jobs /\ u.sockets = r.sockets /\ u.pc = r.pc /\ u.needed = r.needed
<1> DEFINE dc == IF r.dc \in {"connecting", "open"} THEN "closing" ELSE r.dc
<1>1. dc \in DCState
  BY DEF PeerState, DCState
<1>2. CloseDC(r) = [r EXCEPT !.dc = dc]
  BY DEF CloseDC
<1> HIDE DEF dc
<1> QED BY <1>1, <1>2 DEF PeerState

\* _closeIfDone: what has to be closed is, unless something is in flight.
LEMMA CloseIfDoneSound ==
  ASSUME NEW r, Almost(r)
  PROVE  /\ Sound(CloseIfDone(r))
         /\ CloseIfDone(r).mapped => r.mapped
         /\ CloseIfDone(r).remote = r.remote
<1>1. CASE r.closing /\ ~Busy(r)
  <2>1. CASE r.pc \in {"none", "closed"}
    BY <1>1, <2>1 DEF CloseIfDone, ClosePC, Sound, Almost, Quiet
  <2>2. CASE r.pc \notin {"none", "closed"}
    <3> DEFINE dc == IF r.dc = "none" THEN "none" ELSE "closed"
               u == [Fresh EXCEPT !.remote = r.remote, !.pc = "closed", !.jobs = r.jobs,
                                  !.dc = dc, !.closing = r.closing, !.waiting = r.waiting]
    <3>1. CloseIfDone(r) = u
      BY <1>1, <2>2 DEF CloseIfDone, ClosePC
    <3>2. dc \in DCState
      BY DEF DCState
    <3>3. Fresh \in PeerState
      BY FreshSound DEF Sound, Almost
    <3> HIDE DEF dc
    <3>4. u \in PeerState
      BY <3>2, <3>3 DEF Almost, PeerState, PCState
    <3>5. /\ u.mapped = FALSE /\ u.closing /\ u.remote = r.remote /\ u.jobs = r.jobs
          /\ u.sockets = FALSE /\ u.pc = "closed"
      BY <1>1, <3>3 DEF PeerState, Fresh
    <3> HIDE DEF u
    <3> QED BY <1>1, <3>1, <3>4, <3>5 DEF Sound, Almost, Busy, Quiet
  <2> QED BY <2>1, <2>2
<1>2. CASE ~(r.closing /\ ~Busy(r))
  BY <1>2 DEF CloseIfDone, Sound, Almost
<1> QED BY <1>1, <1>2

\* closePeer takes a peer out of the map, and closes it if it can.
LEMMA ClosePeerSound ==
  ASSUME NEW r, Sound(r), r.mapped
  PROVE  Sound(ClosePeer(r)) /\ ~ClosePeer(r).mapped
<1> DEFINE s == Removed(r)
           u == CloseDC(s)
<1>1. s \in PeerState
  BY DEF Sound, Almost, PeerState, Removed
<1>2. /\ s.mapped = FALSE /\ s.closing = TRUE /\ s.remote = r.remote /\ s.jobs = r.jobs
      /\ s.sockets = r.sockets /\ s.pc = r.pc /\ s.needed = r.needed
  BY DEF Sound, Almost, PeerState, Removed
<1>3. /\ u \in PeerState
      /\ u.mapped = FALSE /\ u.closing = TRUE /\ u.remote = r.remote /\ u.jobs = r.jobs
      /\ u.sockets = r.sockets /\ u.pc = r.pc /\ u.needed = r.needed
  BY <1>1, <1>2, CloseDCKeeps
<1>4. Almost(u)
  BY <1>3 DEF Sound, Almost, Busy, Quiet
<1>5. ClosePeer(r) = CloseIfDone(u)
  BY <1>3 DEF ClosePeer, CloseIfDone, ClosesAtOnce, Busy
<1> QED BY <1>3, <1>4, <1>5, CloseIfDoneSound

-----------------------------------------------------------------------------
(* Jobs.                                                                   *)

HasBusy(q) == \E i \in 1 .. Len(q) : q[i].op # "flush"

\* Another job makes the peer busy, unless it is the adding of candidates.
LEMMA AppendBusy ==
  ASSUME NEW q \in Seq(Job), NEW j \in Job
  PROVE  /\ Append(q, j) \in Seq(Job)
         /\ HasBusy(Append(q, j)) <=> HasBusy(q) \/ j.op # "flush"
<1>1. HasBusy(q) => HasBusy(Append(q, j))
  BY DEF HasBusy
<1>2. j.op # "flush" => HasBusy(Append(q, j))
  BY DEF HasBusy
<1>3. HasBusy(Append(q, j)) /\ j.op = "flush" => HasBusy(q)
  BY DEF HasBusy
<1> QED BY <1>1, <1>2, <1>3

\* A job that is done leaves it as busy as the others make it.
LEMMA TailBusy ==
  ASSUME NEW q \in Seq(Job), q # <<>>
  PROVE  /\ Head(q) \in Job
         /\ Tail(q) \in Seq(Job)
         /\ Head(q).op # "flush" => HasBusy(q)
         /\ Head(q).op = "flush" => (HasBusy(Tail(q)) <=> HasBusy(q))
<1>1. Head(q) \in Job /\ Tail(q) \in Seq(Job) /\ Len(q) \in Nat /\ Len(q) > 0
  OBVIOUS
<1>2. Head(q).op # "flush" => HasBusy(q)
  BY <1>1 DEF HasBusy
<1>3. HasBusy(Tail(q)) => HasBusy(q)
  <2> SUFFICES ASSUME NEW i \in 1 .. Len(Tail(q)), Tail(q)[i].op # "flush"
               PROVE  HasBusy(q)
    BY DEF HasBusy
  <2>1. i + 1 \in 1 .. Len(q) /\ q[i + 1] = Tail(q)[i]
    BY <1>1
  <2> QED BY <2>1 DEF HasBusy
<1>4. Head(q).op = "flush" /\ HasBusy(q) => HasBusy(Tail(q))
  <2> SUFFICES ASSUME Head(q).op = "flush", NEW i \in 1 .. Len(q), q[i].op # "flush"
               PROVE  HasBusy(Tail(q))
    BY DEF HasBusy
  <2>1. i # 1
    BY <1>1
  <2>2. i - 1 \in 1 .. Len(Tail(q)) /\ Tail(q)[i - 1] = q[i]
    BY <1>1, <2>1
  <2> QED BY <2>2 DEF HasBusy
<1> QED BY <1>1, <1>2, <1>3, <1>4

\* A description begins, on a connection there is.
LEMMA DescribeSound ==
  ASSUME NEW r, Almost(r), r.pc # "none", NEW op \in {"offer", "answer"},
         r.pc = "closed" => Sound(r)
  PROVE  /\ Sound(Describe(r, op))
         /\ Describe(r, op).mapped = r.mapped /\ Describe(r, op).remote = r.remote
<1>1. CASE r.pc = "closed"
  BY <1>1 DEF Describe
<1>2. CASE r.pc # "closed"
  <2> DEFINE job == [op |-> op, kind |-> "none", by |-> NoPeer]
             u == [r EXCEPT !.jobs = Append(@, job)]
  <2>1. job \in Job
    BY DEF Job
  <2>2. job.op # "flush"
    OBVIOUS
  <2> HIDE DEF job
  <2>3. r.jobs \in Seq(Job)
    BY DEF Almost, PeerState
  <2>4. Append(r.jobs, job) \in Seq(Job) /\ HasBusy(Append(r.jobs, job))
    BY <2>1, <2>2, <2>3, AppendBusy
  <2>5. u \in PeerState
    BY <2>4 DEF Almost, PeerState
  <2>6. /\ u.mapped = r.mapped /\ u.closing = r.closing /\ u.remote = r.remote
        /\ u.jobs = Append(r.jobs, job) /\ u.sockets = r.sockets /\ u.pc = r.pc
    BY DEF Almost, PeerState
  <2>7. Describe(r, op) = u
    BY <1>2 DEF Describe, job
  <2> HIDE DEF u
  <2>8. Busy(u)
    BY <2>4, <2>6 DEF Busy, HasBusy
  <2> QED BY <1>2, <2>5, <2>6, <2>7, <2>8 DEF Sound, Almost, Quiet
<1> QED BY <1>1, <1>2

\* After an offer the answer is in flight.
LEMMA AnsweredSound ==
  ASSUME NEW r, Almost(r), r.pc # "none", NEW kind, kind # "offer" => Sound(r),
         r.pc = "closed" => Sound(r)
  PROVE  /\ Sound(Answered(r, kind))
         /\ Answered(r, kind).mapped = r.mapped /\ Answered(r, kind).remote = r.remote
<1>1. CASE kind = "offer"
  BY <1>1, DescribeSound DEF Answered
<1>2. CASE kind # "offer"
  BY <1>2 DEF Answered
<1> QED BY <1>1, <1>2

\* A signal leaves the peer in the map sound.
LEMMA AfterSignalSound ==
  ASSUME NEW c \in Client, NEW f \in Frame, NEW r, Sound(r), r.mapped,
         r.pc \notin {"none", "closed"}
  PROVE  /\ Sound(AfterSignal(c, f, r))
         /\ AfterSignal(c, f, r).mapped
         /\ AfterSignal(c, f, r).remote = r.remote
<1> DEFINE u == AfterSignal(c, f, r)
<1>0. r \in PeerState /\ r.jobs \in Seq(Job) /\ f.by \in Peer
  BY DEF Sound, Almost, PeerState, Frame
<1>1. CASE f.kind = "start"
  <2> DEFINE s == [r EXCEPT !.negotiating = FALSE]
  <2>1. s \in PeerState
    BY <1>0 DEF PeerState
  <2>2. /\ s.mapped = r.mapped /\ s.closing = r.closing /\ s.remote = r.remote
        /\ s.jobs = r.jobs /\ s.sockets = r.sockets /\ s.pc = r.pc
    BY <1>0 DEF PeerState
  <2> HIDE DEF s
  <2>3. Sound(s)
    BY <2>1, <2>2, SameSound
  <2>4. u = IF Creates(c, r.remote) /\ r.dc = "none" THEN StartNegotiation(c, s) ELSE r
    BY <1>1 DEF AfterSignal, s
  <2> HIDE DEF u
  <2>5. Sound(u) /\ u.mapped /\ u.remote = r.remote
    BY <2>2, <2>3, <2>4, StartSound
  <2> QED BY <2>5 DEF u
<1>2. CASE f.kind \in {"offer", "answer"}
  <2>1. CASE Ignores(f, r)
    BY <1>2, <2>1 DEF AfterSignal
  <2>2. CASE ~Ignores(f, r)
    <3> DEFINE job == [op |-> "accept", kind |-> f.kind, by |-> f.by]
               s == [r EXCEPT !.jobs = Append(@, job)]
    <3>1. job \in Job /\ job.op # "flush"
      BY <1>0, <1>2 DEF Job
    <3>2. u = s
      BY <1>2, <2>2 DEF AfterSignal
    <3> HIDE DEF job, u
    <3>3. Append(r.jobs, job) \in Seq(Job)
      BY <1>0, <3>1, AppendBusy
    <3>4. s \in PeerState
      BY <1>0, <3>3 DEF PeerState
    <3>5. s.mapped = r.mapped /\ s.closing = r.closing /\ s.remote = r.remote /\ s.pc = r.pc
      BY <1>0 DEF PeerState
    <3> HIDE DEF s
    <3>6. Sound(s) /\ s.mapped /\ s.remote = r.remote
      BY <3>4, <3>5 DEF Sound, Almost
    <3> QED BY <3>2, <3>6 DEF u
  <2> QED BY <2>1, <2>2
<1>3. CASE f.kind = "ice"
  <2>1. u \in {r, [r EXCEPT !.pending = @ \cup {f.by}], [r EXCEPT !.candidates = @ \cup {f.by}]}
    BY <1>3 DEF AfterSignal
  <2>2. \A s \in {r, [r EXCEPT !.pending = @ \cup {f.by}], [r EXCEPT !.candidates = @ \cup {f.by}]} :
          /\ s \in PeerState
          /\ s.mapped = r.mapped /\ s.closing = r.closing /\ s.remote = r.remote
          /\ s.jobs = r.jobs /\ s.sockets = r.sockets /\ s.pc = r.pc
    <3> DEFINE more == r.pending \cup {f.by}
               added == r.candidates \cup {f.by}
               s == [r EXCEPT !.pending = more]
               v == [r EXCEPT !.candidates = added]
    <3>1. more \in SUBSET Peer /\ added \in SUBSET Peer
      BY <1>0 DEF PeerState
    <3> HIDE DEF more, added
    <3>2. /\ s \in PeerState
          /\ s.mapped = r.mapped /\ s.closing = r.closing /\ s.remote = r.remote
          /\ s.jobs = r.jobs /\ s.sockets = r.sockets /\ s.pc = r.pc
      BY <1>0, <3>1 DEF PeerState
    <3>3. /\ v \in PeerState
          /\ v.mapped = r.mapped /\ v.closing = r.closing /\ v.remote = r.remote
          /\ v.jobs = r.jobs /\ v.sockets = r.sockets /\ v.pc = r.pc
      BY <1>0, <3>1 DEF PeerState
    <3> HIDE DEF s, v
    <3> QED BY <1>0, <3>2, <3>3 DEF s, v, more, added
  <2> HIDE DEF u
  <2>3. /\ u \in PeerState
        /\ u.mapped = r.mapped /\ u.closing = r.closing /\ u.remote = r.remote
        /\ u.jobs = r.jobs /\ u.sockets = r.sockets /\ u.pc = r.pc
    BY <2>1, <2>2
  <2>4. Sound(u)
    BY <2>3, SameSound
  <2> QED BY <2>3, <2>4 DEF u
<1> QED BY <1>1, <1>2, <1>3 DEF Frame

-----------------------------------------------------------------------------
(* The map.                                                                *)

\* A peer changes, and is not put in the map.
LEMMA OneChanges ==
  ASSUME PeersOK, NEW p \in Peer, NEW u, Sound(u),
         peer' = [peer EXCEPT ![p] = u], closed' = closed,
         u.mapped => peer[p].mapped /\ u.remote = peer[p].remote
  PROVE  PeersOK'
<1>1. peer' = [q \in Peer |-> IF q = p THEN u ELSE peer[q]]
  BY DEF PeersOK
<1>2. \A q \in Peer : peer'[q] = IF q = p THEN u ELSE peer[q]
  BY <1>1
<1>3. peer' = [q \in Peer |-> peer'[q]]
  BY <1>1, <1>2
<1>4. \A q \in Peer : Sound(peer'[q])
  BY <1>2 DEF PeersOK
<1>5. MapOK'
  BY <1>2 DEF PeersOK, MapOK
<1> QED BY <1>3, <1>4, <1>5 DEF PeersOK

\* A peer changes that _ensurePeer found or made.
LEMMA OneEnsured ==
  ASSUME PeersOK, NEW c \in Client, NEW t, NEW p \in EnsurePeer(c, t), ~closed[c],
         NEW u, Sound(u), u.remote = t,
         peer' = [peer EXCEPT ![p] = u], closed' = closed
  PROVE  PeersOK'
<1>0. /\ p \in Peer /\ p[1] = c
      /\ \A q \in Peer : q[1] = c /\ peer[q].mapped /\ peer[q].remote = t => q = p
  <2>1. CASE {q \in Mapped(c) : peer[q].remote = t} # {}
    <3>1. p \in Mapped(c) /\ peer[p].remote = t
      BY <2>1 DEF EnsurePeer
    <3> QED BY <3>1 DEF Mapped, PeersOK, MapOK
  <2>2. CASE {q \in Mapped(c) : peer[q].remote = t} = {}
    <3>1. p \in Peer /\ p[1] = c
      BY <2>2 DEF EnsurePeer
    <3> QED BY <2>2, <3>1 DEF Mapped
  <2> QED BY <2>1, <2>2
<1>1. peer' = [q \in Peer |-> IF q = p THEN u ELSE peer[q]]
  BY <1>0 DEF PeersOK
<1>2. \A q \in Peer : peer'[q] = IF q = p THEN u ELSE peer[q]
  BY <1>1
<1>3. peer' = [q \in Peer |-> peer'[q]]
  BY <1>1, <1>2
<1>4. \A q \in Peer : Sound(peer'[q])
  BY <1>2 DEF PeersOK
<1>5. MapOK'
  BY <1>0, <1>2 DEF PeersOK, MapOK
<1> QED BY <1>3, <1>4, <1>5 DEF PeersOK

\* A signal leaves frames on the wires.
LEMMA SignalType ==
  ASSUME Inv, NEW p \in Peer, NEW t,
         NEW kind \in {"none", "start", "offer", "answer", "ice"},
         Signal(p[1], t, kind, p)
  PROVE  wire' \in [Client -> Seq(Frame)]
<1>1. p[1] \in Client
  BY DEF Peer
<1>2. Self(p[1]) \in Token
  <2>1. conn[p[1]] \in 1 .. MaxConns[p[1]]
    BY <1>1, Assumptions DEF Inv
  <2> QED BY <1>1, <2>1 DEF Self, Token
<1>3. kind # "none" => [kind |-> kind, from |-> Self(p[1]), by |-> p] \in Frame
  BY <1>2 DEF Frame
<1>4. wire \in [Client -> Seq(Frame)]
  BY DEF Inv
<1>5. CASE kind # "none" /\ online[p[1]] /\ Alive(t)
  <2> DEFINE f == [kind |-> kind, from |-> Self(p[1]), by |-> p]
  <2>1. f \in Frame
    BY <1>3, <1>5
  <2>2. wire' = [wire EXCEPT ![t[1]] = Append(@, f)]
    BY <1>5 DEF Signal
  <2> HIDE DEF f
  <2>3. wire' = [c \in Client |-> IF c = t[1] THEN Append(wire[c], f) ELSE wire[c]]
    BY <1>4, <2>2
  <2>4. \A c \in Client : Append(wire[c], f) \in Seq(Frame) /\ wire[c] \in Seq(Frame)
    BY <1>4, <2>1
  <2> QED BY <2>3, <2>4
<1>6. CASE ~(kind # "none" /\ online[p[1]] /\ Alive(t))
  BY <1>4, <1>6 DEF Signal
<1> QED BY <1>5, <1>6

-----------------------------------------------------------------------------
(* The steps.                                                              *)

\* No peer has been used.
LEMMA InitInv == Init => Inv
<1> SUFFICES ASSUME Init PROVE Inv
  OBVIOUS
<1>1. conn \in [Client -> Nat \ {0}] /\ \A c \in Client : conn[c] <= MaxConns[c]
  BY Assumptions DEF Init
<1>2. wire \in [Client -> Seq(Frame)]
  BY DEF Init
<1>3. PeersOK
  BY FreshSound DEF Init, PeersOK, MapOK
<1> QED BY <1>1, <1>2, <1>3 DEF Init, Inv

\* _ensurePeer finds or makes a peer of the client's, with that remote.
LEMMA EnsureStep ==
  ASSUME Inv, NEW c \in Client, NEW t \in Token, NEW p \in EnsurePeer(c, t),
         NEW r, r = Ensured(p, t)
  PROVE  /\ p \in Peer /\ p[1] = c
         /\ r \in PeerState /\ Sound(r) /\ r.mapped /\ r.remote = t
<1>1. p \in Peer /\ p[1] = c /\ (peer[p].mapped => peer[p].remote = t)
  <2>1. CASE {q \in Mapped(c) : peer[q].remote = t} # {}
    BY <2>1 DEF EnsurePeer, Mapped
  <2>2. CASE {q \in Mapped(c) : peer[q].remote = t} = {}
    BY <2>2 DEF EnsurePeer, Unused, Over
  <2> QED BY <2>1, <2>2
<1>2. Sound(peer[p])
  BY <1>1 DEF Inv, PeersOK
<1>3. conn[p[1]] \in Nat
  BY <1>1 DEF Inv, Peer
<1>4. Sound(r) /\ r.mapped /\ r.remote = t
  BY <1>1, <1>2, <1>3, EnsuredSound
<1> QED BY <1>1, <1>4 DEF Sound, Almost

\* What comes after: the peer's new record, and perhaps a signal.
LEMMA EnsuredInv ==
  ASSUME Inv, NEW c \in Client, NEW t \in Token, NEW p \in EnsurePeer(c, t), ~closed[c],
         p \in Peer, p[1] = c,
         NEW u, Sound(u), u.remote = t,
         NEW kind \in {"none", "start", "offer", "answer", "ice"}, Becomes(p, u, kind),
         UNCHANGED <<conn, online, closed, disturbed>>
  PROVE  Inv'
<1>1. peer' = [peer EXCEPT ![p] = u] /\ Signal(p[1], t, kind, p)
  BY DEF Becomes
<1>2. PeersOK'
  BY <1>1, OneEnsured DEF Inv
<1>3. wire' \in [Client -> Seq(Frame)]
  BY <1>1, SignalType
<1> QED BY <1>2, <1>3 DEF Inv

\* The application sends.
LEMMA TrySendInv ==
  ASSUME Inv, NEW c \in Client, NEW t \in Token, TrySend(c, t)
  PROVE  Inv'
<1>1. /\ ~closed[c] /\ UNCHANGED <<conn, online, closed, disturbed>>
      /\ \E p \in EnsurePeer(c, t), r \in {Ensured(q, t) : q \in EnsurePeer(c, t)} :
           /\ r = Ensured(p, t)
           /\ \/ Becomes(p, r, "none")
              \/ Becomes(p, StartNegotiation(c, r), Request(c, r))
  BY DEF TrySend
<1>2. PICK p \in EnsurePeer(c, t), r \in {Ensured(q, t) : q \in EnsurePeer(c, t)} :
           /\ r = Ensured(p, t)
           /\ \/ Becomes(p, r, "none")
              \/ Becomes(p, StartNegotiation(c, r), Request(c, r))
  BY <1>1
<1>3. p \in Peer /\ p[1] = c /\ Sound(r) /\ r.mapped /\ r.remote = t
  BY <1>2, EnsureStep
<1>4. CASE Becomes(p, r, "none")
  BY <1>1, <1>3, <1>4, EnsuredInv
<1>5. CASE Becomes(p, StartNegotiation(c, r), Request(c, r))
  <2> DEFINE s == StartNegotiation(c, r)
             kind == Request(c, r)
  <2>1. Sound(s) /\ s.remote = t
    BY <1>3, StartSound
  <2>2. kind \in {"none", "start", "offer", "answer", "ice"}
    BY DEF Request
  <2>3. Becomes(p, s, kind)
    BY <1>5
  <2> HIDE DEF s, kind
  <2> QED BY <1>1, <1>3, <2>1, <2>2, <2>3, EnsuredInv
<1> QED BY <1>2, <1>4, <1>5

\* It asks for a channel.
LEMMA ConnectInv ==
  ASSUME Inv, NEW c \in Client, NEW t \in Token, Connect(c, t)
  PROVE  Inv'
<1>1. /\ ~closed[c] /\ UNCHANGED <<conn, online, closed, disturbed>>
      /\ \E p \in EnsurePeer(c, t), r \in {Ensured(q, t) : q \in EnsurePeer(c, t)} :
           /\ r = Ensured(p, t)
           /\ Becomes(p, [StartNegotiation(c, r) EXCEPT !.waiting = TRUE], Request(c, r))
  BY DEF Connect
<1>2. PICK p \in EnsurePeer(c, t), r \in {Ensured(q, t) : q \in EnsurePeer(c, t)} :
           /\ r = Ensured(p, t)
           /\ Becomes(p, [StartNegotiation(c, r) EXCEPT !.waiting = TRUE], Request(c, r))
  BY <1>1
<1>3. p \in Peer /\ p[1] = c /\ Sound(r) /\ r.mapped /\ r.remote = t
  BY <1>2, EnsureStep
<1> DEFINE s == StartNegotiation(c, r)
           w == [s EXCEPT !.waiting = TRUE]
           kind == Request(c, r)
<1>4. Sound(s) /\ s.remote = t
  BY <1>3, StartSound
<1>5. kind \in {"none", "start", "offer", "answer", "ice"}
  BY DEF Request
<1>6. Becomes(p, w, kind)
  BY <1>2
<1> HIDE DEF s, kind
<1>7. w \in PeerState
  BY <1>4 DEF Sound, Almost, PeerState
<1>8. /\ w.mapped = s.mapped /\ w.closing = s.closing /\ w.remote = s.remote
      /\ w.jobs = s.jobs /\ w.sockets = s.sockets /\ w.pc = s.pc /\ w.needed = s.needed
  BY <1>4 DEF Sound, Almost, PeerState
<1>9. s.pc = "none" => ~s.needed
  BY <1>4 DEF Sound, Almost
<1> HIDE DEF w
<1>10. Sound(w) /\ w.remote = t
  BY <1>4, <1>7, <1>8, <1>9, SameSound
<1> QED BY <1>1, <1>3, <1>5, <1>6, <1>10, EnsuredInv

\* A signal arrives.
LEMMA ReceiveInv ==
  ASSUME Inv, NEW c \in Client, Receive(c)
  PROVE  Inv'
<1> DEFINE f == Head(wire[c])
<1>1. wire \in [Client -> Seq(Frame)] /\ wire[c] # <<>> /\ wire' = [wire EXCEPT ![c] = Tail(@)]
  BY DEF Receive, Inv
<1>2. f \in Frame /\ wire' \in [Client -> Seq(Frame)]
  BY <1>1
<1>3. UNCHANGED <<conn, online, closed, disturbed>>
  BY DEF Receive
<1>4. f.from \in Token
  BY <1>2 DEF Frame
<1>5. CASE closed[c]
  <2>1. peer' = peer
    BY <1>5 DEF Receive, Listens
  <2>2. PeersOK'
    BY <1>3, <2>1 DEF Inv, PeersOK, MapOK
  <2> QED BY <1>2, <1>3, <2>2 DEF Inv
<1>6. CASE ~closed[c]
  <2>1. \E p \in EnsurePeer(c, f.from) :
          peer' = [peer EXCEPT ![p] = AfterSignal(c, f, CreatePC(c, Ensured(p, f.from)))]
    BY <1>6 DEF Receive, Listens
  <2> HIDE DEF f
  <2>2. PICK p \in EnsurePeer(c, f.from), r \in {Ensured(q, f.from) : q \in EnsurePeer(c, f.from)} :
          /\ r = Ensured(p, f.from)
          /\ peer' = [peer EXCEPT ![p] = AfterSignal(c, f, CreatePC(c, r))]
    BY <2>1
  <2>3. p \in Peer /\ p[1] = c /\ Sound(r) /\ r.mapped /\ r.remote = f.from
    BY <1>4, <2>2, EnsureStep
  <2> DEFINE s == CreatePC(c, r)
             u == AfterSignal(c, f, s)
  <2>4. Sound(s) /\ s.mapped /\ s.remote = f.from /\ s.pc \notin {"none", "closed"}
    BY <2>3, CreatePCSound
  <2> HIDE DEF s
  <2>5. Sound(u) /\ u.remote = f.from
    BY <1>2, <2>4, AfterSignalSound
  <2> HIDE DEF u
  <2>6. peer' = [peer EXCEPT ![p] = u]
    BY <2>2 DEF s, u
  <2>7. PeersOK'
    BY <1>3, <1>6, <2>5, <2>6, OneEnsured DEF Inv
  <2> QED BY <1>2, <1>3, <2>7 DEF Inv
<1> QED BY <1>5, <1>6

\* A step of one peer that does not put it in the map.
LEMMA PeerInv ==
  ASSUME Inv, NEW p \in Peer, NEW u, Sound(u),
         u.mapped => peer[p].mapped /\ u.remote = peer[p].remote,
         peer' = [peer EXCEPT ![p] = u],
         UNCHANGED <<conn, online, closed>>, disturbed' \in BOOLEAN,
         wire' \in [Client -> Seq(Frame)]
  PROVE  Inv'
<1>1. PeersOK'
  BY OneChanges DEF Inv
<1> QED BY <1>1 DEF Inv

\* The platform asks for an offer.
LEMMA NegotiationNeededInv ==
  ASSUME Inv, NEW p \in Peer, NegotiationNeeded(p)
  PROVE  Inv'
<1> DEFINE r == peer[p]
           s == [r EXCEPT !.needed = FALSE, !.makingOffer = TRUE]
           u == Describe(s, "offer")
<1>1. r.needed /\ peer' = [peer EXCEPT ![p] = u]
  BY DEF NegotiationNeeded
<1>2. UNCHANGED <<conn, online, closed, wire, disturbed>>
  BY DEF NegotiationNeeded
<1>3. Sound(r)
  BY DEF Inv, PeersOK
<1> HIDE DEF r
<1>4. s \in PeerState
  BY <1>3 DEF Sound, Almost, PeerState
<1>5. /\ s.mapped = r.mapped /\ s.closing = r.closing /\ s.remote = r.remote
      /\ s.jobs = r.jobs /\ s.sockets = r.sockets /\ s.pc = r.pc /\ s.needed = FALSE
  BY <1>3 DEF Sound, Almost, PeerState
<1> HIDE DEF s
<1>6. Sound(s)
  BY <1>3, <1>4, <1>5, SameSound
<1>7. s.pc # "none"
  BY <1>1, <1>3, <1>5 DEF Sound, Almost
<1>8. Sound(u) /\ u.mapped = s.mapped /\ u.remote = s.remote
  BY <1>6, <1>7, DescribeSound DEF Sound
<1> HIDE DEF u
<1>9. u.mapped => peer[p].mapped /\ u.remote = peer[p].remote
  BY <1>5, <1>8 DEF r
<1> QED BY <1>1, <1>2, <1>8, <1>9, PeerInv DEF Inv

\* With a description in flight the connection is there, and whoever is out of
\* the map is being closed.
LEMMA InFlight ==
  ASSUME NEW r, Sound(r), r.jobs # <<>>, Head(r.jobs).op # "flush"
  PROVE  /\ r \in PeerState
         /\ r.pc \notin {"none", "closed"}
         /\ ~r.mapped => r.closing
<1>1. r \in PeerState /\ r.jobs \in Seq(Job)
  BY DEF Sound, Almost, PeerState
<1>2. HasBusy(r.jobs)
  BY <1>1, TailBusy
<1> QED BY <1>1, <1>2 DEF Sound, Almost, Busy, HasBusy, Quiet

\* ... and without it nothing of that changes until _describe's finally.
LEMMA JobDone ==
  ASSUME NEW r, Sound(r), r.jobs # <<>>, Head(r.jobs).op # "flush",
         NEW u \in PeerState,
         u.mapped = r.mapped, u.closing = r.closing, u.remote = r.remote, u.pc = r.pc
  PROVE  /\ Almost(u)
         /\ r.mapped => Sound(u)
         /\ Sound(CloseIfDone(u))
         /\ CloseIfDone(u).mapped => r.mapped
         /\ CloseIfDone(u).remote = r.remote
<1>1. r.pc \notin {"none", "closed"} /\ (~r.mapped => r.closing)
  BY InFlight
<1>2. Almost(u)
  BY <1>1 DEF Sound, Almost
<1>3. r.mapped => Sound(u)
  BY <1>2 DEF Sound
<1> QED BY <1>2, <1>3, CloseIfDoneSound

\* A description of one's own is set.
LEMMA DescriptionSetInv ==
  ASSUME Inv, NEW p \in Peer, DescriptionSet(p)
  PROVE  Inv'
<1> DEFINE r == peer[p]
           signaling == IF LocalKind(r) = "answer" THEN "stable" ELSE "have-local-offer"
           making == IF Head(r.jobs).op = "offer" THEN FALSE ELSE r.makingOffer
           set == [r EXCEPT !.signaling = signaling]
           ended == [set EXCEPT !.jobs = Tail(@), !.sockets = TRUE, !.makingOffer = making]
           kind == IF r.closing \/ r.pc = "closed" THEN "none" ELSE LocalKind(r)
<1>1. r.jobs # <<>> /\ Head(r.jobs).op \in {"offer", "answer"}
  BY DEF DescriptionSet
<1>2. UNCHANGED <<conn, online, closed, disturbed>>
  BY DEF DescriptionSet
<1>3. Sound(r)
  BY DEF Inv, PeersOK
<1>4. r \in PeerState /\ r.pc # "closed" /\ r.jobs \in Seq(Job)
  BY <1>1, <1>3, InFlight DEF PeerState
<1>5. Becomes(p, CloseIfDone(ended), kind)
  BY <1>1, <1>4 DEF DescriptionSet
<1>6. kind \in {"none", "start", "offer", "answer", "ice"}
  BY DEF LocalKind
<1>7. signaling \in {"stable", "have-local-offer", "have-remote-offer"} /\ making \in BOOLEAN
  BY <1>4 DEF PeerState
<1>8. Tail(r.jobs) \in Seq(Job)
  BY <1>1, <1>4
<1> HIDE DEF signaling, making, kind, r
<1>9. set \in PeerState
  BY <1>4, <1>7 DEF PeerState
<1>10. /\ set.mapped = r.mapped /\ set.closing = r.closing /\ set.remote = r.remote
       /\ set.pc = r.pc /\ set.jobs = r.jobs
  BY <1>4 DEF PeerState
<1> HIDE DEF set
<1>11. ended \in PeerState
  BY <1>7, <1>8, <1>9, <1>10 DEF PeerState
<1>12. /\ ended.mapped = r.mapped /\ ended.closing = r.closing /\ ended.remote = r.remote
       /\ ended.pc = r.pc
  BY <1>9, <1>10 DEF PeerState
<1> HIDE DEF ended
<1> DEFINE u == CloseIfDone(ended)
<1>13. Sound(u) /\ (u.mapped => r.mapped) /\ u.remote = r.remote
  BY <1>1, <1>3, <1>11, <1>12, JobDone
<1> HIDE DEF u
<1>14. peer' = [peer EXCEPT ![p] = u] /\ Signal(p[1], u.remote, kind, p)
  BY <1>5 DEF Becomes, u
<1>15. wire' \in [Client -> Seq(Frame)]
  BY <1>6, <1>14, SignalType
<1>16. u.mapped => peer[p].mapped /\ u.remote = peer[p].remote
  BY <1>13 DEF r
<1> QED BY <1>2, <1>13, <1>14, <1>15, <1>16, PeerInv DEF Inv

\* The other one's is.
LEMMA AcceptInv ==
  ASSUME Inv, NEW p \in Peer, Accept(p)
  PROVE  Inv'
<1> DEFINE r == peer[p]
           job == Head(r.jobs)
           signaling == IF job.kind = "offer" THEN "have-remote-offer" ELSE "stable"
           rest == [r EXCEPT !.jobs = Tail(@)]
           set == [rest EXCEPT !.description = job.by, !.signaling = signaling]
           after == [job EXCEPT !.op = "flush"]
           flush == [set EXCEPT !.jobs = Append(@, after)]
           next == IF r.closing THEN set
                   ELSE IF r.pending = {} THEN Answered(set, job.kind) ELSE flush
           valid == r.pc # "closed" /\ (job.kind = "answer" => r.signaling = "have-local-offer")
           u == CloseIfDone(IF valid THEN next ELSE rest)
<1>1. r.jobs # <<>> /\ job.op = "accept" /\ peer' = [peer EXCEPT ![p] = u]
  BY DEF Accept
<1>2. UNCHANGED <<conn, online, closed, wire, disturbed>>
  BY DEF Accept
<1>3. Sound(r)
  BY DEF Inv, PeersOK
<1>4. r \in PeerState /\ r.pc \notin {"none", "closed"} /\ (~r.mapped => r.closing)
  BY <1>1, <1>3, InFlight
<1>5. r.jobs \in Seq(Job) /\ job \in Job /\ Tail(r.jobs) \in Seq(Job)
  BY <1>1, <1>4 DEF PeerState
<1>6. /\ signaling \in {"stable", "have-local-offer", "have-remote-offer"}
      /\ job.by \in Peer \cup {NoPeer}
  BY <1>5 DEF Job
<1>7. after \in Job
  BY <1>5 DEF Job
<1> HIDE DEF r, job, signaling, after, valid
<1>8. rest \in PeerState
  BY <1>4, <1>5 DEF PeerState
<1>9. /\ rest.mapped = r.mapped /\ rest.closing = r.closing /\ rest.remote = r.remote
      /\ rest.pc = r.pc /\ rest.jobs = Tail(r.jobs)
  BY <1>4 DEF PeerState
<1> HIDE DEF rest
<1>10. set \in PeerState
  BY <1>6, <1>8 DEF PeerState
<1>11. /\ set.mapped = r.mapped /\ set.closing = r.closing /\ set.remote = r.remote
       /\ set.pc = r.pc /\ set.jobs = Tail(r.jobs)
  BY <1>8, <1>9 DEF PeerState
<1> HIDE DEF set
<1>12. Append(set.jobs, after) \in Seq(Job)
  BY <1>5, <1>7, <1>11, AppendBusy
<1>13. flush \in PeerState
  BY <1>10, <1>12 DEF PeerState
<1>14. /\ flush.mapped = r.mapped /\ flush.closing = r.closing /\ flush.remote = r.remote
       /\ flush.pc = r.pc
  BY <1>10, <1>11 DEF PeerState
<1> HIDE DEF flush
<1>15. \A v \in {rest, set, flush} :
         Almost(v) /\ (r.mapped => Sound(v)) /\ v.mapped = r.mapped /\ v.remote = r.remote
  <2>1. job.op # "flush"
    BY <1>1
  <2> QED BY <1>1, <1>3, <1>8, <1>9, <1>10, <1>11, <1>13, <1>14, <2>1, JobDone DEF job
<1>16. ~r.closing => LET v == Answered(set, job.kind) IN
         Almost(v) /\ v.mapped = r.mapped /\ v.remote = r.remote
  BY <1>4, <1>11, <1>15, AnsweredSound DEF Sound
<1>17. LET v == IF valid THEN next ELSE rest IN
         Almost(v) /\ v.mapped = r.mapped /\ v.remote = r.remote
  BY <1>15, <1>16
<1>18. Sound(u) /\ (u.mapped => r.mapped) /\ u.remote = r.remote
  BY <1>17, CloseIfDoneSound
<1> HIDE DEF u
<1>19. u.mapped => peer[p].mapped /\ u.remote = peer[p].remote
  BY <1>18 DEF r
<1> QED BY <1>1, <1>2, <1>18, <1>19, PeerInv DEF Inv

\* Its candidates are added.
LEMMA FlushInv ==
  ASSUME Inv, NEW p \in Peer, Flush(p)
  PROVE  Inv'
<1> DEFINE r == peer[p]
           job == Head(r.jobs)
           added == r.candidates \cup (r.pending \cap {r.description})
           rest == [r EXCEPT !.jobs = Tail(@), !.pending = {}, !.candidates = added]
           u == Answered(rest, job.kind)
<1>1. r.jobs # <<>> /\ job.op = "flush" /\ peer' = [peer EXCEPT ![p] = u]
  BY DEF Flush
<1>2. UNCHANGED <<conn, online, closed, wire, disturbed>>
  BY DEF Flush
<1>3. Sound(r) /\ r \in PeerState /\ r.pc # "none"
  BY <1>1 DEF Inv, PeersOK, Sound, Almost
<1>4. r.jobs \in Seq(Job)
  BY <1>3 DEF PeerState
<1>5. Tail(r.jobs) \in Seq(Job) /\ (HasBusy(Tail(r.jobs)) <=> HasBusy(r.jobs))
  BY <1>1, <1>4, TailBusy
<1>6. added \in SUBSET Peer
  BY <1>3 DEF PeerState
<1> HIDE DEF r, job, added
<1>7. rest \in PeerState
  BY <1>3, <1>5, <1>6 DEF PeerState
<1>8. /\ rest.mapped = r.mapped /\ rest.closing = r.closing /\ rest.remote = r.remote
      /\ rest.pc = r.pc /\ rest.jobs = Tail(r.jobs) /\ rest.sockets = r.sockets
  BY <1>3 DEF PeerState
<1> HIDE DEF rest
<1>9. Busy(rest) <=> Busy(r)
  BY <1>5, <1>8 DEF Busy, HasBusy
<1>10. Sound(rest)
  BY <1>3, <1>7, <1>8, <1>9 DEF Sound, Almost, Quiet
<1>11. Sound(u) /\ u.mapped = r.mapped /\ u.remote = r.remote
  BY <1>3, <1>8, <1>10, AnsweredSound DEF Sound
<1> HIDE DEF u
<1>12. u.mapped => peer[p].mapped /\ u.remote = peer[p].remote
  BY <1>11 DEF r
<1> QED BY <1>1, <1>2, <1>11, <1>12, PeerInv DEF Inv

\* The platform's and the channel's own steps, which leave the map alone.
LEMMA SameInv ==
  ASSUME Inv, NEW p \in Peer, NEW u \in PeerState, peer' = [peer EXCEPT ![p] = u],
         u.mapped = peer[p].mapped, u.closing = peer[p].closing, u.remote = peer[p].remote,
         u.jobs = peer[p].jobs, u.sockets = peer[p].sockets,
         u.pc = peer[p].pc \/ ({u.pc, peer[p].pc} \cap {"none", "closed"} = {}),
         u.needed = peer[p].needed,
         UNCHANGED <<conn, online, closed>>, disturbed' \in BOOLEAN,
         wire' \in [Client -> Seq(Frame)]
  PROVE  Inv'
<1>1. Sound(peer[p])
  BY DEF Inv, PeersOK
<1>2. u.pc = "none" => ~u.needed
  BY <1>1 DEF Sound, Almost
<1>3. Sound(u)
  BY <1>1, <1>2, SameSound
<1> QED BY <1>3, PeerInv

\* A way is found.
LEMMA IceConnectsInv ==
  ASSUME Inv, NEW p \in Peer, IceConnects(p)
  PROVE  Inv'
<1> DEFINE r == peer[p]
           u == [r EXCEPT !.pc = "connected"]
<1>1. r \in PeerState /\ peer' = [peer EXCEPT ![p] = u]
  BY DEF IceConnects, Inv, PeersOK, Sound, Almost
<1>2. /\ UNCHANGED <<conn, online, closed, wire>>
      /\ disturbed' \in BOOLEAN
      /\ r.pc \notin {"none", "closed"}
  BY DEF IceConnects, Inv
<1>3. u \in PeerState
  BY <1>1 DEF PeerState, PCState, DCState
<1>4. /\ u.mapped = r.mapped /\ u.closing = r.closing /\ u.remote = r.remote
      /\ u.jobs = r.jobs /\ u.sockets = r.sockets /\ u.needed = r.needed /\ u.pc = "connected"
  BY <1>1 DEF PeerState
<1> HIDE DEF u
<1> QED BY <1>1, <1>2, <1>3, <1>4, SameInv DEF Inv

\* It is lost for a while.
LEMMA IceDisconnectsInv ==
  ASSUME Inv, NEW p \in Peer, IceDisconnects(p)
  PROVE  Inv'
<1> DEFINE r == peer[p]
           u == [r EXCEPT !.pc = "disconnected"]
<1>1. r \in PeerState /\ peer' = [peer EXCEPT ![p] = u]
  BY DEF IceDisconnects, Inv, PeersOK, Sound, Almost
<1>2. /\ UNCHANGED <<conn, online, closed, wire>>
      /\ disturbed' \in BOOLEAN
      /\ r.pc \notin {"none", "closed"}
  BY DEF IceDisconnects, Inv
<1>3. u \in PeerState
  BY <1>1 DEF PeerState, PCState, DCState
<1>4. /\ u.mapped = r.mapped /\ u.closing = r.closing /\ u.remote = r.remote
      /\ u.jobs = r.jobs /\ u.sockets = r.sockets /\ u.needed = r.needed /\ u.pc = "disconnected"
  BY <1>1 DEF PeerState
<1> HIDE DEF u
<1> QED BY <1>1, <1>2, <1>3, <1>4, SameInv DEF Inv

\* The platform tells that a connection is closed.
LEMMA ClosedEventInv ==
  ASSUME Inv, NEW p \in Peer, ClosedEvent(p)
  PROVE  Inv'
<1> DEFINE r == peer[p]
           u == [r EXCEPT !.waiting = FALSE]
<1>1. r \in PeerState /\ peer' = [peer EXCEPT ![p] = u]
  BY DEF ClosedEvent, Inv, PeersOK, Sound, Almost
<1>2. UNCHANGED <<conn, online, closed, wire>> /\ disturbed' \in BOOLEAN
  BY DEF ClosedEvent, Inv
<1>3. u \in PeerState
  BY <1>1 DEF PeerState, PCState, DCState
<1>4. /\ u.mapped = r.mapped /\ u.closing = r.closing /\ u.remote = r.remote
      /\ u.jobs = r.jobs /\ u.sockets = r.sockets /\ u.needed = r.needed /\ u.pc = r.pc
  BY <1>1 DEF PeerState
<1> HIDE DEF u
<1> QED BY <1>1, <1>2, <1>3, <1>4, SameInv DEF Inv

\* The channel arrives at the other end.
LEMMA ChannelArrivesInv ==
  ASSUME Inv, NEW p \in Peer, ChannelArrives(p)
  PROVE  Inv'
<1> DEFINE r == peer[p]
           u == [r EXCEPT !.dc = "connecting"]
<1>1. r \in PeerState /\ peer' = [peer EXCEPT ![p] = u]
  BY DEF ChannelArrives, Inv, PeersOK, Sound, Almost
<1>2. UNCHANGED <<conn, online, closed, wire>> /\ disturbed' \in BOOLEAN
  BY DEF ChannelArrives, Inv
<1>3. u \in PeerState
  BY <1>1 DEF PeerState, PCState, DCState
<1>4. /\ u.mapped = r.mapped /\ u.closing = r.closing /\ u.remote = r.remote
      /\ u.jobs = r.jobs /\ u.sockets = r.sockets /\ u.needed = r.needed /\ u.pc = r.pc
  BY <1>1 DEF PeerState
<1> HIDE DEF u
<1> QED BY <1>1, <1>2, <1>3, <1>4, SameInv DEF Inv

\* It opens.
LEMMA ChannelOpensInv ==
  ASSUME Inv, NEW p \in Peer, ChannelOpens(p)
  PROVE  Inv'
<1> DEFINE r == peer[p]
           u == [r EXCEPT !.dc = "open", !.waiting = FALSE]
<1>1. r \in PeerState /\ peer' = [peer EXCEPT ![p] = u]
  BY DEF ChannelOpens, Inv, PeersOK, Sound, Almost
<1>2. UNCHANGED <<conn, online, closed, wire>> /\ disturbed' \in BOOLEAN
  BY DEF ChannelOpens, Inv
<1>3. u \in PeerState
  BY <1>1 DEF PeerState, PCState, DCState
<1>4. /\ u.mapped = r.mapped /\ u.closing = r.closing /\ u.remote = r.remote
      /\ u.jobs = r.jobs /\ u.sockets = r.sockets /\ u.needed = r.needed /\ u.pc = r.pc
  BY <1>1 DEF PeerState
<1> HIDE DEF u
<1> QED BY <1>1, <1>2, <1>3, <1>4, SameInv DEF Inv

\* It closes.
LEMMA ChannelClosesInv ==
  ASSUME Inv, NEW p \in Peer, ChannelCloses(p)
  PROVE  Inv'
<1> DEFINE r == peer[p]
           u == [r EXCEPT !.dc = "closed"]
<1>1. r \in PeerState /\ peer' = [peer EXCEPT ![p] = u]
  BY DEF ChannelCloses, Inv, PeersOK, Sound, Almost
<1>2. UNCHANGED <<conn, online, closed, wire>> /\ disturbed' \in BOOLEAN
  BY DEF ChannelCloses, Inv
<1>3. u \in PeerState
  BY <1>1 DEF PeerState, PCState, DCState
<1>4. /\ u.mapped = r.mapped /\ u.closing = r.closing /\ u.remote = r.remote
      /\ u.jobs = r.jobs /\ u.sockets = r.sockets /\ u.needed = r.needed /\ u.pc = r.pc
  BY <1>1 DEF PeerState
<1> HIDE DEF u
<1> QED BY <1>1, <1>2, <1>3, <1>4, SameInv DEF Inv

\* A candidate is announced.
LEMMA AnnounceInv ==
  ASSUME Inv, NEW p \in Peer, Announce(p)
  PROVE  Inv'
<1> DEFINE r == peer[p]
           u == [r EXCEPT !.gathered = TRUE]
<1>1. r \in PeerState
  BY DEF Inv, PeersOK, Sound, Almost
<1>2. UNCHANGED <<conn, online, closed, disturbed>> /\ disturbed' \in BOOLEAN
  BY DEF Announce, Inv
<1>3. peer' = [peer EXCEPT ![p] = u] /\ Signal(p[1], u.remote, "ice", p)
  BY DEF Announce, Becomes
<1>4. u \in PeerState
  BY <1>1 DEF PeerState
<1>5. /\ u.mapped = r.mapped /\ u.closing = r.closing /\ u.remote = r.remote
      /\ u.jobs = r.jobs /\ u.sockets = r.sockets /\ u.needed = r.needed /\ u.pc = r.pc
  BY <1>1 DEF PeerState
<1> HIDE DEF u
<1>6. wire' \in [Client -> Seq(Frame)]
  BY <1>3, SignalType
<1> QED BY <1>2, <1>3, <1>4, <1>5, <1>6, SameInv

\* A connection fails that was neither just made nor closed.
LEMMA FailedInv ==
  ASSUME Inv, NEW p \in Peer, Living(p), Failed(p), disturbed' \in BOOLEAN
  PROVE  Inv'
<1> DEFINE r == peer[p]
           s == [r EXCEPT !.pc = "failed"]
           t == FailPeer(s)
           u == CloseDC(t)
<1>1. Sound(r) /\ r \in PeerState
  BY DEF Inv, PeersOK, Sound, Almost
<1>2. UNCHANGED <<conn, online, closed, wire>> /\ wire' \in [Client -> Seq(Frame)]
  BY DEF Failed, Inv
<1>3. peer' = [peer EXCEPT ![p] = u] /\ r.pc \notin {"none", "closed"}
  BY DEF Failed, Living
<1> HIDE DEF r
<1>4. s \in PeerState
  BY <1>1 DEF PeerState, PCState
<1>5. /\ s.mapped = r.mapped /\ s.closing = r.closing /\ s.remote = r.remote
      /\ s.jobs = r.jobs /\ s.sockets = r.sockets /\ s.needed = r.needed /\ s.pc = "failed"
  BY <1>1 DEF PeerState
<1> HIDE DEF s
<1>6. t \in PeerState
  BY <1>4 DEF PeerState, FailPeer
<1>7. /\ t.mapped = r.mapped /\ t.closing = r.closing /\ t.remote = r.remote
      /\ t.jobs = r.jobs /\ t.sockets = r.sockets /\ t.needed = r.needed /\ t.pc = "failed"
  BY <1>4, <1>5 DEF PeerState, FailPeer
<1> HIDE DEF t
<1>8. /\ u \in PeerState
      /\ u.mapped = r.mapped /\ u.closing = r.closing /\ u.remote = r.remote
      /\ u.jobs = r.jobs /\ u.sockets = r.sockets /\ u.needed = r.needed /\ u.pc = "failed"
  BY <1>6, <1>7, CloseDCKeeps
<1> HIDE DEF u
<1> QED BY <1>2, <1>3, <1>8, SameInv DEF r

\* The other one's token is dead.
LEMMA PeerGoneInv ==
  ASSUME Inv, NEW c \in Client, NEW p \in Peer, PeerGone(c, p)
  PROVE  Inv'
<1> DEFINE u == ClosePeer(peer[p])
<1>1. peer[p].mapped /\ peer' = [peer EXCEPT ![p] = u]
  BY DEF PeerGone, Mapped
<1>2. UNCHANGED <<conn, online, closed, wire>> /\ disturbed' \in BOOLEAN
  BY DEF PeerGone
<1>3. Sound(u) /\ ~u.mapped
  BY <1>1, ClosePeerSound DEF Inv, PeersOK
<1> HIDE DEF u
<1> QED BY <1>1, <1>2, <1>3, PeerInv DEF Inv

\* close() ends all peers.
LEMMA CloseAllInv ==
  ASSUME Inv, NEW c \in Client, CloseAll(c)
  PROVE  Inv'
<1>1. /\ peer' = [p \in Peer |-> IF p \in Mapped(c) THEN ClosePeer(peer[p]) ELSE peer[p]]
      /\ closed' = [closed EXCEPT ![c] = TRUE] /\ online' = [online EXCEPT ![c] = FALSE]
      /\ disturbed' = TRUE /\ UNCHANGED <<conn, wire>>
  BY DEF CloseAll
<1>2. closed' \in [Client -> BOOLEAN] /\ online' \in [Client -> BOOLEAN]
  BY <1>1 DEF Inv
<1>3. \A p \in Peer : p[1] \in Client
  BY DEF Peer
<1>4. \A p \in Peer : Sound(peer'[p]) /\ (peer'[p].mapped => p[1] # c /\ peer'[p] = peer[p])
  <2> SUFFICES ASSUME NEW p \in Peer
               PROVE  Sound(peer'[p]) /\ (peer'[p].mapped => p[1] # c /\ peer'[p] = peer[p])
    OBVIOUS
  <2>1. Sound(peer[p])
    BY DEF Inv, PeersOK
  <2>2. CASE p \in Mapped(c)
    <3>1. peer'[p] = ClosePeer(peer[p]) /\ peer[p].mapped
      BY <1>1, <2>2 DEF Mapped
    <3> QED BY <2>1, <3>1, ClosePeerSound
  <2>3. CASE p \notin Mapped(c)
    BY <1>1, <2>1, <2>3 DEF Mapped
  <2> QED BY <2>2, <2>3
<1>5. \A p \in Peer : p[1] # c => closed'[p[1]] = closed[p[1]]
  BY <1>1, <1>3 DEF Inv
<1>6. MapOK'
  BY <1>4, <1>5 DEF Inv, PeersOK, MapOK
<1>7. peer' = [p \in Peer |-> peer'[p]]
  BY <1>1
<1>8. PeersOK'
  BY <1>4, <1>6, <1>7 DEF PeersOK
<1> QED BY <1>1, <1>2, <1>8 DEF Inv

\* connect() lets peers be made again.
LEMMA ReopenInv ==
  ASSUME Inv, NEW c \in Client, Reopen(c)
  PROVE  Inv'
<1>1. /\ closed' = [closed EXCEPT ![c] = FALSE] /\ wire' = [wire EXCEPT ![c] = <<>>]
      /\ UNCHANGED <<conn, online, peer, disturbed>>
  BY DEF Reopen
<1>2. closed' \in [Client -> BOOLEAN] /\ wire' \in [Client -> Seq(Frame)]
  BY <1>1 DEF Inv
<1>3. \A p \in Peer : p[1] \in Client /\ (closed'[p[1]] => closed[p[1]])
  BY <1>1 DEF Inv, Peer
<1>4. PeersOK'
  BY <1>1, <1>3 DEF Inv, PeersOK, MapOK
<1> QED BY <1>1, <1>2, <1>4 DEF Inv

\* The proxy gives another token.
LEMMA NewTokenInv ==
  ASSUME Inv, NEW c \in Client, NewToken(c)
  PROVE  Inv'
<1>1. /\ conn[c] < MaxConns[c] /\ conn' = [conn EXCEPT ![c] = @ + 1]
      /\ online' = [online EXCEPT ![c] = TRUE] /\ UNCHANGED <<closed, peer, wire, disturbed>>
  BY DEF NewToken
<1>2. conn' \in [Client -> Nat \ {0}] /\ \A d \in Client : conn'[d] <= MaxConns[d]
  <2>1. conn[c] \in Nat \ {0} /\ MaxConns[c] \in Nat
    BY Assumptions DEF Inv
  <2>2. conn[c] + 1 \in Nat \ {0} /\ conn[c] + 1 <= MaxConns[c]
    BY <1>1, <2>1
  <2>3. \A d \in Client : conn'[d] = IF d = c THEN conn[c] + 1 ELSE conn[d]
    BY <1>1 DEF Inv
  <2>4. conn' = [d \in Client |-> IF d = c THEN conn[c] + 1 ELSE conn[d]]
    BY <1>1 DEF Inv
  <2> QED BY <2>2, <2>3, <2>4 DEF Inv
<1>3. online' \in [Client -> BOOLEAN]
  BY <1>1 DEF Inv
<1>4. PeersOK'
  BY <1>1 DEF Inv, PeersOK, MapOK
<1> QED BY <1>1, <1>2, <1>3, <1>4 DEF Inv

\* The connection to the proxy is lost.
LEMMA LoseInv ==
  ASSUME Inv, NEW c \in Client, Lose(c)
  PROVE  Inv'
<1>1. /\ online' = [online EXCEPT ![c] = FALSE] /\ wire' = [wire EXCEPT ![c] = <<>>]
      /\ disturbed' = TRUE /\ UNCHANGED <<conn, closed, peer>>
  BY DEF Lose
<1>2. online' \in [Client -> BOOLEAN] /\ wire' \in [Client -> Seq(Frame)]
  BY <1>1 DEF Inv
<1>3. PeersOK'
  BY <1>1 DEF Inv, PeersOK, MapOK
<1> QED BY <1>1, <1>2, <1>3 DEF Inv

\* Every step keeps the invariant, action by action as above.
LEMMA NextInv == Inv /\ [Next]_vars => Inv'
<1> SUFFICES ASSUME Inv, [Next]_vars PROVE Inv'
  OBVIOUS
<1>1. ASSUME NEW c \in Client, NEW t \in Token, TrySend(c, t) \/ Connect(c, t) PROVE Inv'
  BY <1>1, TrySendInv, ConnectInv
<1>2. ASSUME NEW c \in Client, NEW p \in Peer, PeerGone(c, p) PROVE Inv'
  BY <1>2, PeerGoneInv
<1>3. ASSUME NEW c \in Client,
             Receive(c) \/ CloseAll(c) \/ Reopen(c) \/ NewToken(c) \/ Lose(c)
      PROVE  Inv'
  BY <1>3, ReceiveInv, CloseAllInv, ReopenInv, NewTokenInv, LoseInv
<1>4. ASSUME NEW p \in Peer, Platform(p) PROVE Inv'
  <2>1. CASE IceGivesUp(p)
    BY <2>1, FailedInv DEF IceGivesUp, Inv
  <2>2. CASE NegotiationNeeded(p) \/ DescriptionSet(p) \/ Accept(p) \/ Flush(p) \/ Announce(p)
    BY <2>2, NegotiationNeededInv, DescriptionSetInv, AcceptInv, FlushInv, AnnounceInv
  <2>3. CASE IceConnects(p) \/ ChannelArrives(p) \/ ChannelOpens(p) \/ ChannelCloses(p)
    BY <2>3, IceConnectsInv, ChannelArrivesInv, ChannelOpensInv, ChannelClosesInv
  <2> QED BY <1>4, <2>1, <2>2, <2>3 DEF Platform
<1>5. ASSUME NEW p \in Peer, IceDisconnects(p) \/ IceFails(p) \/ ClosedEvent(p) PROVE Inv'
  <2>1. CASE IceFails(p)
    BY <2>1, FailedInv DEF IceFails
  <2> QED BY <1>5, <2>1, IceDisconnectsInv, ClosedEventInv
<1>6. CASE UNCHANGED vars
  BY <1>6 DEF vars, Inv, PeersOK, MapOK
<1> QED BY <1>1, <1>2, <1>3, <1>4, <1>5, <1>6 DEF Next

\* So it always holds.
LEMMA InvAlways == Spec => []Inv
BY InitInv, NextInv, PTL DEF Spec

-----------------------------------------------------------------------------
(* Candidates that wait.                                                   *)

HasFlush(q) == \E i \in 1 .. Len(q) : q[i].op = "flush"

\* Whatever waits for a description that is there is about to be added.
Kept(r) == r.pending # {} /\ r.description # NoPeer /\ ~r.closing => HasFlush(r.jobs)

AllKept == \A p \in Peer : Kept(peer[p])

\* What a chain of operations has to flush is still there when one is added,
\* and when the one that ends is another.
LEMMA AppendFlush ==
  ASSUME NEW q \in Seq(Job), NEW j \in Job
  PROVE  HasFlush(q) \/ j.op = "flush" => HasFlush(Append(q, j))
<1>1. HasFlush(q) => HasFlush(Append(q, j))
  BY DEF HasFlush
<1>2. j.op = "flush" => HasFlush(Append(q, j))
  BY DEF HasFlush
<1> QED BY <1>1, <1>2

\* Candidates that are to be added still are, when another job is done.
LEMMA TailFlush ==
  ASSUME NEW q \in Seq(Job), q # <<>>, Head(q).op # "flush", HasFlush(q)
  PROVE  HasFlush(Tail(q))
<1>1. PICK i \in 1 .. Len(q) : q[i].op = "flush"
  BY DEF HasFlush
<1>2. i # 1
  BY <1>1
<1>3. i - 1 \in 1 .. Len(Tail(q)) /\ Tail(q)[i - 1] = q[i]
  BY <1>1, <1>2
<1> QED BY <1>1, <1>3 DEF HasFlush

\* A change that leaves alone what Kept looks at, or only lengthens the chain.
LEMMA SameKept ==
  ASSUME NEW r, NEW u, Kept(r), u.pending = r.pending, u.description = r.description,
         r.closing => u.closing, HasFlush(r.jobs) => HasFlush(u.jobs)
  PROVE  Kept(u)
BY DEF Kept

\* A peer just made keeps no candidates.
LEMMA EnsuredKept ==
  ASSUME Inv, AllKept, NEW p \in Peer, NEW t \in Token
  PROVE  Kept(Ensured(p, t))
<1>1. Fresh.pending = {} /\ Fresh \in PeerState
  BY FreshSound DEF Fresh, Sound, Almost
<1>2. CASE ~peer[p].mapped
  <2> DEFINE u == [Fresh EXCEPT !.remote = t, !.mapped = TRUE, !.born = conn[p[1]]]
  <2>1. u.pending = {}
    BY <1>1 DEF PeerState
  <2> QED BY <1>2, <2>1 DEF Ensured, Kept
<1>3. CASE peer[p].mapped
  BY <1>3 DEF Ensured, AllKept
<1> QED BY <1>2, <1>3

\* A connection made has nothing to do with candidates.
LEMMA CreatePCKept ==
  ASSUME NEW c \in Client, NEW r \in PeerState, Kept(r)
  PROVE  Kept(CreatePC(c, r))
<1> DEFINE u == [r EXCEPT !.pc = "new", !.polite = IsPolite(c, r.remote)]
<1>1. /\ u.pending = r.pending /\ u.description = r.description
      /\ u.closing = r.closing /\ u.jobs = r.jobs
  BY DEF PeerState
<1>2. CreatePC(c, r) \in {r, u}
  BY DEF CreatePC
<1> HIDE DEF u
<1> QED BY <1>1, <1>2, SameKept

\* Nor has a negotiation begun.
LEMMA StartKept ==
  ASSUME NEW c \in Client, NEW r, Sound(r), r.mapped, Kept(r)
  PROVE  Kept(StartNegotiation(c, r))
<1> DEFINE s == CreatePC(c, r)
           first == Creates(c, r.remote) /\ r.dc = "none"
           u == [s EXCEPT !.negotiating = TRUE,
                          !.dc = IF first THEN "connecting" ELSE @,
                          !.needed = @ \/ first]
<1>1. Sound(s) /\ Kept(s)
  BY CreatePCSound, CreatePCKept DEF Sound, Almost
<1>2. StartNegotiation(c, r) \in {r, u}
  BY DEF StartNegotiation
<1> HIDE DEF s, first
<1>3. /\ u.pending = s.pending /\ u.description = s.description
      /\ u.closing = s.closing /\ u.jobs = s.jobs
  BY <1>1 DEF Sound, Almost, PeerState
<1> HIDE DEF u
<1> QED BY <1>1, <1>2, <1>3, SameKept

\* A description of one's own strands none.
LEMMA DescribeKept ==
  ASSUME NEW r \in PeerState, Kept(r), NEW op \in {"offer", "answer"}
  PROVE  Kept(Describe(r, op))
<1> DEFINE job == [op |-> op, kind |-> "none", by |-> NoPeer]
           u == [r EXCEPT !.jobs = Append(@, job)]
<1>1. job \in Job
  BY DEF Job
<1>2. Describe(r, op) \in {r, u}
  BY DEF Describe
<1> HIDE DEF job
<1>3. /\ u.pending = r.pending /\ u.description = r.description
      /\ u.closing = r.closing /\ u.jobs = Append(r.jobs, job)
  BY DEF PeerState
<1>4. r.jobs \in Seq(Job)
  BY DEF PeerState
<1> HIDE DEF u
<1> QED BY <1>1, <1>2, <1>3, <1>4, AppendFlush, SameKept

\* Nor does an answer.
LEMMA AnsweredKept ==
  ASSUME NEW r \in PeerState, Kept(r), NEW kind
  PROVE  Kept(Answered(r, kind))
BY DescribeKept DEF Answered

\* Nor does closing when it was to be closed,
LEMMA CloseIfDoneKept ==
  ASSUME NEW r \in PeerState, Kept(r)
  PROVE  Kept(CloseIfDone(r))
<1>1. CASE r.closing /\ ~Busy(r) /\ r.pc \notin {"none", "closed"}
  <2> DEFINE dc == IF r.dc = "none" THEN "none" ELSE "closed"
             u == [Fresh EXCEPT !.remote = r.remote, !.pc = "closed", !.jobs = r.jobs,
                                !.dc = dc, !.closing = r.closing, !.waiting = r.waiting]
  <2>1. CloseIfDone(r) = u
    BY <1>1 DEF CloseIfDone, ClosePC
  <2>2. Fresh \in PeerState /\ Fresh.pending = {}
    BY FreshSound DEF Fresh, Sound, Almost
  <2> HIDE DEF dc
  <2>3. u.pending = {}
    BY <2>2 DEF PeerState
  <2> QED BY <2>1, <2>3 DEF Kept
<1>2. CASE ~(r.closing /\ ~Busy(r) /\ r.pc \notin {"none", "closed"})
  BY <1>2 DEF CloseIfDone, ClosePC
<1> QED BY <1>1, <1>2

\* nor beginning to close.
LEMMA ClosePeerKept ==
  ASSUME NEW r, Sound(r), r.mapped
  PROVE  Kept(ClosePeer(r))
<1> DEFINE s == Removed(r)
           u == CloseDC(s)
<1>1. s \in PeerState
  BY DEF Sound, Almost, PeerState, Removed
<1>2. s.closing = TRUE /\ s.jobs = r.jobs
  BY DEF Sound, Almost, PeerState, Removed
<1>3. u \in PeerState /\ u.closing = TRUE /\ u.jobs = r.jobs
  BY <1>1, <1>2, CloseDCKeeps
<1>4. ClosePeer(r) = CloseIfDone(u)
  BY <1>3 DEF ClosePeer, CloseIfDone, ClosesAtOnce, Busy
<1> QED BY <1>3, <1>4, CloseIfDoneKept DEF Kept

\* A candidate that cannot be added waits only while a description is to come,
\* or its adding is.
LEMMA AfterSignalKept ==
  ASSUME NEW c \in Client, NEW f \in Frame, NEW r, Sound(r), r.mapped, Kept(r)
  PROVE  Kept(AfterSignal(c, f, r))
<1> DEFINE u == AfterSignal(c, f, r)
<1>0. r \in PeerState /\ r.jobs \in Seq(Job) /\ f.by \in Peer
  BY DEF Sound, Almost, PeerState, Frame
<1>1. CASE f.kind = "start"
  <2> DEFINE s == [r EXCEPT !.negotiating = FALSE]
  <2>1. s \in PeerState
    BY <1>0 DEF PeerState
  <2>2. /\ s.mapped = r.mapped /\ s.closing = r.closing /\ s.remote = r.remote
        /\ s.jobs = r.jobs /\ s.sockets = r.sockets /\ s.pc = r.pc /\ s.needed = r.needed
        /\ s.pending = r.pending /\ s.description = r.description
    BY <1>0 DEF PeerState
  <2>3. u \in {r, StartNegotiation(c, s)}
    BY <1>1 DEF AfterSignal
  <2> HIDE DEF s, u
  <2>4. r.pc = "none" => ~r.needed
    BY DEF Sound, Almost
  <2>5. Sound(s) /\ Kept(s)
    BY <2>1, <2>2, <2>4, SameSound, SameKept
  <2>6. Kept(u)
    BY <2>2, <2>3, <2>5, StartKept
  <2> QED BY <2>6 DEF u
<1>2. CASE f.kind \in {"offer", "answer"}
  <2> DEFINE job == [op |-> "accept", kind |-> f.kind, by |-> f.by]
             s == [r EXCEPT !.jobs = Append(@, job)]
  <2>1. job \in Job
    BY <1>0, <1>2 DEF Job
  <2>2. u \in {r, s}
    BY <1>2 DEF AfterSignal
  <2> HIDE DEF job, u
  <2>3. /\ s.pending = r.pending /\ s.description = r.description
        /\ s.closing = r.closing /\ s.jobs = Append(r.jobs, job)
    BY <1>0 DEF PeerState
  <2> HIDE DEF s
  <2>4. Kept(s)
    BY <1>0, <2>1, <2>3, AppendFlush, SameKept
  <2> QED BY <2>2, <2>4 DEF u
<1>3. CASE f.kind = "ice"
  <2> DEFINE s == [r EXCEPT !.candidates = @ \cup {f.by}]
             v == [r EXCEPT !.pending = @ \cup {f.by}]
  <2>1. u \in {r, s} \/ (r.description = NoPeer /\ u = v)
    BY <1>3 DEF AfterSignal, KeepsCandidate
  <2>2. /\ s.pending = r.pending /\ s.description = r.description
        /\ s.closing = r.closing /\ s.jobs = r.jobs
        /\ v.description = r.description
    BY <1>0 DEF PeerState
  <2> HIDE DEF u, s, v
  <2>3. Kept(s)
    BY <2>2, SameKept
  <2>4. r.description = NoPeer => Kept(v)
    BY <2>2 DEF Kept
  <2> QED BY <2>1, <2>3, <2>4 DEF u
<1> QED BY <1>1, <1>2, <1>3 DEF Frame

\* One peer changes, and what waits at it is seen to.
LEMMA OneKept ==
  ASSUME Inv, AllKept, NEW p \in Peer, NEW u, Kept(u), peer' = [peer EXCEPT ![p] = u]
  PROVE  AllKept'
<1>1. peer' = [q \in Peer |-> IF q = p THEN u ELSE peer[q]]
  BY DEF Inv, PeersOK
<1>2. \A q \in Peer : peer'[q] = IF q = p THEN u ELSE peer[q]
  BY <1>1
<1> QED BY <1>2 DEF AllKept

\* The application sends, or asks for a channel.
LEMMA TrySendKept ==
  ASSUME Inv, AllKept, NEW c \in Client, NEW t \in Token, TrySend(c, t) \/ Connect(c, t)
  PROVE  AllKept'
<1>1. \E p \in EnsurePeer(c, t) : LET r == Ensured(p, t) IN
        peer' = [peer EXCEPT ![p] = r]
        \/ peer' = [peer EXCEPT ![p] = StartNegotiation(c, r)]
        \/ peer' = [peer EXCEPT ![p] = [StartNegotiation(c, r) EXCEPT !.waiting = TRUE]]
  BY DEF TrySend, Connect, Becomes
<1>2. PICK p \in EnsurePeer(c, t), r \in {Ensured(q, t) : q \in EnsurePeer(c, t)} :
        /\ r = Ensured(p, t)
        /\ \/ peer' = [peer EXCEPT ![p] = r]
           \/ peer' = [peer EXCEPT ![p] = StartNegotiation(c, r)]
           \/ peer' = [peer EXCEPT ![p] = [StartNegotiation(c, r) EXCEPT !.waiting = TRUE]]
  BY <1>1
<1>3. p \in Peer /\ Sound(r) /\ r.mapped /\ Kept(r)
  BY <1>2, EnsureStep, EnsuredKept
<1> DEFINE s == StartNegotiation(c, r)
           w == [s EXCEPT !.waiting = TRUE]
<1>4. Sound(s) /\ Kept(s)
  BY <1>3, StartSound, StartKept
<1>5. peer' = [peer EXCEPT ![p] = r] \/ peer' = [peer EXCEPT ![p] = s]
      \/ peer' = [peer EXCEPT ![p] = w]
  BY <1>2
<1> HIDE DEF s
<1>6. /\ w.pending = s.pending /\ w.description = s.description
      /\ w.closing = s.closing /\ w.jobs = s.jobs
  BY <1>4 DEF Sound, Almost, PeerState
<1> HIDE DEF w
<1>7. Kept(w)
  BY <1>4, <1>6, SameKept
<1> QED BY <1>3, <1>4, <1>5, <1>7, OneKept

\* A signal arrives.
LEMMA ReceiveKept ==
  ASSUME Inv, AllKept, NEW c \in Client, Receive(c)
  PROVE  AllKept'
<1> DEFINE f == Head(wire[c])
<1>1. f \in Frame
  BY DEF Receive, Inv
<1>2. CASE peer' = peer
  BY <1>2 DEF AllKept
<1>3. CASE peer' # peer
  <2>1. \E p \in EnsurePeer(c, f.from) :
          peer' = [peer EXCEPT ![p] = AfterSignal(c, f, CreatePC(c, Ensured(p, f.from)))]
    BY <1>3 DEF Receive
  <2> HIDE DEF f
  <2>2. PICK p \in EnsurePeer(c, f.from), r \in {Ensured(q, f.from) : q \in EnsurePeer(c, f.from)} :
          /\ r = Ensured(p, f.from)
          /\ peer' = [peer EXCEPT ![p] = AfterSignal(c, f, CreatePC(c, r))]
    BY <2>1
  <2>3. f.from \in Token
    BY <1>1 DEF Frame
  <2>4. p \in Peer /\ Sound(r) /\ r.mapped /\ Kept(r) /\ r \in PeerState
    BY <2>2, <2>3, EnsureStep, EnsuredKept
  <2> DEFINE s == CreatePC(c, r)
  <2>5. Sound(s) /\ s.mapped /\ Kept(s)
    BY <2>4, CreatePCSound, CreatePCKept
  <2>6. peer' = [peer EXCEPT ![p] = AfterSignal(c, f, s)]
    BY <2>2
  <2> HIDE DEF s
  <2> QED BY <1>1, <2>4, <2>5, <2>6, AfterSignalKept, OneKept
<1> QED BY <1>2, <1>3

\* The platform asks for an offer.
LEMMA NegotiationNeededKept ==
  ASSUME Inv, AllKept, NEW p \in Peer, NegotiationNeeded(p)
  PROVE  AllKept'
<1> DEFINE r == peer[p]
           s == [r EXCEPT !.needed = FALSE, !.makingOffer = TRUE]
<1>1. peer' = [peer EXCEPT ![p] = Describe(s, "offer")] /\ r \in PeerState /\ Kept(r)
  BY DEF NegotiationNeeded, Inv, PeersOK, Sound, Almost, AllKept
<1> HIDE DEF r
<1>2. s \in PeerState
  BY <1>1 DEF PeerState
<1>3. /\ s.pending = r.pending /\ s.description = r.description
      /\ s.closing = r.closing /\ s.jobs = r.jobs
  BY <1>1 DEF PeerState
<1> HIDE DEF s
<1>4. Kept(Describe(s, "offer"))
  BY <1>1, <1>2, <1>3, SameKept, DescribeKept
<1> QED BY <1>1, <1>4, OneKept

\* A description of one's own is set.
LEMMA DescriptionSetKept ==
  ASSUME Inv, AllKept, NEW p \in Peer, DescriptionSet(p)
  PROVE  AllKept'
<1> DEFINE r == peer[p]
           signaling == IF LocalKind(r) = "answer" THEN "stable" ELSE "have-local-offer"
           making == IF Head(r.jobs).op = "offer" THEN FALSE ELSE r.makingOffer
           set == [r EXCEPT !.signaling = signaling]
           ended == [set EXCEPT !.jobs = Tail(@), !.sockets = TRUE, !.makingOffer = making]
<1>1. r.jobs # <<>> /\ Head(r.jobs).op \in {"offer", "answer"}
  BY DEF DescriptionSet
<1>2. Sound(r) /\ Kept(r)
  BY DEF Inv, PeersOK, AllKept
<1>3. r \in PeerState /\ r.pc # "closed" /\ r.jobs \in Seq(Job)
  BY <1>1, <1>2, InFlight DEF PeerState
<1>4. peer' = [peer EXCEPT ![p] = CloseIfDone(ended)]
  BY <1>3 DEF DescriptionSet, Becomes
<1>5. signaling \in {"stable", "have-local-offer", "have-remote-offer"} /\ making \in BOOLEAN
  BY <1>3 DEF PeerState
<1>6. HasFlush(r.jobs) => HasFlush(Tail(r.jobs))
  BY <1>1, <1>3, TailFlush
<1>7. Tail(r.jobs) \in Seq(Job)
  BY <1>1, <1>3
<1> HIDE DEF signaling, making, r
<1>8. set \in PeerState /\ set.jobs = r.jobs /\ set.pending = r.pending
      /\ set.description = r.description /\ set.closing = r.closing
  BY <1>3, <1>5 DEF PeerState
<1> HIDE DEF set
<1>9. ended \in PeerState
  BY <1>5, <1>7, <1>8 DEF PeerState
<1>10. /\ ended.pending = r.pending /\ ended.description = r.description
       /\ ended.closing = r.closing /\ ended.jobs = Tail(r.jobs)
  BY <1>8 DEF PeerState
<1> HIDE DEF ended
<1>11. Kept(CloseIfDone(ended))
  BY <1>2, <1>6, <1>9, <1>10, SameKept, CloseIfDoneKept
<1> QED BY <1>4, <1>11, OneKept

\* A remote description is set: with it begins the adding of what waited.
LEMMA AcceptKept ==
  ASSUME Inv, AllKept, NEW p \in Peer, Accept(p)
  PROVE  AllKept'
<1> DEFINE r == peer[p]
           job == Head(r.jobs)
           signaling == IF job.kind = "offer" THEN "have-remote-offer" ELSE "stable"
           rest == [r EXCEPT !.jobs = Tail(@)]
           set == [rest EXCEPT !.description = job.by, !.signaling = signaling]
           after == [job EXCEPT !.op = "flush"]
           flush == [set EXCEPT !.jobs = Append(@, after)]
           next == IF r.closing THEN set
                   ELSE IF r.pending = {} THEN Answered(set, job.kind) ELSE flush
           valid == r.pc # "closed" /\ (job.kind = "answer" => r.signaling = "have-local-offer")
           v == IF valid THEN next ELSE rest
<1>1. r.jobs # <<>> /\ job.op = "accept" /\ peer' = [peer EXCEPT ![p] = CloseIfDone(v)]
  BY DEF Accept
<1>2. Sound(r) /\ r \in PeerState /\ Kept(r)
  BY DEF Inv, PeersOK, Sound, Almost, AllKept
<1>3. r.jobs \in Seq(Job) /\ job \in Job /\ Tail(r.jobs) \in Seq(Job)
  BY <1>1, <1>2 DEF PeerState
<1>4. HasFlush(r.jobs) => HasFlush(Tail(r.jobs))
  BY <1>1, <1>3, TailFlush
<1>5. /\ signaling \in {"stable", "have-local-offer", "have-remote-offer"}
      /\ job.by \in Peer \cup {NoPeer}
      /\ after \in Job /\ after.op = "flush"
  BY <1>3 DEF Job
<1> HIDE DEF r, job, signaling, after, valid
<1>6. /\ rest \in PeerState /\ rest.jobs = Tail(r.jobs) /\ rest.pending = r.pending
      /\ rest.description = r.description /\ rest.closing = r.closing
  BY <1>2, <1>3 DEF PeerState
<1>7. Kept(rest)
  BY <1>2, <1>4, <1>6, SameKept
<1> HIDE DEF rest
<1>8. /\ set \in PeerState /\ set.jobs = Tail(r.jobs) /\ set.pending = r.pending
      /\ set.closing = r.closing
  BY <1>5, <1>6 DEF PeerState
<1>9. r.closing \/ r.pending = {} => Kept(set)
  BY <1>8 DEF Kept
<1> HIDE DEF set
<1>10. Append(set.jobs, after) \in Seq(Job) /\ HasFlush(Append(set.jobs, after))
  BY <1>3, <1>5, <1>8, AppendBusy, AppendFlush
<1>11. flush \in PeerState /\ flush.jobs = Append(set.jobs, after)
  BY <1>8, <1>10 DEF PeerState
<1>12. Kept(flush)
  BY <1>10, <1>11 DEF Kept
<1> HIDE DEF flush
<1>13. ~r.closing /\ r.pending = {} =>
         Kept(Answered(set, job.kind)) /\ Answered(set, job.kind) \in PeerState
  <2> SUFFICES ASSUME ~r.closing, r.pending = {}
               PROVE  Kept(Answered(set, job.kind)) /\ Answered(set, job.kind) \in PeerState
    OBVIOUS
  <2>1. Kept(Answered(set, job.kind))
    BY <1>8, <1>9, AnsweredKept
  <2> DEFINE begun == [op |-> "answer", kind |-> "none", by |-> NoPeer]
  <2>2. begun \in Job
    BY DEF Job
  <2>3. Answered(set, job.kind) \in {set, [set EXCEPT !.jobs = Append(@, begun)]}
    BY DEF Answered, Describe
  <2> HIDE DEF begun
  <2>4. Append(set.jobs, begun) \in Seq(Job)
    BY <1>3, <1>8, <2>2, AppendBusy
  <2>5. [set EXCEPT !.jobs = Append(@, begun)] \in PeerState
    BY <1>8, <2>4 DEF PeerState
  <2> QED BY <1>8, <2>1, <2>3, <2>5
<1>14. Kept(v) /\ v \in PeerState
  BY <1>6, <1>7, <1>8, <1>9, <1>11, <1>12, <1>13
<1> HIDE DEF v
<1> QED BY <1>1, <1>14, CloseIfDoneKept, OneKept

\* Candidates are added.
LEMMA FlushKept ==
  ASSUME Inv, AllKept, NEW p \in Peer, Flush(p)
  PROVE  AllKept'
<1> DEFINE r == peer[p]
           job == Head(r.jobs)
           added == r.candidates \cup (r.pending \cap {r.description})
           rest == [r EXCEPT !.jobs = Tail(@), !.pending = {}, !.candidates = added]
<1>1. r.jobs # <<>> /\ peer' = [peer EXCEPT ![p] = Answered(rest, job.kind)]
  BY DEF Flush
<1>2. r \in PeerState
  BY DEF Inv, PeersOK, Sound, Almost
<1>3. Tail(r.jobs) \in Seq(Job) /\ added \in SUBSET Peer
  BY <1>1, <1>2 DEF PeerState
<1> HIDE DEF r, job, added
<1>4. rest \in PeerState /\ rest.pending = {}
  BY <1>2, <1>3 DEF PeerState
<1> HIDE DEF rest
<1>5. Kept(Answered(rest, job.kind))
  BY <1>4, AnsweredKept DEF Kept
<1> QED BY <1>1, <1>5, OneKept

\* The platform's and the channel's own steps, which leave it all alone.
LEMMA QuietKept ==
  ASSUME Inv, AllKept, NEW p \in Peer,
         \/ Announce(p) \/ IceConnects(p) \/ IceDisconnects(p) \/ ClosedEvent(p)
         \/ ChannelArrives(p) \/ ChannelOpens(p) \/ ChannelCloses(p)
  PROVE  AllKept'
<1>0. peer[p] \in PeerState /\ Kept(peer[p])
  BY DEF Inv, PeersOK, Sound, Almost, AllKept
<1>1. \E u : /\ peer' = [peer EXCEPT ![p] = u]
             /\ u.pending = peer[p].pending /\ u.description = peer[p].description
             /\ u.closing = peer[p].closing /\ u.jobs = peer[p].jobs
  <2>1. CASE Announce(p)
    <3> DEFINE u == [peer[p] EXCEPT !.gathered = TRUE]
    <3>1. peer' = [peer EXCEPT ![p] = u]
      BY <2>1 DEF Announce, Becomes
    <3>2. /\ u.pending = peer[p].pending /\ u.description = peer[p].description
          /\ u.closing = peer[p].closing /\ u.jobs = peer[p].jobs
      BY <1>0 DEF PeerState
    <3> QED BY <3>1, <3>2
  <2>2. CASE IceConnects(p)
    <3> DEFINE u == [peer[p] EXCEPT !.pc = "connected"]
    <3>1. peer' = [peer EXCEPT ![p] = u]
      BY <2>2 DEF IceConnects
    <3>2. /\ u.pending = peer[p].pending /\ u.description = peer[p].description
          /\ u.closing = peer[p].closing /\ u.jobs = peer[p].jobs
      BY <1>0 DEF PeerState
    <3> QED BY <3>1, <3>2
  <2>3. CASE IceDisconnects(p)
    <3> DEFINE u == [peer[p] EXCEPT !.pc = "disconnected"]
    <3>1. peer' = [peer EXCEPT ![p] = u]
      BY <2>3 DEF IceDisconnects
    <3>2. /\ u.pending = peer[p].pending /\ u.description = peer[p].description
          /\ u.closing = peer[p].closing /\ u.jobs = peer[p].jobs
      BY <1>0 DEF PeerState
    <3> QED BY <3>1, <3>2
  <2>4. CASE ClosedEvent(p)
    <3> DEFINE u == [peer[p] EXCEPT !.waiting = FALSE]
    <3>1. peer' = [peer EXCEPT ![p] = u]
      BY <2>4 DEF ClosedEvent
    <3>2. /\ u.pending = peer[p].pending /\ u.description = peer[p].description
          /\ u.closing = peer[p].closing /\ u.jobs = peer[p].jobs
      BY <1>0 DEF PeerState
    <3> QED BY <3>1, <3>2
  <2>5. CASE ChannelArrives(p)
    <3> DEFINE u == [peer[p] EXCEPT !.dc = "connecting"]
    <3>1. peer' = [peer EXCEPT ![p] = u]
      BY <2>5 DEF ChannelArrives
    <3>2. /\ u.pending = peer[p].pending /\ u.description = peer[p].description
          /\ u.closing = peer[p].closing /\ u.jobs = peer[p].jobs
      BY <1>0 DEF PeerState
    <3> QED BY <3>1, <3>2
  <2>6. CASE ChannelOpens(p)
    <3> DEFINE u == [peer[p] EXCEPT !.dc = "open", !.waiting = FALSE]
    <3>1. peer' = [peer EXCEPT ![p] = u]
      BY <2>6 DEF ChannelOpens
    <3>2. /\ u.pending = peer[p].pending /\ u.description = peer[p].description
          /\ u.closing = peer[p].closing /\ u.jobs = peer[p].jobs
      BY <1>0 DEF PeerState
    <3> QED BY <3>1, <3>2
  <2>7. CASE ChannelCloses(p)
    <3> DEFINE u == [peer[p] EXCEPT !.dc = "closed"]
    <3>1. peer' = [peer EXCEPT ![p] = u]
      BY <2>7 DEF ChannelCloses
    <3>2. /\ u.pending = peer[p].pending /\ u.description = peer[p].description
          /\ u.closing = peer[p].closing /\ u.jobs = peer[p].jobs
      BY <1>0 DEF PeerState
    <3> QED BY <3>1, <3>2
  <2> QED BY <2>1, <2>2, <2>3, <2>4, <2>5, <2>6, <2>7
<1> QED BY <1>0, <1>1, SameKept, OneKept

\* A connection fails.
LEMMA FailedKept ==
  ASSUME Inv, AllKept, NEW p \in Peer, Failed(p)
  PROVE  AllKept'
<1> DEFINE r == peer[p]
           dc == IF r.dc \in {"connecting", "open"} THEN "closing" ELSE r.dc
           s == [r EXCEPT !.pc = "failed", !.failed = TRUE, !.negotiating = FALSE,
                          !.waiting = FALSE]
           u == [s EXCEPT !.dc = dc]
<1>1. r \in PeerState /\ Kept(r)
  BY DEF Inv, PeersOK, Sound, Almost, AllKept
<1>2. peer' = [peer EXCEPT ![p] = CloseDC(FailPeer([r EXCEPT !.pc = "failed"]))]
  BY DEF Failed
<1> HIDE DEF r
<1>3. FailPeer([r EXCEPT !.pc = "failed"]) = s
  BY <1>1 DEF FailPeer, PeerState
<1>4. CloseDC(s) = u
  BY <1>1 DEF CloseDC, PeerState
<1> HIDE DEF dc
<1>5. /\ u.pending = r.pending /\ u.description = r.description
      /\ u.closing = r.closing /\ u.jobs = r.jobs
  BY <1>1 DEF PeerState
<1> HIDE DEF u, s
<1> QED BY <1>1, <1>2, <1>3, <1>4, <1>5, SameKept, OneKept

\* close() ends all peers.
LEMMA CloseAllKept ==
  ASSUME Inv, AllKept, NEW c \in Client, CloseAll(c)
  PROVE  AllKept'
<1> SUFFICES ASSUME NEW p \in Peer PROVE Kept(peer'[p])
  BY DEF AllKept
<1>1. peer'[p] = IF p \in Mapped(c) THEN ClosePeer(peer[p]) ELSE peer[p]
  BY DEF CloseAll
<1>2. Kept(peer[p]) /\ Sound(peer[p])
  BY DEF AllKept, Inv, PeersOK
<1> QED BY <1>1, <1>2, ClosePeerKept DEF Mapped

\* The other one's token is dead.
LEMMA PeerGoneKept ==
  ASSUME Inv, AllKept, NEW c \in Client, NEW p \in Peer, PeerGone(c, p)
  PROVE  AllKept'
<1>1. peer[p].mapped /\ peer' = [peer EXCEPT ![p] = ClosePeer(peer[p])]
  BY DEF PeerGone, Mapped
<1>2. Kept(ClosePeer(peer[p]))
  BY <1>1, ClosePeerKept DEF Inv, PeersOK
<1> QED BY <1>1, <1>2, OneKept

\* No step strands candidates.
LEMMA NextKept == Inv /\ AllKept /\ [Next]_vars => AllKept'
<1> SUFFICES ASSUME Inv, AllKept, [Next]_vars PROVE AllKept'
  OBVIOUS
<1>1. ASSUME NEW c \in Client, NEW t \in Token, TrySend(c, t) \/ Connect(c, t) PROVE AllKept'
  BY <1>1, TrySendKept
<1>2. ASSUME NEW c \in Client, NEW p \in Peer, PeerGone(c, p) PROVE AllKept'
  BY <1>2, PeerGoneKept
<1>3. ASSUME NEW c \in Client, Reopen(c) \/ NewToken(c) \/ Lose(c) PROVE AllKept'
  BY <1>3 DEF Reopen, NewToken, Lose, AllKept
<1>4. ASSUME NEW c \in Client, Receive(c) \/ CloseAll(c) PROVE AllKept'
  BY <1>4, ReceiveKept, CloseAllKept
<1>5. ASSUME NEW p \in Peer, Platform(p) PROVE AllKept'
  <2>1. CASE IceGivesUp(p)
    BY <2>1, FailedKept DEF IceGivesUp
  <2>2. CASE NegotiationNeeded(p) \/ DescriptionSet(p) \/ Accept(p) \/ Flush(p)
    BY <2>2, NegotiationNeededKept, DescriptionSetKept, AcceptKept, FlushKept
  <2> QED BY <1>5, <2>1, <2>2, QuietKept DEF Platform
<1>6. ASSUME NEW p \in Peer, IceDisconnects(p) \/ IceFails(p) \/ ClosedEvent(p) PROVE AllKept'
  BY <1>6, QuietKept, FailedKept DEF IceFails
<1>7. CASE UNCHANGED vars
  BY <1>7 DEF vars, AllKept
<1> QED BY <1>1, <1>2, <1>3, <1>4, <1>5, <1>6, <1>7 DEF Next

-----------------------------------------------------------------------------
(* Offers.  The end that creates the channel makes one offer and is made   *)
(* none, the other makes none and answers one: so of an offer that two     *)
(* clients with their tokens exchange there is one, which is to be made,   *)
(* or on its way, or being answered.                                       *)

\* None, or one at most, of a sequence is of a kind.
None(q, K) == \A i \in 1 .. Len(q) : q[i] \notin K
One(q, K) == \A i, j \in 1 .. Len(q) : q[i] \in K /\ q[j] \in K => i = j

\* What an element more makes of it,
LEMMA AppendNone ==
  ASSUME NEW S, NEW q \in Seq(S), NEW e \in S, NEW K
  PROVE  /\ None(Append(q, e), K) <=> None(q, K) /\ e \notin K
         /\ One(q, K) /\ e \notin K => One(Append(q, e), K)
         /\ None(q, K) => One(Append(q, e), K)
<1> DEFINE a == Append(q, e)
           n == Len(q)
<1>1. /\ n \in Nat /\ Len(a) = n + 1 /\ a[n + 1] = e
      /\ \A i \in 1 .. n : a[i] = q[i]
  OBVIOUS
<1> HIDE DEF a, n
<1>2. None(a, K) <=> (\A i \in 1 .. n : q[i] \notin K) /\ e \notin K
  BY <1>1 DEF None
<1>3. (\A i, j \in 1 .. n : q[i] \in K /\ q[j] \in K => i = j) /\ e \notin K => One(a, K)
  BY <1>1 DEF One
<1>4. (\A i \in 1 .. n : q[i] \notin K) => One(a, K)
  BY <1>1 DEF One
<1> QED BY <1>2, <1>3, <1>4 DEF None, One, a, n

\* and one less.
LEMMA TailNone ==
  ASSUME NEW S, NEW q \in Seq(S), q # <<>>, NEW K
  PROVE  /\ None(q, K) => None(Tail(q), K) /\ Head(q) \notin K
         /\ One(q, K) => One(Tail(q), K)
         /\ One(q, K) /\ Head(q) \in K => None(Tail(q), K)
<1> DEFINE a == Tail(q)
           n == Len(q)
<1>1. /\ n \in Nat /\ n > 0 /\ Len(a) = n - 1 /\ Head(q) = q[1]
      /\ \A i \in 1 .. n - 1 : a[i] = q[i + 1]
  OBVIOUS
<1> HIDE DEF a
<1>2. None(q, K) => None(a, K) /\ Head(q) \notin K
  BY <1>1 DEF None
<1>3. One(q, K) => One(a, K)
  BY <1>1 DEF One
<1>4. One(q, K) /\ Head(q) \in K => None(a, K)
  BY <1>1 DEF One, None
<1> QED BY <1>2, <1>3, <1>4 DEF a

\* None is one at most.
LEMMA NoneOne == ASSUME NEW q, NEW K, None(q, K) PROVE One(q, K)
BY DEF None, One

\* A part of a kind.
LEMMA NonePart == ASSUME NEW q, NEW K, NEW L, L \subseteq K, None(q, K) PROVE None(q, L)
BY DEF None

\* An offer begun, the answer owed to one, and an offer taken until the answer
\* to it is given.
Begun == {j \in Job : j.op = "offer"}
Owed == {j \in Job : j.op = "answer" \/ (j.op = "flush" /\ j.kind = "offer")}
Taken == Owed \cup {j \in Job : j.op = "accept" /\ j.kind = "offer"}

\* No description is of no kind.
Vain == {j \in Job : j.op = "accept" /\ j.kind = "none"}

\* A peer that may offer yet.
Ahead(r) == r.dc = "none" \/ r.needed \/ ~None(r.jobs, Begun)

\* The peer that creates the channel makes one offer, and is made none.
Creator(r) ==
  /\ r.dc = "none" => ~r.needed
  /\ r.dc = "none" \/ r.needed => None(r.jobs, Begun)
  /\ One(r.jobs, Begun)
  /\ None(r.jobs, Taken)

\* The other one makes none, and answers one.
Taker(r) ==
  /\ ~r.needed /\ ~r.makingOffer
  /\ r.signaling # "have-local-offer"
  /\ None(r.jobs, Begun)
  /\ One(r.jobs, Taken)
  /\ None(r.jobs, Vain)
  /\ None(r.jobs, Owed) \/ r.signaling = "have-remote-offer"

\* What a step makes of either.
CreatorMove(r, u, sent) ==
  Creator(r) => /\ Creator(u)
                /\ Ahead(u) => Ahead(r)
                /\ sent => Ahead(r) /\ ~Ahead(u)
TakerMove(r, u, sent) ==
  Taker(r) => /\ Taker(u)
              /\ None(r.jobs, Taken) => None(u.jobs, Taken)
              /\ ~sent
Moves(c, r, u, sent) ==
  IF Creates(c, r.remote) THEN CreatorMove(r, u, sent) ELSE TakerMove(r, u, sent)

\* To the offers a step is nothing.
Alike(r, u) ==
  /\ u.dc = "none" => r.dc = "none"
  /\ u.needed = r.needed /\ u.makingOffer = r.makingOffer
  /\ u.signaling = r.signaling /\ u.jobs = r.jobs

\* A change that is nothing to the offers is a move of either end,
LEMMA AlikeMoves ==
  ASSUME NEW c, NEW r, NEW u, Alike(r, u)
  PROVE  Moves(c, r, u, FALSE)
BY DEF Alike, Moves, CreatorMove, TakerMove, Creator, Taker, Ahead

\* and so it is after a move,
LEMMA MovesAlike ==
  ASSUME NEW c, NEW r, NEW s, NEW u, NEW sent, Moves(c, r, s, sent), Alike(s, u)
  PROVE  Moves(c, r, u, sent)
BY DEF Alike, Moves, CreatorMove, TakerMove, Creator, Taker, Ahead

\* or before one.
LEMMA AlikeThenMoves ==
  ASSUME NEW c, NEW r, NEW s, NEW u, NEW sent, Alike(r, s), s.remote = r.remote,
         Moves(c, s, u, sent)
  PROVE  Moves(c, r, u, sent)
BY DEF Alike, Moves, CreatorMove, TakerMove, Creator, Taker, Ahead

\* _createPC.
LEMMA CreatePCAlike ==
  ASSUME NEW c \in Client, NEW r \in PeerState
  PROVE  Alike(r, CreatePC(c, r))
<1> DEFINE u == [r EXCEPT !.pc = "new", !.polite = IsPolite(c, r.remote)]
<1>1. Alike(r, u)
  BY DEF Alike, PeerState
<1>2. Alike(r, r)
  BY DEF Alike
<1>3. CreatePC(c, r) \in {r, u}
  BY DEF CreatePC
<1> HIDE DEF u
<1> QED BY <1>1, <1>2, <1>3

\* _startNegotiation: who creates the channel has an offer to make, once.
LEMMA StartMoves ==
  ASSUME NEW c \in Client, NEW r, Sound(r), r.mapped
  PROVE  Moves(c, r, StartNegotiation(c, r), FALSE)
<1> DEFINE s == CreatePC(c, r)
           first == Creates(c, r.remote) /\ r.dc = "none"
           dc == IF first THEN "connecting" ELSE s.dc
           needed == s.needed \/ first
           u == [s EXCEPT !.negotiating = TRUE, !.dc = dc, !.needed = needed]
<1>1. Sound(s) /\ Alike(r, s)
  BY CreatePCSound, CreatePCAlike DEF Sound, Almost
<1>2. StartNegotiation(c, r) \in {r, u}
  BY DEF StartNegotiation
<1>3. Moves(c, r, r, FALSE)
  BY AlikeMoves DEF Alike
<1>a. needed \in BOOLEAN /\ dc \in DCState /\ s \in PeerState
  BY <1>1 DEF Sound, Almost, PeerState, Creates, DCState
<1>b. /\ first => dc = "connecting" /\ needed = TRUE
      /\ ~first => dc = s.dc /\ needed = s.needed
      /\ first <=> Creates(c, r.remote) /\ r.dc = "none"
  BY <1>a DEF PeerState
<1> HIDE DEF s, first, dc, needed
<1>4. /\ u.dc = dc /\ u.needed = needed /\ u.makingOffer = s.makingOffer
      /\ u.signaling = s.signaling /\ u.jobs = s.jobs
  BY <1>a DEF PeerState
<1> HIDE DEF u
<1>5. CASE ~first
  <2>1. Alike(r, u)
    BY <1>1, <1>4, <1>5, <1>b DEF Alike
  <2> QED BY <1>2, <1>3, <2>1, AlikeMoves
<1>6. CASE first
  <2>1. u.dc # "none" /\ u.jobs = r.jobs /\ r.dc = "none"
    BY <1>1, <1>4, <1>6, <1>b DEF Alike
  <2>2. CreatorMove(r, u, FALSE)
    BY <2>1 DEF CreatorMove, Creator, Ahead
  <2> QED BY <1>2, <1>3, <1>6, <1>b, <2>2 DEF Moves
<1> QED BY <1>5, <1>6

\* One more job, of a description that begins.
OwnJob(op) == [op |-> op, kind |-> "none", by |-> NoPeer]

\* A description that begins is one job more, and nothing else that matters here,
LEMMA DescribeFields ==
  ASSUME NEW r \in PeerState, r.pc # "closed", NEW op \in {"offer", "answer"},
         NEW u, u = Describe(r, op)
  PROVE  /\ OwnJob(op) \in Job
         /\ u.jobs = Append(r.jobs, OwnJob(op))
         /\ u.dc = r.dc /\ u.needed = r.needed /\ u.makingOffer = r.makingOffer
         /\ u.signaling = r.signaling
<1>1. OwnJob(op) \in Job
  BY DEF Job, OwnJob
<1>2. u = [r EXCEPT !.jobs = Append(@, OwnJob(op))]
  BY DEF Describe, OwnJob
<1> QED BY <1>1, <1>2 DEF PeerState

\* so it adds to a kind of jobs when it is of that kind.
LEMMA DescribeJobs ==
  ASSUME NEW r \in PeerState, r.pc # "closed", NEW op \in {"offer", "answer"},
         NEW u, u = Describe(r, op), NEW K
  PROVE  /\ None(u.jobs, K) <=> None(r.jobs, K) /\ OwnJob(op) \notin K
         /\ One(r.jobs, K) /\ OwnJob(op) \notin K => One(u.jobs, K)
         /\ None(r.jobs, K) => One(u.jobs, K)
<1>1. r.jobs \in Seq(Job)
  BY DEF PeerState
<1>2. OwnJob(op) \in Job /\ u.jobs = Append(r.jobs, OwnJob(op))
  BY DescribeFields
<1> QED BY <1>1, <1>2, AppendNone

\* onnegotiationneeded: the offer to make begins.
LEMMA NeededMoves ==
  ASSUME NEW c \in Client, NEW r, Sound(r), r.mapped, r.needed, r.jobs = <<>>
  PROVE  Moves(c, r, Describe([r EXCEPT !.needed = FALSE, !.makingOffer = TRUE], "offer"), FALSE)
<1> DEFINE s == [r EXCEPT !.needed = FALSE, !.makingOffer = TRUE]
           u == Describe(s, "offer")
           j == OwnJob("offer")
<1>1. r \in PeerState /\ r.pc # "closed"
  BY DEF Sound, Almost
<1>2. /\ s \in PeerState /\ s.pc = r.pc /\ s.jobs = <<>> /\ s.dc = r.dc /\ s.needed = FALSE
  BY <1>1 DEF PeerState
<1> HIDE DEF s
<1>3. u.dc = r.dc /\ u.needed = FALSE
  BY <1>1, <1>2, DescribeFields
<1>a. None(s.jobs, Begun) /\ None(s.jobs, Taken)
  BY <1>2 DEF None
<1>b. s.pc # "closed"
  BY <1>1, <1>2
<1>4. One(u.jobs, Begun) /\ (None(u.jobs, Taken) <=> j \notin Taken)
  <2>1. None(s.jobs, Begun) => One(u.jobs, Begun)
    BY <1>2, <1>b, DescribeJobs
  <2>2. None(u.jobs, Taken) <=> None(s.jobs, Taken) /\ j \notin Taken
    BY <1>2, <1>b, DescribeJobs
  <2> QED BY <1>a, <2>1, <2>2
<1>5. j \notin Taken
  BY DEF Taken, Owed, OwnJob
<1> HIDE DEF u, j
<1>6. CreatorMove(r, u, FALSE)
  BY <1>3, <1>4, <1>5 DEF CreatorMove, Creator, Ahead
<1>7. TakerMove(r, u, FALSE)
  BY DEF TakerMove, Taker
<1> QED BY <1>6, <1>7 DEF Moves, u, s

\* A description of one's own is set: the offer is made, or the answer.
LEMMA SetMoves ==
  ASSUME NEW c \in Client, NEW r, Sound(r), r.mapped,
         r.jobs # <<>>, Head(r.jobs).op \in {"offer", "answer"}, NEW u,
         u.jobs = Tail(r.jobs), u.dc = r.dc, u.needed = r.needed,
         u.makingOffer \in {r.makingOffer, FALSE},
         u.signaling = IF LocalKind(r) = "answer" THEN "stable" ELSE "have-local-offer"
  PROVE  Moves(c, r, u, LocalKind(r) = "offer")
<1> DEFINE j == Head(r.jobs)
<1>1. r.jobs \in Seq(Job) /\ j \in Job
  BY DEF Sound, Almost, PeerState
<1>2. /\ j.op = "offer" <=> j \in Begun
      /\ j.op = "answer" <=> j \in Owed
      /\ j.op = "answer" <=> j \in Taken
  BY <1>1 DEF Begun, Owed, Taken
<1>3. /\ None(r.jobs, Begun) => None(u.jobs, Begun) /\ j \notin Begun
      /\ None(r.jobs, Taken) => None(u.jobs, Taken) /\ j \notin Taken
      /\ One(r.jobs, Begun) /\ j \in Begun => None(u.jobs, Begun)
      /\ One(r.jobs, Taken) /\ j \in Taken => None(u.jobs, Taken)
      /\ None(r.jobs, Vain) => None(u.jobs, Vain)
      /\ None(r.jobs, Owed) => j \notin Owed
  BY <1>1, TailNone
<1>4. /\ None(u.jobs, Begun) => One(u.jobs, Begun)
      /\ None(u.jobs, Taken) => One(u.jobs, Taken) /\ None(u.jobs, Owed)
  BY NoneOne, NonePart DEF Taken
<1> HIDE DEF j
<1>5. CreatorMove(r, u, LocalKind(r) = "offer")
  <2> SUFFICES ASSUME Creator(r)
               PROVE  Creator(u) /\ Ahead(r) /\ ~Ahead(u)
    BY DEF CreatorMove
  <2>1. j \in Begun /\ None(u.jobs, Taken)
    BY <1>2, <1>3 DEF Creator, j
  <2>2. ~None(r.jobs, Begun) /\ None(u.jobs, Begun)
    BY <1>3, <2>1 DEF Creator
  <2>3. r.dc # "none" /\ ~r.needed
    BY <2>2 DEF Creator
  <2> QED BY <1>4, <2>1, <2>2, <2>3 DEF Creator, Ahead
<1>6. TakerMove(r, u, LocalKind(r) = "offer")
  <2> SUFFICES ASSUME Taker(r)
               PROVE  Taker(u) /\ None(u.jobs, Taken) /\ LocalKind(r) # "offer"
    BY DEF TakerMove
  <2>1. j \in Owed /\ j \in Taken
    BY <1>2, <1>3 DEF Taker, j
  <2>2. r.signaling = "have-remote-offer" /\ LocalKind(r) = "answer" /\ u.signaling = "stable"
    BY <1>3, <2>1 DEF Taker, LocalKind
  <2>3. None(u.jobs, Taken)
    BY <1>3, <2>1 DEF Taker
  <2> QED BY <1>3, <1>4, <2>2, <2>3 DEF Taker
<1> QED BY <1>5, <1>6 DEF Moves

\* A job is done that may lead to another: the answer is owed to whoever's
\* offer that was, and to nobody else.
LEMMA DoneMoves ==
  ASSUME NEW c, NEW r, r.jobs \in Seq(Job), r.jobs # <<>>,
         NEW j, j = Head(r.jobs), NEW u,
         u.dc = r.dc, u.needed = r.needed, u.makingOffer = r.makingOffer,
         \/ u.jobs = Tail(r.jobs)
         \/ \E e \in Job : /\ u.jobs = Append(Tail(r.jobs), e)
                           /\ e \notin Begun /\ e \notin Vain
                           /\ e \in Taken => /\ j \in Taken
                                             /\ j \in Owed \/ u.signaling = "have-remote-offer",
         \/ u.signaling \in {r.signaling, "have-remote-offer"}
         \/ j \in Vain
         \/ r.signaling = "have-local-offer"
  PROVE  Moves(c, r, u, FALSE)
<1> DEFINE q == Tail(r.jobs)
<1>1. q \in Seq(Job)
  OBVIOUS
<1>2. /\ None(r.jobs, Begun) => None(q, Begun)
      /\ One(r.jobs, Begun) => One(q, Begun)
      /\ None(r.jobs, Taken) => None(q, Taken) /\ j \notin Taken
      /\ One(r.jobs, Taken) => One(q, Taken)
      /\ One(r.jobs, Taken) /\ j \in Taken => None(q, Taken)
      /\ None(r.jobs, Owed) => None(q, Owed) /\ j \notin Owed
      /\ None(r.jobs, Vain) => None(q, Vain) /\ j \notin Vain
  BY TailNone
<1> HIDE DEF q
<1>3. CASE u.jobs = q
  <2>1. CreatorMove(r, u, FALSE)
    BY <1>2, <1>3 DEF CreatorMove, Creator, Ahead
  <2>2. TakerMove(r, u, FALSE)
    BY <1>2, <1>3 DEF TakerMove, Taker
  <2> QED BY <2>1, <2>2 DEF Moves
<1>4. ASSUME NEW e \in Job, u.jobs = Append(q, e), e \notin Begun, e \notin Vain,
             e \in Taken => /\ j \in Taken
                            /\ j \in Owed \/ u.signaling = "have-remote-offer"
      PROVE  Moves(c, r, u, FALSE)
  <2>1. /\ None(q, Begun) <=> None(u.jobs, Begun)
        /\ One(q, Begun) => One(u.jobs, Begun)
        /\ None(u.jobs, Taken) <=> None(q, Taken) /\ e \notin Taken
        /\ None(q, Taken) => One(u.jobs, Taken)
        /\ One(q, Taken) /\ e \notin Taken => One(u.jobs, Taken)
        /\ None(q, Vain) => None(u.jobs, Vain)
        /\ None(q, Owed) /\ e \notin Owed => None(u.jobs, Owed)
    BY <1>1, <1>4, AppendNone
  <2>2. CreatorMove(r, u, FALSE)
    BY <1>2, <1>4, <2>1 DEF CreatorMove, Creator, Ahead
  <2>3. e \in Owed => e \in Taken
    BY DEF Taken
  <2>4. TakerMove(r, u, FALSE)
    <3> SUFFICES ASSUME Taker(r)
                 PROVE  Taker(u) /\ (None(r.jobs, Taken) => None(u.jobs, Taken))
      BY DEF TakerMove
    <3>1. u.signaling \in {r.signaling, "have-remote-offer"}
      BY <1>2 DEF Taker
    <3>2. One(u.jobs, Taken) /\ (None(r.jobs, Taken) => None(u.jobs, Taken))
      BY <1>2, <1>4, <2>1 DEF Taker
    <3>3. None(u.jobs, Owed) \/ u.signaling = "have-remote-offer"
      BY <1>2, <1>4, <2>1, <2>3, <3>1 DEF Taker
    <3> QED BY <1>2, <2>1, <3>1, <3>2, <3>3 DEF Taker
  <2> QED BY <2>2, <2>4 DEF Moves
<1> QED BY <1>3, <1>4 DEF q

\* The other's description is set, or refused.
LEMMA AcceptMoves ==
  ASSUME NEW c \in Client, NEW r, Sound(r), r.mapped,
         r.jobs # <<>>, Head(r.jobs).op = "accept", NEW v,
         LET job == Head(r.jobs)
             rest == [r EXCEPT !.jobs = Tail(@)]
             valid == r.pc # "closed" /\ (job.kind = "answer" => r.signaling = "have-local-offer")
             set == [rest EXCEPT !.description = job.by,
                       !.signaling = IF job.kind = "offer" THEN "have-remote-offer" ELSE "stable"]
             next == IF r.closing THEN set
                     ELSE IF r.pending = {} THEN Answered(set, job.kind)
                     ELSE [set EXCEPT !.jobs = Append(@, [job EXCEPT !.op = "flush"])]
         IN v = IF valid THEN next ELSE rest
  PROVE  Moves(c, r, v, FALSE)
<1> DEFINE job == Head(r.jobs)
           signaling == IF job.kind = "offer" THEN "have-remote-offer" ELSE "stable"
           rest == [r EXCEPT !.jobs = Tail(@)]
           set == [rest EXCEPT !.description = job.by, !.signaling = signaling]
           after == [job EXCEPT !.op = "flush"]
           flush == [set EXCEPT !.jobs = Append(@, after)]
           begun == OwnJob("answer")
<1>1. r \in PeerState /\ ~r.closing /\ r.pc # "closed"
  BY DEF Sound, Almost
<1>a. r.jobs \in Seq(Job) /\ job \in Job /\ Tail(r.jobs) \in Seq(Job)
  BY <1>1 DEF PeerState
<1>2. /\ r.jobs \in Seq(Job) /\ job \in Job /\ Tail(r.jobs) \in Seq(Job)
      /\ job.by \in Peer \cup {NoPeer}
  BY <1>a DEF Job
<1>3. after \in Job /\ after.op = "flush" /\ after.kind = job.kind /\ begun \in Job
      /\ begun.op = "answer" /\ begun.kind = "none" /\ begun \notin Begun /\ begun \notin Vain
  BY <1>2 DEF Job, Begun, Vain, OwnJob
<1>4. \/ v = rest
      \/ /\ job.kind = "answer" => r.signaling = "have-local-offer"
         /\ v = flush \/ v = Answered(set, job.kind)
  BY <1>1
<1>5. signaling \in {"stable", "have-remote-offer"}
  OBVIOUS
<1>6. /\ job \in Taken <=> job.kind = "offer"
      /\ job \in Vain <=> job.kind = "none"
      /\ job \in Taken => signaling = "have-remote-offer"
      /\ job \notin Taken => job \in Vain \/ job.kind = "answer"
  BY <1>2 DEF Taken, Owed, Vain, Job
<1>7. after \notin Begun /\ after \notin Vain /\ (after \in Taken => job \in Taken)
  BY <1>2, <1>3, <1>6 DEF Begun, Vain, Taken, Owed
<1> HIDE DEF job, signaling, after, begun
<1>8. /\ rest.jobs = Tail(r.jobs) /\ rest.dc = r.dc /\ rest.needed = r.needed
      /\ rest.makingOffer = r.makingOffer /\ rest.signaling = r.signaling
      /\ rest.pc = r.pc /\ rest \in PeerState
  BY <1>1, <1>2 DEF PeerState
<1> HIDE DEF rest
<1>9. /\ set.jobs = Tail(r.jobs) /\ set.dc = r.dc /\ set.needed = r.needed
      /\ set.makingOffer = r.makingOffer /\ set.signaling = signaling
      /\ set.pc = r.pc /\ set \in PeerState
  BY <1>2, <1>5, <1>8 DEF PeerState
<1> HIDE DEF set
<1>10. /\ flush.jobs = Append(Tail(r.jobs), after) /\ flush.dc = r.dc
       /\ flush.needed = r.needed /\ flush.makingOffer = r.makingOffer
       /\ flush.signaling = signaling
  BY <1>9 DEF PeerState
<1> HIDE DEF flush
<1>11. CASE v = rest
  BY <1>2, <1>8, <1>11, DoneMoves
<1>12. CASE (job.kind = "answer" => r.signaling = "have-local-offer") /\ v = flush
  <2>1. \/ v.signaling \in {r.signaling, "have-remote-offer"} \/ job \in Vain
        \/ r.signaling = "have-local-offer"
    BY <1>6, <1>10, <1>12
  <2>2. after \in Taken => job \in Taken /\ v.signaling = "have-remote-offer"
    BY <1>6, <1>7, <1>10, <1>12
  <2> QED BY <1>2, <1>3, <1>7, <1>10, <1>12, <2>1, <2>2, DoneMoves DEF job
<1>13. CASE /\ job.kind = "answer" => r.signaling = "have-local-offer"
            /\ v = Answered(set, job.kind)
  <2>1. CASE job.kind = "offer"
    <3>1. v = Describe(set, "answer") /\ set.pc # "closed"
      BY <1>1, <1>9, <1>13, <2>1 DEF Answered
    <3> DEFINE w == Describe(set, "answer")
    <3>w. /\ w.jobs = Append(set.jobs, begun) /\ w.dc = set.dc /\ w.needed = set.needed
          /\ w.makingOffer = set.makingOffer /\ w.signaling = set.signaling
      BY <1>9, <3>1, DescribeFields DEF begun
    <3> HIDE DEF w
    <3>2. /\ v.jobs = Append(Tail(r.jobs), begun) /\ v.dc = r.dc /\ v.needed = r.needed
          /\ v.makingOffer = r.makingOffer /\ v.signaling = signaling
      BY <1>9, <3>1, <3>w DEF w
    <3>3. job \in Taken /\ v.signaling = "have-remote-offer"
      BY <1>6, <2>1, <3>2
    <3> QED BY <1>2, <1>3, <3>2, <3>3, DoneMoves DEF job
  <2>2. CASE job.kind # "offer"
    <3>1. v = set
      BY <1>13, <2>2 DEF Answered
    <3>2. job \in Vain \/ r.signaling = "have-local-offer"
      BY <1>6, <1>13, <2>2
    <3> QED BY <1>2, <1>9, <3>1, <3>2, DoneMoves DEF job
  <2> QED BY <2>1, <2>2
<1> QED BY <1>4, <1>11, <1>12, <1>13

\* The candidates that waited are added.
LEMMA FlushMoves ==
  ASSUME NEW c \in Client, NEW r, Sound(r), r.mapped,
         r.jobs # <<>>, Head(r.jobs).op = "flush"
  PROVE  Moves(c, r, Answered([r EXCEPT !.jobs = Tail(@), !.pending = {},
                                 !.candidates = @ \cup (r.pending \cap {r.description})],
                              Head(r.jobs).kind), FALSE)
<1> DEFINE job == Head(r.jobs)
           added == r.candidates \cup (r.pending \cap {r.description})
           rest == [r EXCEPT !.jobs = Tail(@), !.pending = {}, !.candidates = added]
           u == Answered(rest, job.kind)
           begun == OwnJob("answer")
<1>1. r \in PeerState /\ r.pc # "closed"
  BY DEF Sound, Almost
<1>2. r.jobs \in Seq(Job) /\ job \in Job /\ Tail(r.jobs) \in Seq(Job) /\ added \in SUBSET Peer
  BY <1>1 DEF PeerState
<1>3. begun \in Job /\ begun \notin Begun /\ begun \notin Vain
  BY DEF Job, Begun, Vain, OwnJob
<1>4. job.kind = "offer" => job \in Owed /\ job \in Taken
  BY <1>2 DEF Owed, Taken
<1> HIDE DEF job, added, begun
<1>5. /\ rest.jobs = Tail(r.jobs) /\ rest.dc = r.dc /\ rest.needed = r.needed
      /\ rest.makingOffer = r.makingOffer /\ rest.signaling = r.signaling
      /\ rest.pc = r.pc /\ rest \in PeerState
  BY <1>1, <1>2 DEF PeerState
<1> HIDE DEF rest
<1>6. CASE job.kind = "offer"
  <2>1. u = Describe(rest, "answer") /\ rest.pc # "closed"
    BY <1>1, <1>5, <1>6 DEF Answered
  <2> HIDE DEF u
  <2>2. /\ u.jobs = Append(Tail(r.jobs), begun) /\ u.dc = r.dc /\ u.needed = r.needed
        /\ u.makingOffer = r.makingOffer /\ u.signaling = r.signaling
    BY <1>1, <1>5, <2>1, DescribeFields DEF begun
  <2> QED BY <1>2, <1>3, <1>4, <1>6, <2>2, DoneMoves DEF job, u, rest, added
<1>7. CASE job.kind # "offer"
  <2>1. u = rest
    BY <1>7 DEF Answered
  <2> HIDE DEF u
  <2> QED BY <1>2, <1>5, <2>1, DoneMoves DEF u, rest, added, job
<1> QED BY <1>6, <1>7

\* A description that arrives is set in its turn.
LEMMA ArrivedJob ==
  ASSUME NEW c \in Client, NEW f \in Frame, NEW r \in PeerState,
         f.kind \in {"offer", "answer"}, ~Ignores(f, r),
         NEW u, u = AfterSignal(c, f, r)
  PROVE  /\ u.dc = r.dc /\ u.needed = r.needed /\ u.makingOffer = r.makingOffer
         /\ u.signaling = r.signaling
         /\ \E j \in Job : j.op = "accept" /\ j.kind = f.kind /\ u.jobs = Append(r.jobs, j)
<1> DEFINE j == [op |-> "accept", kind |-> f.kind, by |-> f.by]
<1>1. j \in Job
  BY DEF Job, Frame
<1>2. u = [r EXCEPT !.jobs = Append(@, j)]
  BY DEF AfterSignal
<1>3. j.op = "accept" /\ j.kind = f.kind
  OBVIOUS
<1> HIDE DEF j
<1>4. /\ u.jobs = Append(r.jobs, j)
      /\ u.dc = r.dc /\ u.needed = r.needed /\ u.makingOffer = r.makingOffer
      /\ u.signaling = r.signaling
  BY <1>2 DEF PeerState
<1> QED BY <1>1, <1>3, <1>4

\* A signal that is no offer, or is ignored.
LEMMA SignalMoves ==
  ASSUME NEW c \in Client, NEW f \in Frame, NEW r, Sound(r), r.mapped,
         f.kind # "offer" \/ Ignores(f, r)
  PROVE  Moves(c, r, AfterSignal(c, f, r), FALSE)
<1> DEFINE u == AfterSignal(c, f, r)
<1>0. r \in PeerState /\ r.jobs \in Seq(Job) /\ f.by \in Peer
  BY DEF Sound, Almost, PeerState, Frame
<1>a. Moves(c, r, r, FALSE)
  BY AlikeMoves DEF Alike
<1>1. CASE f.kind = "start"
  <2> DEFINE s == [r EXCEPT !.negotiating = FALSE]
  <2>1. s \in PeerState
    BY <1>0 DEF PeerState
  <2>2. /\ s.mapped = r.mapped /\ s.closing = r.closing /\ s.remote = r.remote
        /\ s.jobs = r.jobs /\ s.sockets = r.sockets /\ s.pc = r.pc /\ s.needed = r.needed
        /\ s.dc = r.dc /\ s.makingOffer = r.makingOffer /\ s.signaling = r.signaling
    BY <1>0 DEF PeerState
  <2>3. u \in {r, StartNegotiation(c, s)}
    BY <1>1 DEF AfterSignal
  <2> HIDE DEF s, u
  <2>4. r.pc = "none" => ~r.needed
    BY DEF Sound, Almost
  <2>5. Sound(s) /\ Alike(r, s)
    BY <2>1, <2>2, <2>4, SameSound DEF Alike
  <2>6. Moves(c, s, StartNegotiation(c, s), FALSE)
    BY <2>2, <2>5, StartMoves
  <2>7. Moves(c, r, u, FALSE)
    BY <1>a, <2>2, <2>3, <2>5, <2>6, AlikeThenMoves
  <2> QED BY <2>7 DEF u
<1>2. CASE f.kind = "answer" /\ ~Ignores(f, r)
  <2> HIDE DEF u
  <2>1. /\ u.dc = r.dc /\ u.needed = r.needed /\ u.makingOffer = r.makingOffer
        /\ u.signaling = r.signaling
        /\ \E j \in Job : j.op = "accept" /\ j.kind = "answer" /\ u.jobs = Append(r.jobs, j)
    BY <1>0, <1>2, ArrivedJob DEF u
  <2>2. PICK j \in Job : j.op = "accept" /\ j.kind = "answer" /\ u.jobs = Append(r.jobs, j)
    BY <2>1
  <2>3. j \notin Begun /\ j \notin Taken /\ j \notin Owed /\ j \notin Vain
    BY <2>2 DEF Begun, Taken, Owed, Vain
  <2>4. /\ None(u.jobs, Begun) <=> None(r.jobs, Begun)
        /\ One(r.jobs, Begun) => One(u.jobs, Begun)
        /\ None(u.jobs, Taken) <=> None(r.jobs, Taken)
        /\ One(r.jobs, Taken) => One(u.jobs, Taken)
        /\ None(u.jobs, Owed) <=> None(r.jobs, Owed)
        /\ None(u.jobs, Vain) <=> None(r.jobs, Vain)
    BY <1>0, <2>2, <2>3, AppendNone
  <2>5. Moves(c, r, u, FALSE)
    BY <2>1, <2>4 DEF Moves, CreatorMove, TakerMove, Creator, Taker, Ahead
  <2> QED BY <2>5 DEF u
<1>3. CASE f.kind = "ice"
  <2> DEFINE s == [r EXCEPT !.candidates = @ \cup {f.by}]
             v == [r EXCEPT !.pending = @ \cup {f.by}]
  <2>1. u \in {r, s, v}
    BY <1>3 DEF AfterSignal
  <2>2. Alike(r, s) /\ Alike(r, v)
    BY <1>0 DEF PeerState, Alike
  <2> HIDE DEF u, s, v
  <2>3. Moves(c, r, u, FALSE)
    BY <1>a, <2>1, <2>2, AlikeMoves
  <2> QED BY <2>3 DEF u
<1>4. CASE f.kind \in {"offer", "answer"} /\ Ignores(f, r)
  BY <1>4, <1>a DEF AfterSignal
<1> QED BY <1>1, <1>2, <1>3, <1>4 DEF Frame

\* The one offer is taken.
LEMMA OfferTaken ==
  ASSUME NEW c \in Client, NEW f \in Frame, NEW r, Sound(r),
         f.kind = "offer", ~Ignores(f, r), Taker(r), None(r.jobs, Taken)
  PROVE  Taker(AfterSignal(c, f, r))
<1> DEFINE u == AfterSignal(c, f, r)
<1>0. r \in PeerState /\ r.jobs \in Seq(Job)
  BY DEF Sound, Almost, PeerState
<1> HIDE DEF u
<1>1. /\ u.dc = r.dc /\ u.needed = r.needed /\ u.makingOffer = r.makingOffer
      /\ u.signaling = r.signaling
      /\ \E j \in Job : j.op = "accept" /\ j.kind = "offer" /\ u.jobs = Append(r.jobs, j)
  BY <1>0, ArrivedJob DEF u
<1>2. PICK j \in Job : j.op = "accept" /\ j.kind = "offer" /\ u.jobs = Append(r.jobs, j)
  BY <1>1
<1>3. j \notin Begun /\ j \notin Owed /\ j \notin Vain
  BY <1>2 DEF Begun, Owed, Vain
<1>4. None(r.jobs, Owed)
  BY NonePart DEF Taken
<1>5. /\ None(r.jobs, Begun) => None(u.jobs, Begun)
      /\ None(r.jobs, Taken) => One(u.jobs, Taken)
      /\ None(r.jobs, Owed) => None(u.jobs, Owed)
      /\ None(r.jobs, Vain) => None(u.jobs, Vain)
  BY <1>0, <1>2, <1>3, AppendNone
<1> QED BY <1>1, <1>4, <1>5 DEF Taker, u

-----------------------------------------------------------------------------
(* Two ends, and the signals between them.  One end may be made before     *)
(* the other, or again; a signal of an earlier token concerns another peer.*)

\* Offers of a client's on the way to another.
OfferOf(t) == {f \in Frame : f.kind = "offer" /\ f.from = t}
NoOffer(W, d, c) == None(W[c], OfferOf(Self(d)))
OneOffer(W, d, c) == One(W[c], OfferOf(Self(d)))

\* A peer in the map of another's token, which both still have, and one made
\* with the token its client still has.
Live(P, p, c) == P[p].mapped /\ P[p].remote = Self(c) /\ online[p[1]] /\ online[c]
Current(P, p, c) == Live(P, p, c) /\ P[p].born = conn[p[1]]

\* The other has no peer for it.
Lone(P, p, c) == \A q \in Peer : q[1] = c => ~Live(P, q, p[1])

\* What each end is to the other.
SideOK(P, W, p, c) ==
  IF Creates(p[1], Self(c))
  THEN /\ Creator(P[p])
       /\ OneOffer(W, p[1], c)
       /\ Ahead(P[p]) => NoOffer(W, p[1], c)
  ELSE Taker(P[p]) /\ NoOffer(W, p[1], c)

\* An offer on its way is of a peer that is there.
PostedOK(P, W) ==
  \A c, d \in Client :
    c # d /\ online[c] /\ online[d] /\ ~NoOffer(W, d, c)
      => \E p \in Peer : p[1] = d /\ Live(P, p, c)

\* Whom the other does not know has taken no offer.
LoneOK(P, W) ==
  \A p \in Peer, c \in Client :
    Current(P, p, c) /\ Lone(P, p, c) => SideOK(P, W, p, c) /\ None(P[p].jobs, Taken)

\* Of two that know each other one offers, and not while its offer is taken.
Spent(P, W, p, q) ==
  Creates(q[1], Self(p[1])) =>
    None(P[p].jobs, Taken) \/ (~Ahead(P[q]) /\ NoOffer(W, q[1], p[1]))
PairOK(P, W) ==
  \A p, q \in Peer :
    Current(P, p, q[1]) /\ Current(P, q, p[1])
      => SideOK(P, W, p, q[1]) /\ Spent(P, W, p, q)

OffersOK(P, W) == PostedOK(P, W) /\ LoneOK(P, W) /\ PairOK(P, W)

OneOfEach(P) ==
  \A p, q \in Peer :
    P[p].mapped /\ P[q].mapped /\ p[1] = q[1] /\ P[p].remote = P[q].remote => p = q

\* A step of one peer, that sends an offer or does not.
Posted(P, x, sent, d, c) == sent /\ d = x[1] /\ P[x].remote = Self(c)
StepOf(P, W, P2, W2, x, u, sent) ==
  /\ \A y \in Peer : P2[y] = IF y = x THEN u ELSE P[y]
  /\ u.mapped => /\ P[x].mapped /\ u.remote = P[x].remote /\ u.born = P[x].born
                 /\ Moves(x[1], P[x], u, sent)
  /\ P[x].mapped /\ ~u.mapped => \A c \in Client : online[c] => P[x].remote # Self(c)
  /\ sent => u.mapped
  /\ \A c, d \in Client :
       /\ NoOffer(W, d, c) => /\ OneOffer(W2, d, c)
                              /\ NoOffer(W2, d, c) \/ Posted(P, x, sent, d, c)
       /\ OneOffer(W, d, c) => OneOffer(W2, d, c) \/ Posted(P, x, sent, d, c)

\* Of two tokens one is the greater.
LEMMA OneCreates ==
  ASSUME Inv, NEW c \in Client, NEW d \in Client
  PROVE  ~(Creates(c, Self(d)) /\ Creates(d, Self(c)))
<1>1. Self(c) \in Token /\ Self(d) \in Token
  <2>1. conn[c] \in 1 .. MaxConns[c] /\ conn[d] \in 1 .. MaxConns[d]
    BY Assumptions DEF Inv
  <2> QED BY <2>1 DEF Self, Token
<1>2. Rank[Self(c)] \in Nat /\ Rank[Self(d)] \in Nat
  BY <1>1, Assumptions
<1> QED BY <1>2 DEF Creates

\* Such a step takes no live peer out of the map and puts none in it.
LEMMA StepLive ==
  ASSUME NEW P, NEW W, NEW P2, NEW W2, NEW x \in Peer, NEW u, NEW sent,
         StepOf(P, W, P2, W2, x, u, sent), NEW p \in Peer, NEW c \in Client
  PROVE  /\ Live(P2, p, c) <=> Live(P, p, c)
         /\ Current(P2, p, c) <=> Current(P, p, c)
BY DEF StepOf, Live, Current

\* Such a step leaves each end what it is.
LEMMA StepSide ==
  ASSUME NEW P, NEW W, NEW P2, NEW W2, NEW x \in Peer, NEW u, NEW sent \in BOOLEAN,
         StepOf(P, W, P2, W2, x, u, sent), OneOfEach(P),
         NEW p \in Peer, NEW c \in Client, Live(P, p, c), p[1] \in Client, SideOK(P, W, p, c)
  PROVE  SideOK(P2, W2, p, c)
<1>1. CASE p = x
  <2>1. u.mapped /\ P2[p] = u
    BY <1>1 DEF StepOf, Live
  <2>2. Moves(p[1], P[p], u, sent) /\ P[p].remote = Self(c)
    BY <1>1, <2>1 DEF StepOf, Live
  <2>3. CASE Creates(p[1], Self(c))
    <3>1. /\ Creator(P[p]) /\ OneOffer(W, p[1], c)
          /\ Ahead(P[p]) => NoOffer(W, p[1], c)
      BY <2>3 DEF SideOK
    <3>2. Creator(u) /\ (Ahead(u) => Ahead(P[p])) /\ (sent => Ahead(P[p]) /\ ~Ahead(u))
      BY <2>2, <2>3, <3>1 DEF Moves, CreatorMove
    <3>3. /\ NoOffer(W, p[1], c) => OneOffer(W2, p[1], c) /\ (NoOffer(W2, p[1], c) \/ sent)
          /\ OneOffer(W, p[1], c) => OneOffer(W2, p[1], c) \/ sent
      BY DEF StepOf, Posted
    <3> QED BY <2>1, <2>3, <3>1, <3>2, <3>3 DEF SideOK
  <2>4. CASE ~Creates(p[1], Self(c))
    <3>1. Taker(P[p]) /\ NoOffer(W, p[1], c)
      BY <2>4 DEF SideOK
    <3>2. Taker(u) /\ ~sent
      BY <2>2, <2>4, <3>1 DEF Moves, TakerMove
    <3>3. NoOffer(W, p[1], c) => NoOffer(W2, p[1], c) \/ sent
      BY DEF StepOf, Posted
    <3> QED BY <2>1, <2>4, <3>1, <3>2, <3>3 DEF SideOK
  <2> QED BY <2>3, <2>4
<1>2. CASE p # x
  <2>1. P2[p] = P[p]
    BY <1>2 DEF StepOf
  <2>2. ~Posted(P, x, sent, p[1], c)
    BY <1>2 DEF Posted, StepOf, OneOfEach, Live
  <2>3. /\ NoOffer(W, p[1], c) => NoOffer(W2, p[1], c)
        /\ OneOffer(W, p[1], c) => OneOffer(W2, p[1], c)
    BY <2>2 DEF StepOf
  <2> QED BY <2>1, <2>3 DEF SideOK
<1> QED BY <1>1, <1>2

\* So it keeps all that is said of the two ends of a pair.
LEMMA StepOffers ==
  ASSUME Inv, NEW P, NEW W, NEW P2, NEW W2, NEW x \in Peer, NEW u, NEW sent \in BOOLEAN,
         StepOf(P, W, P2, W2, x, u, sent), OneOfEach(P), OffersOK(P, W)
  PROVE  OffersOK(P2, W2)
<1>0. \A p \in Peer : p[1] \in Client
  BY DEF Peer
<1>1. PostedOK(P2, W2)
  <2> SUFFICES ASSUME NEW c \in Client, NEW d \in Client,
                      c # d, online[c], online[d], ~NoOffer(W2, d, c)
               PROVE  \E p \in Peer : p[1] = d /\ Live(P2, p, c)
    BY DEF PostedOK
  <2>1. CASE ~NoOffer(W, d, c)
    <3>1. \E p \in Peer : p[1] = d /\ Live(P, p, c)
      BY <2>1 DEF OffersOK, PostedOK
    <3> QED BY <3>1, StepLive
  <2>2. CASE Posted(P, x, sent, d, c)
    <3>1. x[1] = d /\ Live(P, x, c)
      BY <2>2 DEF Posted, StepOf, Live
    <3> QED BY <3>1, StepLive
  <2> QED BY <2>1, <2>2 DEF StepOf
<1>2. LoneOK(P2, W2)
  <2> SUFFICES ASSUME NEW p \in Peer, NEW c \in Client, Current(P2, p, c), Lone(P2, p, c)
               PROVE  SideOK(P2, W2, p, c) /\ None(P2[p].jobs, Taken)
    BY DEF LoneOK
  <2>1. Current(P, p, c) /\ Lone(P, p, c) /\ Live(P, p, c)
    BY <1>0, StepLive DEF Lone, Current
  <2>2. SideOK(P, W, p, c) /\ None(P[p].jobs, Taken)
    BY <2>1 DEF OffersOK, LoneOK
  <2>3. SideOK(P2, W2, p, c)
    BY <1>0, <2>1, <2>2, StepSide
  <2>4. None(P2[p].jobs, Taken)
    <3>1. CASE p = x
      <4>1. Moves(x[1], P[x], u, sent) /\ P2[p] = u /\ P[x].remote = Self(c)
        BY <2>1, <3>1 DEF StepOf, Current, Live
      <4> QED BY <2>2, <3>1, <4>1 DEF Moves, CreatorMove, TakerMove, Creator, SideOK
    <3>2. CASE p # x
      BY <2>2, <3>2 DEF StepOf
    <3> QED BY <3>1, <3>2
  <2> QED BY <2>3, <2>4
<1>3. PairOK(P2, W2)
  <2> SUFFICES ASSUME NEW p \in Peer, NEW q \in Peer, Current(P2, p, q[1]), Current(P2, q, p[1])
               PROVE  SideOK(P2, W2, p, q[1]) /\ Spent(P2, W2, p, q)
    BY DEF PairOK
  <2>1. /\ Current(P, p, q[1]) /\ Live(P, p, q[1])
        /\ Current(P, q, p[1]) /\ Live(P, q, p[1])
    BY <1>0, StepLive DEF Current
  <2>2. SideOK(P, W, p, q[1]) /\ Spent(P, W, p, q) /\ SideOK(P, W, q, p[1])
    BY <2>1 DEF OffersOK, PairOK
  <2>3. SideOK(P2, W2, p, q[1])
    BY <1>0, <2>1, <2>2, StepSide
  <2>4. ASSUME Creates(q[1], Self(p[1]))
        PROVE  None(P2[p].jobs, Taken) \/ (~Ahead(P2[q]) /\ NoOffer(W2, q[1], p[1]))
    <3>1. ~Creates(p[1], Self(q[1]))
      BY <1>0, <2>4, OneCreates
    <3>2. Taker(P[p]) /\ Creator(P[q])
      BY <2>2, <2>4, <3>1 DEF SideOK
    <3>3. CASE None(P[p].jobs, Taken)
      <4>1. CASE p = x
        <5>1. Moves(x[1], P[x], u, sent) /\ P2[p] = u /\ P[x].remote = Self(q[1])
          BY <2>1, <4>1 DEF StepOf, Current, Live
        <5> QED BY <3>1, <3>2, <3>3, <4>1, <5>1 DEF Moves, TakerMove
      <4>2. CASE p # x
        BY <3>3, <4>2 DEF StepOf
      <4> QED BY <4>1, <4>2
    <3>4. CASE ~Ahead(P[q]) /\ NoOffer(W, q[1], p[1])
      <4>1. ~Ahead(P2[q]) /\ ~Posted(P, x, sent, q[1], p[1])
        <5>1. CASE q = x
          <6>1. Moves(x[1], P[x], u, sent) /\ P2[q] = u /\ P[x].remote = Self(p[1])
            BY <2>1, <5>1 DEF StepOf, Current, Live
          <6> QED BY <2>4, <3>2, <3>4, <5>1, <6>1 DEF Moves, CreatorMove, Posted
        <5>2. CASE q # x
          <6>1. P2[q] = P[q]
            BY <5>2 DEF StepOf
          <6>2. ~Posted(P, x, sent, q[1], p[1])
            BY <2>1, <5>2 DEF Posted, StepOf, OneOfEach, Live
          <6> QED BY <3>4, <6>1, <6>2
        <5> QED BY <5>1, <5>2
      <4>2. NoOffer(W2, q[1], p[1])
        BY <1>0, <3>4, <4>1 DEF StepOf
      <4> QED BY <4>1, <4>2
    <3> QED BY <2>2, <2>4, <3>3, <3>4 DEF Spent
  <2> QED BY <2>3, <2>4 DEF Spent
<1> QED BY <1>1, <1>2, <1>3 DEF OffersOK

\* A peer is made of a token, that its client had no peer of.
MadeOf(P, P2, x, u, t) ==
  /\ \A y \in Peer : P2[y] = IF y = x THEN u ELSE P[y]
  /\ ~P[x].mapped
  /\ \A y \in Peer : y[1] = x[1] /\ P[y].mapped => P[y].remote # t
  /\ u.remote = t /\ u.dc = "none" /\ ~u.needed /\ ~u.makingOffer /\ u.signaling = "stable"
  /\ u.jobs = <<>>

\* A peer just made has offered nothing, and nothing is on its way from it.
LEMMA CreateOffers ==
  ASSUME Inv, NEW P, NEW W, NEW P2, NEW x \in Peer, NEW t, t[1] # x[1], NEW u,
         MadeOf(P, P2, x, u, t), OffersOK(P, W)
  PROVE  OffersOK(P2, W)
<1> USE DEF MadeOf
<1>0. \A p \in Peer : p[1] \in Client
  BY DEF Peer
<1>a. \A K : None(u.jobs, K) /\ One(u.jobs, K)
  BY DEF None, One
<1>b. Creator(u) /\ Taker(u)
  BY <1>a DEF Creator, Taker
<1>c. \A p \in Peer, c \in Client : Live(P, p, c) => p # x /\ Live(P2, p, c)
  BY DEF Live
<1>d. \A p \in Peer, c \in Client : p # x /\ Live(P2, p, c) => Live(P, p, c)
  BY DEF Live
<1>1. PostedOK(P2, W)
  BY <1>c DEF OffersOK, PostedOK
<1>2. ASSUME NEW c \in Client, Live(P2, x, c)
      PROVE  SideOK(P2, W, x, c) /\ None(P2[x].jobs, Taken)
  <2>a. P2[x] = u
    OBVIOUS
  <2>b. t = Self(c) /\ online[c] /\ online[x[1]]
    BY <1>2, <2>a DEF Live
  <2>1. t = Self(c) /\ c # x[1] /\ online[c] /\ online[x[1]] /\ P2[x] = u
    BY <2>a, <2>b DEF Self
  <2>2. ~\E p \in Peer : p[1] = x[1] /\ Live(P, p, c)
    BY <2>1 DEF Live
  <2>3. NoOffer(W, x[1], c)
    BY <1>0, <2>1, <2>2 DEF OffersOK, PostedOK
  <2>4. OneOffer(W, x[1], c)
    BY <2>3, NoneOne DEF NoOffer, OneOffer
  <2> QED BY <1>a, <1>b, <2>1, <2>3, <2>4 DEF SideOK
<1>3. ASSUME NEW p \in Peer, p # x, NEW c \in Client, Current(P2, p, c), Lone(P, p, c)
      PROVE  SideOK(P2, W, p, c) /\ None(P2[p].jobs, Taken)
  <2>1. P2[p] = P[p] /\ Current(P, p, c)
    BY <1>3 DEF Current, Live
  <2>2. SideOK(P, W, p, c) /\ None(P[p].jobs, Taken)
    BY <1>3, <2>1 DEF OffersOK, LoneOK
  <2> QED BY <2>1, <2>2 DEF SideOK
<1>4. LoneOK(P2, W)
  <2> SUFFICES ASSUME NEW p \in Peer, NEW c \in Client, Current(P2, p, c), Lone(P2, p, c)
               PROVE  SideOK(P2, W, p, c) /\ None(P2[p].jobs, Taken)
    BY DEF LoneOK
  <2>1. Lone(P, p, c) /\ Live(P2, p, c)
    BY <1>0, <1>c DEF Lone, Current
  <2> QED BY <1>2, <1>3, <2>1
<1>5. PairOK(P2, W)
  <2> SUFFICES ASSUME NEW p \in Peer, NEW q \in Peer, Current(P2, p, q[1]), Current(P2, q, p[1])
               PROVE  SideOK(P2, W, p, q[1]) /\ Spent(P2, W, p, q)
    BY DEF PairOK
  <2>0. p[1] \in Client /\ q[1] \in Client /\ Live(P2, p, q[1]) /\ Live(P2, q, p[1])
    BY <1>0 DEF Current
  <2>1. CASE p = x
    BY <1>2, <2>0, <2>1 DEF Spent
  <2>2. CASE p # x /\ q = x
    <3>1. Lone(P, p, q[1])
      <4> SUFFICES ASSUME NEW y \in Peer, y[1] = x[1], Live(P, y, p[1])
                   PROVE  FALSE
        BY <2>2 DEF Lone
      <4>1. P[y].mapped /\ P[y].remote = Self(p[1])
        BY DEF Live
      <4>2. t = Self(p[1])
        BY <2>0, <2>2 DEF Live
      <4> QED BY <4>1, <4>2
    <3> QED BY <1>3, <2>0, <2>2, <3>1 DEF Spent
  <2>3. CASE p # x /\ q # x
    <3>1. P2[p] = P[p] /\ P2[q] = P[q] /\ Current(P, p, q[1]) /\ Current(P, q, p[1])
      BY <2>3 DEF Current, Live
    <3>2. SideOK(P, W, p, q[1]) /\ Spent(P, W, p, q)
      BY <3>1 DEF OffersOK, PairOK
    <3> QED BY <3>1, <3>2 DEF SideOK, Spent
  <2> QED BY <2>1, <2>2, <2>3
<1> QED BY <1>1, <1>4, <1>5 DEF OffersOK

\* A peer takes the signal that its client hears.
TakenOf(P, W, P2, W2, x, u, f) ==
  /\ W[x[1]] # <<>> /\ f = Head(W[x[1]])
  /\ P[x].mapped /\ P[x].remote = f.from
  /\ u.mapped /\ u.remote = f.from /\ u.born = P[x].born
  /\ \A y \in Peer : P2[y] = IF y = x THEN u ELSE P[y]
  /\ \A c \in Client : W2[c] = IF c = x[1] THEN Tail(W[c]) ELSE W[c]

\* An offer comes to the end that makes none, and is the only one.
LEMMA TakeOffers ==
  ASSUME Inv, NEW P, NEW W \in [Client -> Seq(Frame)], NEW P2, NEW W2,
         NEW x \in Peer, NEW u, NEW f, TakenOf(P, W, P2, W2, x, u, f),
         f.kind = "offer", f.from[1] # x[1],
         Taker(P[x]) /\ None(P[x].jobs, Taken) => Taker(u),
         OffersOK(P, W)
  PROVE  OffersOK(P2, W2)
<1> USE DEF TakenOf
<1>0. \A p \in Peer : p[1] \in Client
  BY DEF Peer
<1>a. W[x[1]] \in Seq(Frame) /\ f \in Frame
  BY <1>0
<1>b. \A c, d \in Client :
        /\ NoOffer(W, d, c) => NoOffer(W2, d, c)
        /\ OneOffer(W, d, c) => OneOffer(W2, d, c)
  BY <1>0, <1>a, TailNone DEF NoOffer, OneOffer
<1>c. ASSUME NEW d \in Client, f.from = Self(d)
      PROVE  /\ ~NoOffer(W, d, x[1])
             /\ OneOffer(W, d, x[1]) => NoOffer(W2, d, x[1])
  <2>1. f \in OfferOf(Self(d))
    BY <1>a, <1>c DEF OfferOf
  <2> QED BY <1>0, <1>a, <2>1, TailNone DEF NoOffer, OneOffer
<1>d. \A p \in Peer, c \in Client :
        /\ Live(P2, p, c) <=> Live(P, p, c)
        /\ Current(P2, p, c) <=> Current(P, p, c)
  BY DEF Live, Current
<1>e. ASSUME NEW p \in Peer, p # x, NEW c \in Client, SideOK(P, W, p, c)
      PROVE  SideOK(P2, W2, p, c)
  BY <1>0, <1>b, <1>e DEF SideOK
\* Whoever made it is there, and x is not the one that creates the channel.
<1>f. ASSUME NEW d \in Client, Live(P, x, d)
      PROVE  /\ f.from = Self(d) /\ d # x[1] /\ ~Lone(P, x, d)
             /\ \A q \in Peer : q[1] = d /\ Current(P, q, x[1]) /\ Current(P, x, d) =>
                  /\ Creates(d, Self(x[1])) /\ ~Creates(x[1], Self(d))
                  /\ Creator(P[q]) /\ ~Ahead(P[q]) /\ OneOffer(W, d, x[1])
                  /\ Taker(P[x]) /\ NoOffer(W, x[1], d) /\ None(P[x].jobs, Taken)
  <2>1. f.from = Self(d) /\ d # x[1] /\ online[d] /\ online[x[1]]
    BY <1>f DEF Live, Self
  <2>2. ~NoOffer(W, d, x[1])
    BY <1>c, <2>1
  <2>3. ~Lone(P, x, d)
    BY <1>0, <2>1, <2>2 DEF OffersOK, PostedOK, Lone
  <2>4. ASSUME NEW q \in Peer, q[1] = d, Current(P, q, x[1]), Current(P, x, d)
        PROVE  /\ Creates(d, Self(x[1])) /\ ~Creates(x[1], Self(d))
               /\ Creator(P[q]) /\ ~Ahead(P[q]) /\ OneOffer(W, d, x[1])
               /\ Taker(P[x]) /\ NoOffer(W, x[1], d) /\ None(P[x].jobs, Taken)
    <3>1. SideOK(P, W, q, x[1]) /\ SideOK(P, W, x, d) /\ Spent(P, W, x, q)
      BY <2>4 DEF OffersOK, PairOK
    <3>2. /\ Creates(d, Self(x[1]))
          /\ Creator(P[q]) /\ ~Ahead(P[q]) /\ OneOffer(W, d, x[1])
      BY <2>2, <2>4, <3>1 DEF SideOK
    <3>3. ~Creates(x[1], Self(d))
      BY <1>0, <3>2, OneCreates
    <3> QED BY <2>2, <2>4, <3>1, <3>2, <3>3 DEF SideOK, Spent
  <2> QED BY <2>1, <2>3, <2>4
<1>1. PostedOK(P2, W2)
  BY <1>b, <1>d DEF OffersOK, PostedOK
<1>2. LoneOK(P2, W2)
  <2> SUFFICES ASSUME NEW p \in Peer, NEW c \in Client, Current(P2, p, c), Lone(P2, p, c)
               PROVE  SideOK(P2, W2, p, c) /\ None(P2[p].jobs, Taken)
    BY DEF LoneOK
  <2>1. Current(P, p, c) /\ Lone(P, p, c) /\ Live(P, p, c)
    BY <1>0, <1>d DEF Lone, Current
  <2>2. p # x
    BY <1>f, <2>1
  <2>3. SideOK(P, W, p, c) /\ None(P[p].jobs, Taken)
    BY <2>1 DEF OffersOK, LoneOK
  <2> QED BY <1>e, <2>2, <2>3
<1>3. PairOK(P2, W2)
  <2> SUFFICES ASSUME NEW p \in Peer, NEW q \in Peer, Current(P2, p, q[1]), Current(P2, q, p[1])
               PROVE  SideOK(P2, W2, p, q[1]) /\ Spent(P2, W2, p, q)
    BY DEF PairOK
  <2>1. /\ Current(P, p, q[1]) /\ Current(P, q, p[1])
        /\ Live(P, p, q[1]) /\ Live(P, q, p[1])
    BY <1>0, <1>d DEF Current
  <2>2. SideOK(P, W, p, q[1]) /\ Spent(P, W, p, q)
    BY <2>1 DEF OffersOK, PairOK
  <2>3. CASE p = x
    <3>1. /\ q[1] # x[1] /\ ~Creates(x[1], Self(q[1]))
          /\ ~Ahead(P[q]) /\ OneOffer(W, q[1], x[1])
          /\ Taker(P[x]) /\ NoOffer(W, x[1], q[1]) /\ None(P[x].jobs, Taken)
          /\ f.from = Self(q[1])
      BY <1>0, <1>f, <2>1, <2>3
    <3>2. P2[p] = u /\ P2[q] = P[q] /\ Taker(u)
      BY <2>3, <3>1
    <3>3. NoOffer(W2, x[1], q[1]) /\ NoOffer(W2, q[1], x[1])
      BY <1>0, <1>b, <1>c, <3>1
    <3> QED BY <2>3, <3>1, <3>2, <3>3 DEF SideOK, Spent
  <2>4. CASE p # x /\ q = x
    <3>1. ~Creates(x[1], Self(p[1]))
      BY <1>0, <1>f, <2>1, <2>4
    <3> QED BY <1>0, <1>e, <2>2, <2>4, <3>1 DEF Spent
  <2>5. CASE p # x /\ q # x
    <3>1. P2[p] = P[p] /\ P2[q] = P[q] /\ (NoOffer(W, q[1], p[1]) => NoOffer(W2, q[1], p[1]))
      BY <1>0, <1>b, <2>5
    <3> QED BY <1>0, <1>e, <2>2, <2>5, <3>1 DEF Spent
  <2> QED BY <2>3, <2>4, <2>5
<1> QED BY <1>1, <1>2, <1>3 DEF OffersOK

-----------------------------------------------------------------------------
(* Offers, step by step.                                                   *)

Offered == OffersOK(peer, wire)
Unknown(c) == {f \in Frame : f.from \notin Known(c)}

\* What a client has heard of is no later than what there is, and whoever is
\* offline hears nothing.
Bounded ==
  /\ \A c \in Client : closed[c] => ~online[c]
  /\ \A c \in Client : ~online[c] /\ ~closed[c] => wire[c] = <<>>
  /\ \A c \in Client : None(wire[c], Unknown(c))
  /\ \A p \in Peer : peer[p].remote \in Known(p[1]) \cup {NoToken}
  /\ \A p \in Peer : peer[p].mapped => peer[p].born <= conn[p[1]]

\* While the tokens stay, it is all about the peers and the wires.
LEMMA SameTokens ==
  ASSUME UNCHANGED <<conn, online>>, OffersOK(peer', wire')
  PROVE  Offered'
<1>1. \A c, d : /\ NoOffer(wire, d, c)' <=> NoOffer(wire', d, c)
                /\ OneOffer(wire, d, c)' <=> OneOffer(wire', d, c)
                /\ Creates(c, Self(d))' <=> Creates(c, Self(d))
  BY DEF NoOffer, OneOffer, Creates, Self
<1>2. \A p, c : /\ Live(peer, p, c)' <=> Live(peer', p, c)
                /\ Current(peer, p, c)' <=> Current(peer', p, c)
  BY DEF Live, Current, Self
<1>3. PostedOK(peer, wire)'
  BY <1>1, <1>2 DEF OffersOK, PostedOK
<1>4. \A p, c : Lone(peer, p, c)' => Lone(peer', p, c)
  BY <1>2 DEF Lone
<1>5. \A p, c : SideOK(peer', wire', p, c) => SideOK(peer, wire, p, c)'
  BY <1>1 DEF SideOK
<1>6. \A p, q : Spent(peer', wire', p, q) => Spent(peer, wire, p, q)'
  BY <1>1 DEF Spent
<1>7. LoneOK(peer, wire)'
  BY <1>2, <1>4, <1>5 DEF OffersOK, LoneOK
<1>8. PairOK(peer, wire)'
  BY <1>2, <1>5, <1>6 DEF OffersOK, PairOK
<1> QED BY <1>3, <1>7, <1>8 DEF Offered, OffersOK

\* What happens at one client that has no current peers then, and no offers on
\* their way to it or from it, does not concern the others.
LEMMA ElseOffers ==
  ASSUME Inv, Offered, NEW e \in Client,
         \A c \in Client : c # e =>
           conn'[c] = conn[c] /\ online'[c] = online[c] /\ wire'[c] = wire[c],
         \A p \in Peer : p[1] # e => peer'[p] = peer[p],
         \A p \in Peer, c \in Client : p[1] = e \/ c = e => ~Current(peer, p, c)',
         \A c, d \in Client : (c = e \/ d = e) /\ online'[c] /\ online'[d] /\ c # d
           => NoOffer(wire, d, c)'
  PROVE  Offered'
<1>0. \A p \in Peer : p[1] \in Client
  BY DEF Peer
<1>1. \A c, d \in Client : c # e /\ d # e =>
        /\ NoOffer(wire, d, c)' <=> NoOffer(wire, d, c)
        /\ OneOffer(wire, d, c)' <=> OneOffer(wire, d, c)
        /\ Creates(c, Self(d))' <=> Creates(c, Self(d))
  BY DEF NoOffer, OneOffer, Creates, Self
<1>2. \A p \in Peer, c \in Client : p[1] # e /\ c # e =>
        /\ Live(peer, p, c)' <=> Live(peer, p, c)
        /\ Current(peer, p, c)' <=> Current(peer, p, c)
  BY <1>0 DEF Live, Current, Self
<1>3. PostedOK(peer, wire)'
  <2> SUFFICES ASSUME NEW c \in Client, NEW d \in Client,
                      c # d, online'[c], online'[d], ~NoOffer(wire, d, c)'
               PROVE  \E p \in Peer : p[1] = d /\ Live(peer, p, c)'
    BY DEF PostedOK
  <2>1. c # e /\ d # e
    OBVIOUS
  <2>2. online[c] /\ online[d] /\ ~NoOffer(wire, d, c)
    BY <1>1, <2>1
  <2>3. PICK p \in Peer : p[1] = d /\ Live(peer, p, c)
    BY <2>2 DEF Offered, OffersOK, PostedOK
  <2> QED BY <1>2, <2>1, <2>3
<1>4. \A p \in Peer, c \in Client : p[1] # e /\ c # e /\ Lone(peer, p, c)' => Lone(peer, p, c)
  BY <1>0, <1>2 DEF Lone
<1>5. \A p \in Peer, c \in Client : p[1] # e /\ c # e =>
        (SideOK(peer, wire, p, c) => SideOK(peer, wire, p, c)')
  BY <1>0, <1>1 DEF SideOK
<1>6. \A p, q \in Peer : p[1] # e /\ q[1] # e =>
        (Spent(peer, wire, p, q) => Spent(peer, wire, p, q)')
  BY <1>0, <1>1 DEF Spent
<1>7. LoneOK(peer, wire)'
  <2> SUFFICES ASSUME NEW p \in Peer, NEW c \in Client,
                      Current(peer, p, c)', Lone(peer, p, c)'
               PROVE  SideOK(peer, wire, p, c)' /\ None(peer'[p].jobs, Taken)
    BY DEF LoneOK
  <2>1. p[1] # e /\ c # e
    OBVIOUS
  <2>2. SideOK(peer, wire, p, c) /\ None(peer[p].jobs, Taken)
    BY <1>2, <1>4, <2>1 DEF Offered, OffersOK, LoneOK
  <2> QED BY <1>5, <2>1, <2>2
<1>8. PairOK(peer, wire)'
  <2> SUFFICES ASSUME NEW p \in Peer, NEW q \in Peer,
                      Current(peer, p, q[1])', Current(peer, q, p[1])'
               PROVE  SideOK(peer, wire, p, q[1])' /\ Spent(peer, wire, p, q)'
    BY DEF PairOK
  <2>1. p[1] # e /\ q[1] # e
    BY <1>0
  <2>2. SideOK(peer, wire, p, q[1]) /\ Spent(peer, wire, p, q)
    BY <1>0, <1>2, <2>1 DEF Offered, OffersOK, PairOK
  <2> QED BY <1>0, <1>5, <1>6, <2>1, <2>2
<1> QED BY <1>3, <1>7, <1>8 DEF Offered, OffersOK

\* While no token is new, a client has heard of the same ones.
LEMMA KnownSame ==
  ASSUME UNCHANGED conn
  PROVE  \A c : Known(c)' = Known(c) /\ Unknown(c)' = Unknown(c)
BY DEF Known, Unknown

\* A client's token is one.
LEMMA SelfToken ==
  ASSUME Inv, NEW c \in Client
  PROVE  Self(c) \in Token /\ conn[c] \in Nat
<1>1. conn[c] \in 1 .. MaxConns[c]
  BY Assumptions DEF Inv
<1> QED BY <1>1 DEF Self, Token

\* What a signal leaves on the wires.
LEMMA SignalWire ==
  ASSUME Inv, Bounded, NEW x \in Peer, NEW t \in Known(x[1]) \cup {NoToken},
         NEW kind \in {"none", "start", "offer", "answer", "ice"}, Signal(x[1], t, kind, x)
  PROVE  /\ \A c, d \in Client :
              LET posted == kind = "offer" /\ d = x[1] /\ t = Self(c) IN
              /\ NoOffer(wire, d, c) => /\ OneOffer(wire', d, c)
                                        /\ NoOffer(wire', d, c) \/ posted
              /\ OneOffer(wire, d, c) => OneOffer(wire', d, c) \/ posted
         /\ \A c \in Client : /\ None(wire'[c], Unknown(c))
                              /\ wire'[c] = wire[c] \/ online[c]
<1>0. x[1] \in Client /\ wire \in [Client -> Seq(Frame)]
  BY DEF Peer, Inv
<1>a. \A c, d \in Client : NoOffer(wire, d, c) => OneOffer(wire, d, c)
  BY NoneOne DEF NoOffer, OneOffer
<1>1. CASE \A c \in Client : wire'[c] = wire[c]
  BY <1>1, <1>a DEF Bounded, NoOffer, OneOffer
<1>2. CASE ~\A c \in Client : wire'[c] = wire[c]
  <2> DEFINE f == [kind |-> kind, from |-> Self(x[1]), by |-> x]
             e == t[1]
  <2>1. kind # "none" /\ online[x[1]] /\ Alive(t) /\ wire' = [wire EXCEPT ![e] = Append(@, f)]
    BY <1>2 DEF Signal
  <2>2. Self(x[1]) \in Token /\ f \in Frame
    BY <1>0, <2>1, SelfToken DEF Frame
  <2>3. f.kind = kind /\ f.from = Self(x[1])
    OBVIOUS
  <2> HIDE DEF f
  <2>4. wire' = [c \in Client |-> IF c = e THEN Append(wire[c], f) ELSE wire[c]]
    BY <1>0, <2>1
  <2>5. t # NoToken
    BY <1>2, <2>4, Assumptions DEF NoToken
  <2>6. t \in Token /\ e # x[1]
    BY <2>5 DEF Known
  <2>7. e \in Client /\ t = <<e, t[2]>>
    BY <2>6 DEF Token
  <2>8. t = Self(e) /\ online[e]
    BY <2>1, <2>7 DEF Alive, Self
  <2>9. f.from \in Known(e)
    BY <1>0, <2>2, <2>3, <2>6, SelfToken DEF Known, Self
  <2>10. \A d \in Client : f \in OfferOf(Self(d)) => kind = "offer" /\ d = x[1]
    BY <2>3 DEF OfferOf, Self
  <2>11. f \notin Unknown(e)
    BY <2>9 DEF Unknown
  <2>12. \A K : /\ None(wire'[e], K) <=> None(wire[e], K) /\ f \notin K
                /\ One(wire[e], K) /\ f \notin K => One(wire'[e], K)
                /\ None(wire[e], K) => One(wire'[e], K)
    BY <1>0, <2>2, <2>4, <2>7, AppendNone
  <2>13. \A c \in Client : c # e => wire'[c] = wire[c]
    BY <2>4
  <2> HIDE DEF e
  <2>14. ASSUME NEW d \in Client
         PROVE  LET posted == kind = "offer" /\ d = x[1] IN
                /\ NoOffer(wire, d, e) => OneOffer(wire', d, e) /\ (NoOffer(wire', d, e) \/ posted)
                /\ OneOffer(wire, d, e) => OneOffer(wire', d, e) \/ posted
    BY <2>10, <2>12 DEF NoOffer, OneOffer
  <2>15. ASSUME NEW c \in Client, c # e, NEW d \in Client
         PROVE  /\ NoOffer(wire', d, c) <=> NoOffer(wire, d, c)
                /\ OneOffer(wire', d, c) <=> OneOffer(wire, d, c)
    BY <2>13, <2>15 DEF NoOffer, OneOffer
  <2>16. None(wire'[e], Unknown(e))
    BY <2>7, <2>11, <2>12 DEF Bounded
  <2> QED BY <1>a, <2>8, <2>13, <2>14, <2>15, <2>16 DEF Bounded
<1> QED BY <1>1, <1>2

\* One peer in the map of a remote.
LEMMA InvOneOfEach == Inv => OneOfEach(peer)
BY DEF Inv, PeersOK, MapOK, OneOfEach

\* A step of one peer that does not put it in the map.
LEMMA MoveOffers ==
  ASSUME Inv, Bounded, Offered, NEW x \in Peer, NEW u,
         NEW kind \in {"none", "start", "offer", "answer", "ice"},
         peer' = [peer EXCEPT ![x] = u], Signal(x[1], u.remote, kind, x),
         UNCHANGED <<conn, online, closed>>,
         u.remote = peer[x].remote,
         u.mapped => /\ peer[x].mapped /\ u.born = peer[x].born
                     /\ Moves(x[1], peer[x], u, kind = "offer"),
         peer[x].mapped /\ ~u.mapped => ~Alive(peer[x].remote),
         kind = "offer" => u.mapped
  PROVE  Bounded' /\ Offered'
<1> DEFINE sent == kind = "offer"
<1>1. \A y \in Peer : peer'[y] = IF y = x THEN u ELSE peer[y]
  BY DEF Inv, PeersOK
<1>2. u.remote \in Known(x[1]) \cup {NoToken}
  BY DEF Bounded
<1>3. /\ \A c, d \in Client :
           LET posted == sent /\ d = x[1] /\ u.remote = Self(c) IN
           /\ NoOffer(wire, d, c) => /\ OneOffer(wire', d, c)
                                     /\ NoOffer(wire', d, c) \/ posted
           /\ OneOffer(wire, d, c) => OneOffer(wire', d, c) \/ posted
      /\ \A c \in Client : /\ None(wire'[c], Unknown(c))
                           /\ wire'[c] = wire[c] \/ online[c]
  BY <1>2, SignalWire
<1>4. \A c \in Client : online[c] => Alive(Self(c))
  BY DEF Alive, Self
<1>5. StepOf(peer, wire, peer', wire', x, u, sent)
  BY <1>1, <1>3, <1>4 DEF StepOf, Posted
<1>6. Offered'
  BY <1>5, InvOneOfEach, StepOffers, SameTokens DEF Offered
<1>7. Bounded'
  BY <1>1, <1>3, KnownSame DEF Bounded
<1> QED BY <1>6, <1>7

\* The peers with one of them changed.
With(x, r) == [peer EXCEPT ![x] = r]

\* _ensurePeer finds a peer or makes one, and neither offers anything.
LEMMA EnsureOffers ==
  ASSUME Inv, Bounded, Offered, NEW c \in Client, NEW t \in Known(c),
         NEW x \in EnsurePeer(c, t), NEW r, r = Ensured(x, t),
         NEW P, P = With(x, r)
  PROVE  /\ x \in Peer /\ x[1] = c
         /\ Sound(r) /\ r.mapped /\ r.remote = t /\ r.born <= conn[c]
         /\ peer[x].mapped => r = peer[x]
         /\ \A y \in Peer : P[y] = IF y = x THEN r ELSE peer[y]
         /\ OneOfEach(P) /\ OffersOK(P, wire)
<1>0. t \in Token /\ t[1] # c
  BY DEF Known
<1>1. x \in Peer /\ x[1] = c /\ Sound(r) /\ r.mapped /\ r.remote = t
  BY <1>0, EnsureStep
<1>2. \A y \in Peer : P[y] = IF y = x THEN r ELSE peer[y]
  BY <1>1 DEF Inv, PeersOK, With
<1>3. CASE peer[x].mapped
  <2>1. r = peer[x]
    BY <1>3 DEF Ensured
  <2>2. P = peer
    BY <1>1, <2>1 DEF Inv, PeersOK, With
  <2> QED BY <1>1, <1>2, <1>3, <2>1, <2>2, InvOneOfEach DEF Bounded, Offered
<1>4. CASE ~peer[x].mapped
  <2>1. \A y \in Peer : y[1] = c /\ peer[y].mapped => peer[y].remote # t
    BY <1>4 DEF EnsurePeer, Mapped
  <2> DEFINE u == [Fresh EXCEPT !.remote = t, !.mapped = TRUE, !.born = conn[c]]
  <2>2. r = u
    BY <1>1, <1>4 DEF Ensured
  <2>3. /\ u.remote = t /\ u.dc = "none" /\ ~u.needed /\ ~u.makingOffer
        /\ u.signaling = "stable" /\ u.jobs = <<>> /\ u.born = conn[c]
    BY DEF Fresh
  <2> HIDE DEF u
  <2>a. /\ r.remote = t /\ r.dc = "none" /\ ~r.needed /\ ~r.makingOffer
        /\ r.signaling = "stable" /\ r.jobs = <<>>
    BY <2>2, <2>3
  <2>b. t[1] # x[1] /\ \A y \in Peer : y[1] = x[1] /\ peer[y].mapped => peer[y].remote # t
    BY <1>0, <1>1, <2>1
  <2>c. MadeOf(peer, P, x, r, t)
    BY <1>2, <1>4, <2>a, <2>b DEF MadeOf
  <2>4. OffersOK(P, wire)
    BY <1>1, <2>b, <2>c, CreateOffers DEF Offered
  <2>5. OneOfEach(P)
    BY <1>1, <1>2, <2>1, InvOneOfEach DEF OneOfEach
  <2>6. r.born <= conn[c]
    BY <2>2, <2>3, SelfToken
  <2> QED BY <1>1, <1>2, <1>4, <2>4, <2>5, <2>6
<1> QED BY <1>3, <1>4

\* What is done to it then, that offers nothing at once.
LEMMA EnsuredOffers ==
  ASSUME Inv, Bounded, Offered, NEW c \in Client, NEW t \in Known(c),
         NEW x \in EnsurePeer(c, t), NEW r, r = Ensured(x, t), NEW u,
         peer' = [peer EXCEPT ![x] = u], UNCHANGED <<conn, online, closed>>,
         u.mapped, u.remote = t, u.born = r.born, Moves(c, r, u, FALSE),
         \A a, b \in Client :
           /\ NoOffer(wire, b, a) => NoOffer(wire', b, a)
           /\ OneOffer(wire, b, a) => OneOffer(wire', b, a),
         \A a \in Client : /\ None(wire'[a], Unknown(a))
                           /\ wire[a] = <<>> => wire'[a] = <<>> \/ online[a]
  PROVE  Bounded' /\ Offered'
<1> DEFINE P == With(x, r)
<1>1. /\ x \in Peer /\ x[1] = c
      /\ r.mapped /\ r.remote = t /\ r.born <= conn[c]
      /\ \A y \in Peer : P[y] = IF y = x THEN r ELSE peer[y]
      /\ OneOfEach(P) /\ OffersOK(P, wire)
  BY EnsureOffers
<1>2. \A y \in Peer : peer'[y] = IF y = x THEN u ELSE peer[y]
  BY <1>1 DEF Inv, PeersOK
<1> HIDE DEF P
<1>3. \A y \in Peer : peer'[y] = IF y = x THEN u ELSE P[y]
  BY <1>1, <1>2
<1>a. \A a, b \in Client : NoOffer(wire', b, a) => OneOffer(wire', b, a)
  BY NoneOne DEF NoOffer, OneOffer
<1>4. StepOf(P, wire, peer', wire', x, u, FALSE)
  BY <1>1, <1>3, <1>a DEF StepOf
<1>5. Offered'
  BY <1>1, <1>4, StepOffers, SameTokens
<1>6. Bounded'
  BY <1>1, <1>2, KnownSame DEF Bounded
<1> QED BY <1>5, <1>6

\* A connection made does not change what token its client had.
LEMMA CreatePCBorn ==
  ASSUME NEW c, NEW r \in PeerState PROVE CreatePC(c, r).born = r.born
BY DEF CreatePC, PeerState

\* Nor does a negotiation that begins,
LEMMA StartBorn ==
  ASSUME NEW c \in Client, NEW r, Sound(r), r.mapped
  PROVE  StartNegotiation(c, r).born = r.born
<1> DEFINE s == CreatePC(c, r)
<1>1. s \in PeerState /\ s.born = r.born
  BY CreatePCSound, CreatePCBorn DEF Sound, Almost
<1> HIDE DEF s
<1> QED BY <1>1 DEF StartNegotiation, PeerState, s

\* nor a signal,
LEMMA SignalBorn ==
  ASSUME NEW c \in Client, NEW f, NEW r, Sound(r), r.mapped,
         f.kind \in {"start", "offer", "answer", "ice"}
  PROVE  AfterSignal(c, f, r).born = r.born
<1>0. r \in PeerState
  BY DEF Sound, Almost
<1>1. CASE f.kind = "start"
  <2> DEFINE s == [r EXCEPT !.negotiating = FALSE]
  <2>1. s \in PeerState
    BY <1>0 DEF PeerState
  <2>2. /\ s.mapped = r.mapped /\ s.closing = r.closing /\ s.remote = r.remote
        /\ s.jobs = r.jobs /\ s.sockets = r.sockets /\ s.pc = r.pc /\ s.needed = r.needed
        /\ s.born = r.born
    BY <1>0 DEF PeerState
  <2>3. AfterSignal(c, f, r) \in {r, StartNegotiation(c, s)}
    BY <1>1 DEF AfterSignal
  <2> HIDE DEF s
  <2>4. r.pc = "none" => ~r.needed
    BY DEF Sound, Almost
  <2>5. Sound(s)
    BY <2>1, <2>2, <2>4, SameSound
  <2> QED BY <2>2, <2>3, <2>5, StartBorn
<1>2. CASE f.kind # "start"
  BY <1>0, <1>2 DEF AfterSignal, PeerState
<1> QED BY <1>1, <1>2

\* nor an answer.
LEMMA AnsweredBorn ==
  ASSUME NEW r \in PeerState, NEW kind
  PROVE  Answered(r, kind).born = r.born
BY DEF Answered, Describe, PeerState

\* The application sends, or asks for a channel.
LEMMA TrySendOffers ==
  ASSUME Inv, Bounded, Offered, NEW c \in Client, NEW t \in Token,
         TrySend(c, t) \/ Connect(c, t)
  PROVE  Bounded' /\ Offered'
<1>1. /\ t \in Known(c) /\ UNCHANGED <<conn, online, closed>>
      /\ \E x \in EnsurePeer(c, t), r \in {Ensured(q, t) : q \in EnsurePeer(c, t)} :
           /\ r = Ensured(x, t)
           /\ \/ Becomes(x, r, "none")
              \/ Becomes(x, StartNegotiation(c, r), Request(c, r))
              \/ Becomes(x, [StartNegotiation(c, r) EXCEPT !.waiting = TRUE], Request(c, r))
  BY DEF TrySend, Connect
<1>2. PICK x \in EnsurePeer(c, t), r \in {Ensured(q, t) : q \in EnsurePeer(c, t)} :
           /\ r = Ensured(x, t)
           /\ \/ Becomes(x, r, "none")
              \/ Becomes(x, StartNegotiation(c, r), Request(c, r))
              \/ Becomes(x, [StartNegotiation(c, r) EXCEPT !.waiting = TRUE], Request(c, r))
  BY <1>1
<1>3. x \in Peer /\ x[1] = c /\ Sound(r) /\ r.mapped /\ r.remote = t
  BY <1>1, <1>2, EnsureOffers
<1> DEFINE s == StartNegotiation(c, r)
           w == [s EXCEPT !.waiting = TRUE]
<1>4. /\ Sound(s) /\ s.mapped /\ s.remote = t /\ s.born = r.born
      /\ Moves(c, r, s, FALSE)
  BY <1>3, StartSound, StartMoves, StartBorn
<1>5. PICK kind \in {"none", "start"}, u \in {r, s, w} : Becomes(x, u, kind)
  BY <1>2 DEF Request
<1> HIDE DEF s
<1>6. w.mapped /\ w.remote = t /\ w.born = r.born /\ Alike(s, w)
  BY <1>4 DEF Sound, Almost, PeerState, Alike
<1> HIDE DEF w
<1>7. Moves(c, r, w, FALSE) /\ Moves(c, r, r, FALSE)
  BY <1>4, <1>6, MovesAlike, AlikeMoves DEF Alike
<1>8. u.mapped /\ u.remote = t /\ u.born = r.born /\ Moves(c, r, u, FALSE)
  BY <1>3, <1>4, <1>5, <1>6, <1>7
<1>9. peer' = [peer EXCEPT ![x] = u] /\ Signal(x[1], t, kind, x)
  BY <1>5, <1>8 DEF Becomes
<1>10. t \in Known(x[1]) \cup {NoToken}
  BY <1>1, <1>3
<1>11. /\ \A a, b \in Client :
            /\ NoOffer(wire, b, a) => NoOffer(wire', b, a)
            /\ OneOffer(wire, b, a) => OneOffer(wire', b, a)
       /\ \A a \in Client : /\ None(wire'[a], Unknown(a))
                            /\ wire'[a] = wire[a] \/ online[a]
  BY <1>3, <1>9, <1>10, SignalWire
<1> QED BY <1>1, <1>2, <1>8, <1>9, <1>11, EnsuredOffers

\* A signal arrives.
LEMMA ReceiveOffers ==
  ASSUME Inv, Bounded, Offered, NEW c \in Client, Receive(c)
  PROVE  Bounded' /\ Offered'
<1> DEFINE f == Head(wire[c])
<1>1. /\ wire \in [Client -> Seq(Frame)] /\ wire[c] # <<>> /\ wire[c] \in Seq(Frame)
      /\ UNCHANGED <<conn, online, closed>>
  BY DEF Receive, Inv
<1>2. \A a \in Client : wire'[a] = IF a = c THEN Tail(wire[a]) ELSE wire[a]
  BY <1>1 DEF Receive
<1>3. f \in Frame /\ \A K : /\ None(wire[c], K) => None(wire'[c], K) /\ f \notin K
                            /\ One(wire[c], K) => One(wire'[c], K)
  BY <1>1, <1>2, TailNone
<1>4. f.from \in Known(c)
  BY <1>3 DEF Bounded, Unknown
<1> HIDE DEF f
<1>5. /\ \A a, b \in Client :
           /\ NoOffer(wire, b, a) => NoOffer(wire', b, a)
           /\ OneOffer(wire, b, a) => OneOffer(wire', b, a)
      /\ \A a \in Client : /\ None(wire'[a], Unknown(a))
                           /\ wire[a] = <<>> => wire'[a] = wire[a]
  BY <1>1, <1>2, <1>3 DEF NoOffer, OneOffer, Bounded
<1>6. CASE closed[c]
  <2>1. peer' = peer /\ ~online[c]
    BY <1>6 DEF Receive, Listens, Bounded
  <2>2. Bounded'
    BY <1>1, <1>5, <2>1, KnownSame DEF Bounded
  <2>3. \A p \in Peer, a \in Client : p[1] = c \/ a = c => ~Current(peer, p, a)'
    BY <1>1, <2>1 DEF Current, Live
  <2>4. Offered'
    BY <1>1, <1>2, <2>1, <2>3, ElseOffers
  <2> QED BY <2>2, <2>4
<1>7. CASE ~closed[c]
  <2>1. \E x \in EnsurePeer(c, f.from) :
          peer' = [peer EXCEPT ![x] = AfterSignal(c, f, CreatePC(c, Ensured(x, f.from)))]
    BY <1>7 DEF Receive, Listens, f
  <2>2. PICK x \in EnsurePeer(c, f.from), r \in {Ensured(q, f.from) : q \in EnsurePeer(c, f.from)} :
          /\ r = Ensured(x, f.from)
          /\ peer' = [peer EXCEPT ![x] = AfterSignal(c, f, CreatePC(c, r))]
    BY <2>1
  <2> DEFINE s == CreatePC(c, r)
             u == AfterSignal(c, f, s)
             P == With(x, r)
  <2>3. /\ x \in Peer /\ x[1] = c
        /\ Sound(r) /\ r.mapped /\ r.remote = f.from
        /\ \A y \in Peer : P[y] = IF y = x THEN r ELSE peer[y]
        /\ OneOfEach(P) /\ OffersOK(P, wire)
    BY <1>4, <2>2, EnsureOffers
  <2>4. /\ Sound(s) /\ s.mapped /\ s.remote = f.from /\ s.pc \notin {"none", "closed"}
        /\ Alike(r, s) /\ s.born = r.born
    BY <2>3, CreatePCSound, CreatePCAlike, CreatePCBorn DEF Sound, Almost
  <2> HIDE DEF s, P
  <2>5. f.kind \in {"start", "offer", "answer", "ice"}
    BY <1>3 DEF Frame
  <2>6. u.mapped /\ u.remote = f.from /\ u.born = r.born
    BY <1>3, <2>4, <2>5, AfterSignalSound, SignalBorn
  <2>7. peer' = [peer EXCEPT ![x] = u]
    BY <2>2 DEF s
  <2>8. CASE f.kind # "offer" \/ Ignores(f, s)
    <3>1. Moves(c, s, u, FALSE)
      BY <1>3, <2>4, <2>8, SignalMoves
    <3>2. Moves(c, r, u, FALSE)
      BY <2>3, <2>4, <3>1, AlikeThenMoves
    <3> HIDE DEF u
    <3>3. \A a \in Client : wire[a] = <<>> => wire'[a] = <<>> \/ online[a]
      BY <1>5
    <3> QED BY <1>1, <1>4, <1>5, <2>2, <2>6, <2>7, <3>2, <3>3, EnsuredOffers
  <2>9. CASE f.kind = "offer" /\ ~Ignores(f, s)
    <3>1. Taker(r) /\ None(r.jobs, Taken) => Taker(u)
      <4>1. Taker(r) /\ None(r.jobs, Taken) => Taker(s) /\ None(s.jobs, Taken)
        BY <2>4 DEF Alike, Taker
      <4> QED BY <1>3, <2>4, <2>9, <4>1, OfferTaken
    <3> HIDE DEF u
    <3>2. \A y \in Peer : peer'[y] = IF y = x THEN u ELSE peer[y]
      BY <2>7 DEF Inv, PeersOK
    <3>3. \A y \in Peer : peer'[y] = IF y = x THEN u ELSE P[y]
      BY <2>3, <3>2
    <3>4. P[x] = r /\ f.from[1] # c
      BY <1>4, <2>3 DEF Known
    <3>a. TakenOf(P, wire, peer', wire', x, u, f)
      BY <1>1, <1>2, <2>3, <2>6, <3>3, <3>4 DEF TakenOf, f
    <3>5. OffersOK(peer', wire')
      BY <1>1, <2>3, <2>9, <3>1, <3>4, <3>a, TakeOffers
    <3>6. Offered'
      BY <1>1, <3>5, SameTokens
    <3>7. r.born <= conn[c] /\ (peer[x].mapped => r = peer[x])
      BY <1>4, <2>2, EnsureOffers
    <3>8. Bounded'
      BY <1>1, <1>4, <1>5, <2>3, <2>6, <3>2, <3>7, KnownSame DEF Bounded
    <3> QED BY <3>6, <3>8
  <2> QED BY <2>8, <2>9
<1> QED BY <1>6, <1>7

\* A step of one peer that sends nothing,
LEMMA SilentOffers ==
  ASSUME Inv, Bounded, Offered, NEW x \in Peer, NEW u, peer' = [peer EXCEPT ![x] = u],
         UNCHANGED <<conn, online, closed, wire>>,
         u.remote = peer[x].remote,
         u.mapped => /\ peer[x].mapped /\ u.born = peer[x].born
                     /\ Moves(x[1], peer[x], u, FALSE),
         peer[x].mapped /\ ~u.mapped => ~Alive(peer[x].remote)
  PROVE  Bounded' /\ Offered'
<1> DEFINE kind == "none"
<1>1. Signal(x[1], u.remote, kind, x)
  BY DEF Signal
<1>2. /\ kind \in {"none", "start", "offer", "answer", "ice"}
      /\ (kind = "offer") = FALSE
  OBVIOUS
<1> HIDE DEF kind
<1> QED BY <1>1, <1>2, MoveOffers

\* and one that has nothing to do with offers.
LEMMA QuietOffers ==
  ASSUME Inv, Bounded, Offered, NEW p \in Peer,
         \/ Announce(p) \/ IceConnects(p) \/ IceDisconnects(p) \/ ClosedEvent(p)
         \/ ChannelArrives(p) \/ ChannelOpens(p) \/ ChannelCloses(p)
  PROVE  Bounded' /\ Offered'
<1> DEFINE Same(u) == /\ u.remote = peer[p].remote /\ u.mapped = peer[p].mapped
                      /\ u.born = peer[p].born /\ Alike(peer[p], u)
<1>0. peer[p] \in PeerState
  BY DEF Inv, PeersOK, Sound, Almost
<1>1. UNCHANGED <<conn, online, closed>>
  BY DEF Announce, IceConnects, IceDisconnects, ClosedEvent, ChannelArrives, ChannelOpens,
         ChannelCloses
<1>2. ASSUME NEW u, Same(u), peer' = [peer EXCEPT ![p] = u], UNCHANGED wire
      PROVE  Bounded' /\ Offered'
  BY <1>1, <1>2, SilentOffers, AlikeMoves
<1>3. CASE Announce(p)
  <2> DEFINE u == [peer[p] EXCEPT !.gathered = TRUE]
             kind == "ice"
  <2>1. Same(u)
    BY <1>0 DEF PeerState, Alike
  <2>2. peer' = [peer EXCEPT ![p] = u] /\ Signal(p[1], u.remote, kind, p)
    BY <1>3 DEF Announce, Becomes
  <2>3. /\ kind \in {"none", "start", "offer", "answer", "ice"}
        /\ (kind = "offer") = FALSE
    OBVIOUS
  <2> HIDE DEF u, kind
  <2>4. Moves(p[1], peer[p], u, kind = "offer")
    BY <2>1, <2>3, AlikeMoves
  <2> QED BY <1>1, <2>1, <2>2, <2>3, <2>4, MoveOffers
<1>4. CASE IceConnects(p)
  <2>1. Same([peer[p] EXCEPT !.pc = "connected"])
    BY <1>0 DEF PeerState, Alike
  <2> QED BY <1>2, <1>4, <2>1 DEF IceConnects
<1>5. CASE IceDisconnects(p)
  <2>1. Same([peer[p] EXCEPT !.pc = "disconnected"])
    BY <1>0 DEF PeerState, Alike
  <2> QED BY <1>2, <1>5, <2>1 DEF IceDisconnects
<1>6. CASE ClosedEvent(p)
  <2>1. Same([peer[p] EXCEPT !.waiting = FALSE])
    BY <1>0 DEF PeerState, Alike
  <2> QED BY <1>2, <1>6, <2>1 DEF ClosedEvent
<1>7. CASE ChannelArrives(p)
  <2>1. Same([peer[p] EXCEPT !.dc = "connecting"])
    BY <1>0 DEF PeerState, Alike
  <2> QED BY <1>2, <1>7, <2>1 DEF ChannelArrives
<1>8. CASE ChannelOpens(p)
  <2>1. Same([peer[p] EXCEPT !.dc = "open", !.waiting = FALSE])
    BY <1>0 DEF PeerState, Alike
  <2> QED BY <1>2, <1>8, <2>1 DEF ChannelOpens
<1>9. CASE ChannelCloses(p)
  <2>1. Same([peer[p] EXCEPT !.dc = "closed"])
    BY <1>0 DEF PeerState, Alike
  <2> QED BY <1>2, <1>9, <2>1 DEF ChannelCloses
<1> QED BY <1>3, <1>4, <1>5, <1>6, <1>7, <1>8, <1>9

\* A connection fails.
LEMMA FailedOffers ==
  ASSUME Inv, Bounded, Offered, NEW p \in Peer, Failed(p)
  PROVE  Bounded' /\ Offered'
<1> DEFINE r == peer[p]
           dc == IF r.dc \in {"connecting", "open"} THEN "closing" ELSE r.dc
           s == [r EXCEPT !.pc = "failed", !.failed = TRUE, !.negotiating = FALSE,
                          !.waiting = FALSE]
           u == [s EXCEPT !.dc = dc]
<1>1. r \in PeerState
  BY DEF Inv, PeersOK, Sound, Almost
<1>2. /\ peer' = [peer EXCEPT ![p] = CloseDC(FailPeer([r EXCEPT !.pc = "failed"]))]
      /\ UNCHANGED <<conn, online, closed, wire>>
  BY DEF Failed
<1>a. dc = "none" => r.dc = "none"
  OBVIOUS
<1> HIDE DEF r
<1>3. FailPeer([r EXCEPT !.pc = "failed"]) = s
  BY <1>1 DEF FailPeer, PeerState
<1>4. CloseDC(s) = u
  BY <1>1 DEF CloseDC, PeerState
<1> HIDE DEF dc
<1>5. /\ u.remote = r.remote /\ u.mapped = r.mapped /\ u.born = r.born /\ Alike(r, u)
  BY <1>1, <1>a DEF PeerState, Alike
<1> HIDE DEF u, s
<1>6. Moves(p[1], r, u, FALSE)
  BY <1>5, AlikeMoves
<1> QED BY <1>2, <1>3, <1>4, <1>5, <1>6, SilentOffers DEF r

\* The platform asks for an offer.
LEMMA NegotiationNeededOffers ==
  ASSUME Inv, Bounded, Offered, NEW p \in Peer, NegotiationNeeded(p)
  PROVE  Bounded' /\ Offered'
<1> DEFINE r == peer[p]
           s == [r EXCEPT !.needed = FALSE, !.makingOffer = TRUE]
           u == Describe(s, "offer")
<1>1. /\ r.needed /\ r.jobs = <<>> /\ peer' = [peer EXCEPT ![p] = u]
      /\ UNCHANGED <<conn, online, closed, wire>>
  BY DEF NegotiationNeeded
<1>2. Sound(r) /\ r \in PeerState
  BY DEF Inv, PeersOK, Sound, Almost
<1>a. p[1] \in Client
  BY DEF Peer
<1> HIDE DEF r
<1>3. r.mapped => Moves(p[1], r, u, FALSE)
  <2> SUFFICES ASSUME r.mapped PROVE Moves(p[1], r, u, FALSE)
    OBVIOUS
  <2> QED BY <1>1, <1>2, <1>a, NeededMoves
<1>4. s \in PeerState /\ s.remote = r.remote /\ s.mapped = r.mapped /\ s.born = r.born
  BY <1>2 DEF PeerState
<1> HIDE DEF s
<1>5. u.remote = r.remote /\ u.mapped = r.mapped /\ u.born = r.born
  BY <1>4 DEF Describe, PeerState
<1> HIDE DEF u
<1> QED BY <1>1, <1>3, <1>5, SilentOffers DEF r

\* A description of one's own is set, and sent.
LEMMA DescriptionSetOffers ==
  ASSUME Inv, Bounded, Offered, NEW p \in Peer, DescriptionSet(p)
  PROVE  Bounded' /\ Offered'
<1> DEFINE r == peer[p]
           signaling == IF LocalKind(r) = "answer" THEN "stable" ELSE "have-local-offer"
           making == IF Head(r.jobs).op = "offer" THEN FALSE ELSE r.makingOffer
           set == [r EXCEPT !.signaling = signaling]
           ended == [set EXCEPT !.jobs = Tail(@), !.sockets = TRUE, !.makingOffer = making]
           kind == IF r.closing \/ r.pc = "closed" THEN "none" ELSE LocalKind(r)
           u == CloseIfDone(ended)
<1>1. r.jobs # <<>> /\ Head(r.jobs).op \in {"offer", "answer"}
  BY DEF DescriptionSet
<1>2. Sound(r)
  BY DEF Inv, PeersOK
<1>3. r \in PeerState /\ r.pc # "closed" /\ r.jobs \in Seq(Job) /\ (~r.mapped => r.closing)
  BY <1>1, <1>2, InFlight DEF PeerState
<1>4. peer' = [peer EXCEPT ![p] = u] /\ Signal(p[1], u.remote, kind, p)
  BY <1>1, <1>3 DEF DescriptionSet, Becomes
<1>5. UNCHANGED <<conn, online, closed>> /\ p[1] \in Client
  BY DEF DescriptionSet, Peer
<1>6. /\ kind \in {"none", "start", "offer", "answer", "ice"}
      /\ r.closing => kind = "none"
      /\ ~r.closing => kind = LocalKind(r)
  BY <1>3 DEF LocalKind
<1>7. signaling \in {"stable", "have-local-offer", "have-remote-offer"}
  BY DEF LocalKind
<1>a. signaling = IF LocalKind(r) = "answer" THEN "stable" ELSE "have-local-offer"
  OBVIOUS
<1>b. making \in {r.makingOffer, FALSE}
  OBVIOUS
<1>c. making \in BOOLEAN
  BY <1>3 DEF PeerState
<1>d. Tail(r.jobs) \in Seq(Job)
  BY <1>1, <1>3
<1> HIDE DEF signaling, making, kind, r
<1>8. /\ set \in PeerState /\ set.jobs = r.jobs /\ set.mapped = r.mapped
      /\ set.closing = r.closing /\ set.remote = r.remote /\ set.pc = r.pc
      /\ set.dc = r.dc /\ set.needed = r.needed /\ set.signaling = signaling
      /\ set.born = r.born
  BY <1>3, <1>7 DEF PeerState
<1> HIDE DEF set
<1>9. /\ ended \in PeerState /\ ended.jobs = Tail(r.jobs) /\ ended.mapped = r.mapped
      /\ ended.closing = r.closing /\ ended.remote = r.remote /\ ended.pc = r.pc
      /\ ended.dc = r.dc /\ ended.needed = r.needed /\ ended.signaling = signaling
      /\ ended.makingOffer = making /\ ended.born = r.born
  BY <1>c, <1>d, <1>8 DEF PeerState
<1> HIDE DEF ended
<1>10. (u.mapped => r.mapped) /\ u.remote = r.remote
  BY <1>1, <1>2, <1>9, JobDone
<1>11. CASE r.mapped
  <2>1. ~r.closing
    BY <1>2, <1>11 DEF Sound, Almost
  <2>2. u = ended /\ kind = LocalKind(r)
    BY <1>6, <1>9, <2>1 DEF CloseIfDone
  <2>3. Moves(p[1], r, ended, LocalKind(r) = "offer")
    BY <1>1, <1>2, <1>5, <1>a, <1>b, <1>9, <1>11, SetMoves
  <2> HIDE DEF u
  <2> QED BY <1>4, <1>5, <1>6, <1>9, <1>10, <1>11, <2>2, <2>3, MoveOffers DEF r
<1>12. CASE ~r.mapped
  <2>1. ~u.mapped /\ kind = "none"
    BY <1>3, <1>6, <1>10, <1>12
  <2> HIDE DEF u
  <2> QED BY <1>4, <1>5, <1>6, <1>10, <1>12, <2>1, MoveOffers DEF r
<1> QED BY <1>11, <1>12

\* The other's description is set, or refused.
LEMMA AcceptOffers ==
  ASSUME Inv, Bounded, Offered, NEW p \in Peer, Accept(p)
  PROVE  Bounded' /\ Offered'
<1> DEFINE r == peer[p]
           job == Head(r.jobs)
           signaling == IF job.kind = "offer" THEN "have-remote-offer" ELSE "stable"
           rest == [r EXCEPT !.jobs = Tail(@)]
           set == [rest EXCEPT !.description = job.by, !.signaling = signaling]
           after == [job EXCEPT !.op = "flush"]
           flush == [set EXCEPT !.jobs = Append(@, after)]
           next == IF r.closing THEN set
                   ELSE IF r.pending = {} THEN Answered(set, job.kind) ELSE flush
           valid == r.pc # "closed" /\ (job.kind = "answer" => r.signaling = "have-local-offer")
           v == IF valid THEN next ELSE rest
           u == CloseIfDone(v)
<1>1. /\ r.jobs # <<>> /\ job.op = "accept" /\ peer' = [peer EXCEPT ![p] = u]
      /\ UNCHANGED <<conn, online, closed, wire>>
  BY DEF Accept
<1>2. Sound(r)
  BY DEF Inv, PeersOK
<1>a. p[1] \in Client
  BY DEF Peer
<1>3. r \in PeerState /\ r.pc \notin {"none", "closed"} /\ (~r.mapped => r.closing)
  BY <1>1, <1>2, InFlight
<1>4. r.mapped => ~r.closing
  BY SMTT(30), <1>2 DEF Sound, Almost
<1>5. r.mapped => Moves(p[1], r, v, FALSE)
  <2> SUFFICES ASSUME r.mapped PROVE Moves(p[1], r, v, FALSE)
    OBVIOUS
  <2> HIDE DEF r
  <2> QED BY <1>1, <1>2, <1>a, AcceptMoves
<1>6. r.jobs \in Seq(Job) /\ job \in Job /\ Tail(r.jobs) \in Seq(Job)
  BY <1>1, <1>3 DEF PeerState
<1>7. /\ signaling \in {"stable", "have-local-offer", "have-remote-offer"}
      /\ job.by \in Peer \cup {NoPeer}
  BY <1>6 DEF Job
<1>8. after \in Job
  BY <1>6 DEF Job
<1> HIDE DEF r, job, signaling, after, valid
<1> DEFINE Like(w) == /\ w \in PeerState /\ w.remote = r.remote /\ w.born = r.born
                      /\ w.mapped = r.mapped /\ w.closing = r.closing /\ w.pc = r.pc
<1>9. Like(rest) /\ rest.jobs = Tail(r.jobs)
  BY <1>3, <1>6 DEF PeerState
<1> HIDE DEF rest
<1>10. Like(set) /\ set.jobs = Tail(r.jobs)
  BY <1>7, <1>9 DEF PeerState
<1> HIDE DEF set
<1>11. Append(set.jobs, after) \in Seq(Job)
  BY <1>6, <1>8, <1>10, AppendBusy
<1>12. Like(flush)
  BY <1>10, <1>11 DEF PeerState
<1> HIDE DEF flush
<1>13. CASE r.mapped
  <2>1. \A w \in {rest, set, flush} : Sound(w)
    <3> SUFFICES ASSUME NEW w \in {rest, set, flush} PROVE Sound(w)
      OBVIOUS
    <3>1. Like(w)
      BY <1>9, <1>10, <1>12
    <3> QED BY <1>1, <1>2, <1>13, <3>1, JobDone DEF job
  <2>2. Answered(set, job.kind).mapped = r.mapped /\ Answered(set, job.kind).remote = r.remote
        /\ Sound(Answered(set, job.kind))
    BY <1>3, <1>10, <2>1, AnsweredSound DEF Sound
  <2>3. Answered(set, job.kind).born = r.born
    BY <1>10, AnsweredBorn
  <2>4. v \in {rest, flush, Answered(set, job.kind)}
    BY <1>4, <1>13
  <2>5. v.remote = r.remote /\ v.born = r.born /\ v.mapped /\ Sound(v)
    BY <1>9, <1>12, <1>13, <2>1, <2>2, <2>3, <2>4
  <2> HIDE DEF v
  <2>6. u = v
    BY <2>5 DEF CloseIfDone, Sound, Almost
  <2> HIDE DEF u
  <2> QED BY <1>1, <1>5, <1>13, <2>5, <2>6, SilentOffers DEF r
<1>14. CASE ~r.mapped
  <2>1. v \in {rest, set}
    BY <1>3, <1>14
  <2>2. Like(v)
    BY <1>9, <1>10, <2>1
  <2> HIDE DEF v
  <2>3. (u.mapped => r.mapped) /\ u.remote = r.remote
    BY <1>1, <1>2, <2>2, JobDone DEF job
  <2> HIDE DEF u
  <2> QED BY <1>1, <1>14, <2>3, SilentOffers DEF r
<1> QED BY <1>13, <1>14

\* The candidates that waited are added.
LEMMA FlushOffers ==
  ASSUME Inv, Bounded, Offered, NEW p \in Peer, Flush(p)
  PROVE  Bounded' /\ Offered'
<1> DEFINE r == peer[p]
           job == Head(r.jobs)
           added == r.candidates \cup (r.pending \cap {r.description})
           rest == [r EXCEPT !.jobs = Tail(@), !.pending = {}, !.candidates = added]
           u == Answered(rest, job.kind)
<1>1. /\ r.jobs # <<>> /\ job.op = "flush" /\ peer' = [peer EXCEPT ![p] = u]
      /\ UNCHANGED <<conn, online, closed, wire>>
  BY DEF Flush
<1>2. Sound(r) /\ r \in PeerState
  BY DEF Inv, PeersOK, Sound, Almost
<1>a. p[1] \in Client
  BY DEF Peer
<1>3. r.mapped => Moves(p[1], r, u, FALSE)
  <2> SUFFICES ASSUME r.mapped PROVE Moves(p[1], r, u, FALSE)
    OBVIOUS
  <2> HIDE DEF r
  <2> QED BY <1>1, <1>2, <1>a, FlushMoves
<1>4. Tail(r.jobs) \in Seq(Job) /\ added \in SUBSET Peer
  BY <1>1, <1>2 DEF PeerState
<1> HIDE DEF r, job, added
<1>5. /\ rest \in PeerState /\ rest.remote = r.remote /\ rest.mapped = r.mapped
      /\ rest.born = r.born
  BY <1>2, <1>4 DEF PeerState
<1> HIDE DEF rest
<1>6. u.remote = r.remote /\ u.mapped = r.mapped /\ u.born = r.born
  BY <1>5 DEF Answered, Describe, PeerState
<1> HIDE DEF u
<1> QED BY <1>1, <1>3, <1>6, SilentOffers DEF r

\* A peer taken out of the map keeps its remote.
LEMMA ClosePeerRemote ==
  ASSUME NEW r, Sound(r), r.mapped
  PROVE  ClosePeer(r).remote = r.remote
<1> DEFINE s == Removed(r)
           t == CloseDC(s)
<1>1. r \in PeerState
  BY DEF Sound, Almost
<1>2. s \in PeerState /\ s.remote = r.remote
  BY <1>1 DEF PeerState, Removed
<1> HIDE DEF s
<1>3. t \in PeerState /\ t.remote = r.remote
  BY <1>2, CloseDCKeeps
<1>4. Fresh \in PeerState
  BY FreshSound DEF Sound, Almost
<1> HIDE DEF t
<1>5. ClosePC(t).remote = r.remote
  BY <1>3, <1>4 DEF ClosePC, PeerState
<1> QED BY <1>3, <1>5 DEF ClosePeer, t, s

\* The other one's token is dead.
LEMMA PeerGoneOffers ==
  ASSUME Inv, Bounded, Offered, NEW c \in Client, NEW p \in Peer, PeerGone(c, p)
  PROVE  Bounded' /\ Offered'
<1> DEFINE u == ClosePeer(peer[p])
<1>1. /\ peer[p].mapped /\ ~Alive(peer[p].remote) /\ peer' = [peer EXCEPT ![p] = u]
      /\ UNCHANGED <<conn, online, closed, wire>>
  BY DEF PeerGone, Mapped
<1>2. ~u.mapped /\ u.remote = peer[p].remote
  BY <1>1, ClosePeerSound, ClosePeerRemote DEF Inv, PeersOK
<1> HIDE DEF u
<1> QED BY <1>1, <1>2, SilentOffers

\* A client that is offline afterwards is in no pair.
LEMMA OfflineOffers ==
  ASSUME Inv, Offered, NEW e \in Client, conn' = conn, ~online'[e],
         \A c \in Client : c # e => online'[c] = online[c] /\ wire'[c] = wire[c],
         \A p \in Peer : p[1] # e => peer'[p] = peer[p]
  PROVE  Offered'
<1>1. \A p \in Peer, c \in Client : p[1] = e \/ c = e => ~Current(peer, p, c)'
  BY DEF Current, Live
<1> QED BY <1>1, ElseOffers

\* close() ends all peers.
LEMMA CloseAllOffers ==
  ASSUME Inv, Bounded, Offered, NEW c \in Client, CloseAll(c)
  PROVE  Bounded' /\ Offered'
<1>1. /\ peer' = [p \in Peer |-> IF p \in Mapped(c) THEN ClosePeer(peer[p]) ELSE peer[p]]
      /\ closed' = [closed EXCEPT ![c] = TRUE] /\ online' = [online EXCEPT ![c] = FALSE]
      /\ UNCHANGED <<conn, wire>>
  BY DEF CloseAll
<1>2. \A d \in Client : /\ closed'[d] = (IF d = c THEN TRUE ELSE closed[d])
                        /\ online'[d] = (IF d = c THEN FALSE ELSE online[d])
  BY <1>1 DEF Inv
<1>3. \A p \in Peer : /\ p[1] # c => peer'[p] = peer[p]
                      /\ peer'[p].remote = peer[p].remote
                      /\ peer'[p].mapped => peer'[p] = peer[p]
  <2> SUFFICES ASSUME NEW p \in Peer
               PROVE  /\ p[1] # c => peer'[p] = peer[p]
                      /\ peer'[p].remote = peer[p].remote
                      /\ peer'[p].mapped => peer'[p] = peer[p]
    OBVIOUS
  <2>1. CASE p \in Mapped(c)
    <3>1. peer'[p] = ClosePeer(peer[p]) /\ peer[p].mapped /\ p[1] = c /\ Sound(peer[p])
      BY <1>1, <2>1 DEF Mapped, Inv, PeersOK
    <3> QED BY <3>1, ClosePeerSound, ClosePeerRemote
  <2>2. CASE p \notin Mapped(c)
    BY <1>1, <2>2
  <2> QED BY <2>1, <2>2
<1>4. Offered'
  <2>1. ~online'[c] /\ \A d \in Client : d # c => online'[d] = online[d] /\ wire'[d] = wire[d]
    BY <1>1, <1>2
  <2>2. conn' = conn /\ \A p \in Peer : p[1] # c => peer'[p] = peer[p]
    BY <1>1, <1>3
  <2> QED BY <2>1, <2>2, OfflineOffers
<1>5. Bounded'
  BY <1>1, <1>2, <1>3, KnownSame DEF Bounded
<1> QED BY <1>4, <1>5

\* A sequence with nothing in it.
LEMMA EmptyNone == \A K : None(<<>>, K)
BY DEF None

\* connect() lets peers be made again.
LEMMA ReopenOffers ==
  ASSUME Inv, Bounded, Offered, NEW c \in Client, Reopen(c)
  PROVE  Bounded' /\ Offered'
<1>1. /\ closed[c] /\ closed' = [closed EXCEPT ![c] = FALSE]
      /\ wire' = [wire EXCEPT ![c] = <<>>] /\ UNCHANGED <<conn, online, peer>>
  BY DEF Reopen
<1>2. \A d \in Client : /\ closed'[d] = (IF d = c THEN FALSE ELSE closed[d])
                        /\ wire'[d] = (IF d = c THEN <<>> ELSE wire[d])
  BY <1>1 DEF Inv
<1>3. ~online'[c]
  BY <1>1 DEF Bounded
<1>4. Offered'
  BY <1>1, <1>2, <1>3, OfflineOffers
<1>5. \A d \in Client : None(wire'[d], Unknown(d)')
  BY <1>1, <1>2, EmptyNone, KnownSame DEF Bounded
<1>6. Bounded'
  BY <1>1, <1>2, <1>3, <1>5, KnownSame DEF Bounded
<1> QED BY <1>4, <1>6

\* The connection to the proxy is lost.
LEMMA LoseOffers ==
  ASSUME Inv, Bounded, Offered, NEW c \in Client, Lose(c)
  PROVE  Bounded' /\ Offered'
<1>1. /\ online' = [online EXCEPT ![c] = FALSE] /\ wire' = [wire EXCEPT ![c] = <<>>]
      /\ UNCHANGED <<conn, closed, peer>>
  BY DEF Lose
<1>2. \A d \in Client : /\ online'[d] = (IF d = c THEN FALSE ELSE online[d])
                        /\ wire'[d] = (IF d = c THEN <<>> ELSE wire[d])
  BY <1>1 DEF Inv
<1>3. Offered'
  BY <1>1, <1>2, OfflineOffers
<1>4. \A d \in Client : None(wire'[d], Unknown(d)')
  BY <1>1, <1>2, EmptyNone, KnownSame DEF Bounded
<1>5. Bounded'
  BY <1>1, <1>2, <1>4, KnownSame DEF Bounded
<1> QED BY <1>3, <1>5

\* The proxy gives a token that nobody has heard of.
LEMMA NewTokenOffers ==
  ASSUME Inv, Bounded, Offered, NEW c \in Client, NewToken(c)
  PROVE  Bounded' /\ Offered'
<1>1. /\ ~online[c] /\ ~closed[c] /\ conn' = [conn EXCEPT ![c] = @ + 1]
      /\ online' = [online EXCEPT ![c] = TRUE] /\ UNCHANGED <<closed, peer, wire>>
  BY DEF NewToken
<1>2. \A d \in Client : /\ conn'[d] = (IF d = c THEN conn[c] + 1 ELSE conn[d])
                        /\ online'[d] = (IF d = c THEN TRUE ELSE online[d])
                        /\ conn[d] \in Nat
  BY <1>1 DEF Inv
<1>b. conn[c] < conn'[c] /\ conn[c] \in Nat /\ conn'[c] \in Nat
  <2> DEFINE n == conn[c]
             m == conn'[c]
  <2>1. n \in Nat /\ m = n + 1
    BY <1>2
  <2> HIDE DEF n, m
  <2>2. n < m /\ n \in Nat /\ m \in Nat
    BY <2>1
  <2> QED BY <2>2 DEF n, m
<1>a. ASSUME NEW d \in Client, NEW n \in Nat, n <= conn[d] PROVE n <= conn'[d]
  <2> DEFINE k == conn[d]
             m == conn'[d]
  <2>1. k \in Nat /\ (m = k \/ m = k + 1)
    BY <1>2
  <2>2. n <= k
    BY <1>a
  <2> HIDE DEF k, m
  <2>3. n <= m
    BY <2>1, <2>2
  <2> QED BY <2>3 DEF m
<1>3. wire[c] = <<>>
  BY <1>1 DEF Bounded
<1>4. Self(c)' = <<c, conn[c] + 1>>
  BY <1>2 DEF Self
<1>5. \A d : Self(c)' \notin Known(d) \cup {NoToken}
  <2> DEFINE t == Self(c)'
  <2>1. t[1] = c /\ t[2] = conn[c] + 1
    BY <1>4
  <2>2. t # NoToken
    BY <2>1, Assumptions DEF NoToken
  <2> HIDE DEF t
  <2>3. ~(t[2] <= conn[t[1]])
    BY <1>b, <2>1
  <2> QED BY <2>2, <2>3 DEF Known, t
<1>6. \A d : Known(d) \subseteq Known(d)' /\ Unknown(d)' \subseteq Unknown(d)
  <2>1. \A t \in Token : t[1] \in Client /\ t[2] \in Nat
    BY Assumptions DEF Token
  <2>2. \A d : Known(d) \subseteq Known(d)'
    <3> SUFFICES ASSUME NEW t \in Token, t[2] <= conn[t[1]] PROVE t[2] <= conn'[t[1]]
      BY DEF Known
    <3> DEFINE e == t[1]
               n == t[2]
    <3>1. e \in Client /\ n \in Nat /\ n <= conn[e]
      BY <2>1
    <3> HIDE DEF e, n
    <3>2. n <= conn'[e]
      BY <1>a, <3>1
    <3> QED BY <3>2 DEF e, n
  <2> QED BY <2>2 DEF Unknown
<1>7. \A p \in Peer, d \in Client : p[1] = c \/ d = c => ~Current(peer, p, d)'
  <2> SUFFICES ASSUME NEW p \in Peer, NEW d \in Client, p[1] = c \/ d = c,
                      Current(peer, p, d)'
               PROVE  FALSE
    OBVIOUS
  <2>1. peer[p].mapped /\ peer[p].remote = Self(d)' /\ peer[p].born = conn'[p[1]]
    BY <1>1 DEF Current, Live
  <2>2. CASE p[1] = c
    <3>1. peer[p].born <= conn[c] /\ peer[p].born = conn'[c]
      BY <2>1, <2>2 DEF Bounded
    <3> QED BY <1>b, <3>1
  <2>3. CASE d = c
    BY <1>5, <2>1, <2>3 DEF Bounded
  <2> QED BY <2>2, <2>3
<1>8. \A b, d \in Client : b = c \/ d = c => NoOffer(wire, d, b)'
  <2> SUFFICES ASSUME NEW b \in Client, NEW d \in Client, b = c \/ d = c
               PROVE  None(wire[b], OfferOf(Self(d)'))
    BY <1>1 DEF NoOffer, OfferOf
  <2>1. CASE b = c
    BY <1>3, <2>1, EmptyNone
  <2>2. CASE d = c
    <3>1. OfferOf(Self(d)') \subseteq Unknown(b)
      BY <1>5, <2>2 DEF OfferOf, Unknown
    <3>2. None(wire[b], Unknown(b))
      BY DEF Bounded
    <3> QED BY <3>1, <3>2, NonePart
  <2> QED BY <2>1, <2>2
<1>9. Offered'
  BY <1>1, <1>2, <1>7, <1>8, ElseOffers
<1>10. \A d \in Client : None(wire'[d], Unknown(d)')
  BY <1>1, <1>6, NonePart DEF Bounded
<1>11. \A p \in Peer : peer'[p].mapped => peer'[p].born <= conn'[p[1]]
  <2> SUFFICES ASSUME NEW p \in Peer, peer[p].mapped PROVE peer[p].born <= conn'[p[1]]
    BY <1>1
  <2>1. p[1] \in Client
    BY DEF Peer
  <2>2. peer[p].born \in Nat /\ peer[p].born <= conn[p[1]]
    BY DEF Bounded, Inv, PeersOK, Sound, Almost, PeerState
  <2> DEFINE b == p[1]
             n == peer[p].born
  <2>3. b \in Client /\ n \in Nat /\ n <= conn[b]
    BY <2>1, <2>2
  <2> HIDE DEF b, n
  <2>4. n <= conn'[b]
    BY <1>a, <2>3
  <2> QED BY <2>4 DEF b, n
<1>12. \A p \in Peer : peer'[p].remote \in Known(p[1])' \cup {NoToken}
  BY <1>1, <1>6 DEF Bounded
<1>13. \A d \in Client : /\ closed'[d] => ~online'[d]
                         /\ ~online'[d] /\ ~closed'[d] => wire'[d] = <<>>
  BY <1>1, <1>2 DEF Bounded
<1>14. Bounded'
  BY <1>10, <1>11, <1>12, <1>13 DEF Bounded
<1> QED BY <1>9, <1>14

\* Every step keeps what is said of offers, action by action as above.
LEMMA NextOffers == Inv /\ Bounded /\ Offered /\ [Next]_vars => Bounded' /\ Offered'
<1> SUFFICES ASSUME Inv, Bounded, Offered, [Next]_vars PROVE Bounded' /\ Offered'
  OBVIOUS
<1>1. ASSUME NEW c \in Client, NEW t \in Token, TrySend(c, t) \/ Connect(c, t)
      PROVE  Bounded' /\ Offered'
  BY <1>1, TrySendOffers
<1>2. ASSUME NEW c \in Client, NEW p \in Peer, PeerGone(c, p) PROVE Bounded' /\ Offered'
  BY <1>2, PeerGoneOffers
<1>3. ASSUME NEW c \in Client,
             Receive(c) \/ CloseAll(c) \/ Reopen(c) \/ NewToken(c) \/ Lose(c)
      PROVE  Bounded' /\ Offered'
  BY <1>3, ReceiveOffers, CloseAllOffers, ReopenOffers, NewTokenOffers, LoseOffers
<1>4. ASSUME NEW p \in Peer, Platform(p) PROVE Bounded' /\ Offered'
  <2>1. CASE IceGivesUp(p)
    BY <2>1, FailedOffers DEF IceGivesUp
  <2>2. CASE NegotiationNeeded(p) \/ DescriptionSet(p) \/ Accept(p) \/ Flush(p)
    BY <2>2, NegotiationNeededOffers, DescriptionSetOffers, AcceptOffers, FlushOffers
  <2>3. CASE \/ Announce(p) \/ IceConnects(p) \/ ChannelArrives(p) \/ ChannelOpens(p)
             \/ ChannelCloses(p)
    BY <2>3, QuietOffers
  <2> QED BY <1>4, <2>1, <2>2, <2>3 DEF Platform
<1>5. ASSUME NEW p \in Peer, IceDisconnects(p) \/ IceFails(p) \/ ClosedEvent(p)
      PROVE  Bounded' /\ Offered'
  <2>1. CASE IceFails(p)
    BY <2>1, FailedOffers DEF IceFails
  <2> QED BY <1>5, <2>1, QuietOffers
<1>6. CASE UNCHANGED vars
  <2>1. UNCHANGED <<conn, online, closed, peer, wire>>
    BY <1>6 DEF vars
  <2>2. Offered'
    BY <2>1, SameTokens DEF Offered
  <2>3. Bounded'
    BY <2>1, KnownSame DEF Bounded
  <2> QED BY <2>2, <2>3
<1> QED BY <1>1, <1>2, <1>3, <1>4, <1>5, <1>6 DEF Next

\* To begin with there are no peers and no signals.
LEMMA InitOffers == Init => Bounded /\ Offered
<1> SUFFICES ASSUME Init PROVE Bounded /\ Offered
  OBVIOUS
<1>1. /\ \A p \in Peer : ~peer[p].mapped /\ peer[p].remote = NoToken
      /\ \A c \in Client : wire[c] = <<>> /\ online[c] /\ ~closed[c]
  BY DEF Init, Fresh
<1>2. Bounded
  BY <1>1, EmptyNone DEF Bounded
<1>3. \A p \in Peer, c \in Client : ~Current(peer, p, c)
  BY <1>1 DEF Current, Live
<1>4. \A c, d \in Client : NoOffer(wire, d, c)
  BY <1>1, EmptyNone DEF NoOffer
<1>5. \A p \in Peer : p[1] \in Client
  BY DEF Peer
<1> QED BY <1>2, <1>3, <1>4, <1>5 DEF Offered, OffersOK, PostedOK, LoneOK, PairOK

\* Of two ends that know each other one at least makes no offers.
LEMMA OneOffers == Inv /\ Bounded /\ Offered => OffersDoNotCross
<1> SUFFICES ASSUME Inv, Bounded, Offered, NEW p \in Peer, NEW q \in Peer, Paired(p, q),
                    peer[p].born = conn[p[1]], peer[q].born = conn[q[1]],
                    online[p[1]], online[q[1]]
             PROVE  ~(Offers(p) /\ Offers(q))
  BY DEF OffersDoNotCross
<1>1. p[1] \in Client /\ q[1] \in Client
  BY DEF Peer
<1>2. Current(peer, p, q[1]) /\ Current(peer, q, p[1])
  BY DEF Current, Live, Paired
<1>3. SideOK(peer, wire, p, q[1]) /\ SideOK(peer, wire, q, p[1])
  BY <1>2 DEF Offered, OffersOK, PairOK
<1>4. ~Creates(p[1], Self(q[1])) \/ ~Creates(q[1], Self(p[1]))
  BY <1>1, OneCreates
<1>5. Taker(peer[p]) \/ Taker(peer[q])
  BY <1>3, <1>4 DEF SideOK
<1> QED BY <1>5 DEF Taker, Offers

-----------------------------------------------------------------------------
(* The theorems.                                                           *)

\* The types are part of the invariant.
LEMMA InvType == Inv => TypeOK
<1> SUFFICES ASSUME Inv PROVE TypeOK
  OBVIOUS
<1>1. \A p \in Peer : peer[p] \in PeerState
  BY DEF Inv, PeersOK, Sound, Almost
<1>2. peer \in [Peer -> PeerState]
  BY <1>1 DEF Inv, PeersOK
<1>3. \A p \in Peer : peer[p].mapped =>
        /\ ~peer[p].closing
        /\ peer[p].remote # NoToken
        /\ \A q \in Mapped(p[1]) : peer[q].remote = peer[p].remote => q = p
  BY DEF Inv, PeersOK, MapOK, Mapped, Sound, Almost
<1> QED BY <1>2, <1>3 DEF Inv, TypeOK

\* What is out of the map is closed.
LEMMA InvLeavesNothing == Inv => NothingLeftOpen
<1> SUFFICES ASSUME Inv PROVE NothingLeftOpen
  OBVIOUS
<1>1. \A p \in Peer : ~peer[p].mapped /\ ~Busy(peer[p]) =>
        peer[p].pc \in {"none", "closed"} /\ ~peer[p].sockets
  BY DEF Inv, PeersOK, Sound, Quiet
<1>2. \A c \in Client : closed[c] => Mapped(c) = {}
  BY DEF Inv, PeersOK, MapOK, Mapped
<1> QED BY <1>1, <1>2 DEF NothingLeftOpen

\* The types, and the map: a peer in it is not being closed, and is the only
\* one of its remote (_ensurePeer, closePeer).
THEOREM DirectChannelTypeCorrect == Spec => []TypeOK
BY InvAlways, InvType, PTL

\* Whatever else happens, a peer that left the map is closed, with no sockets
\* of the platform, as soon as no description of its is in flight; and a closed
\* manager has no peers (closePeer, _describe, handleIncoming).
THEOREM NothingLeftOpenHolds == Spec => []NothingLeftOpen
BY InvAlways, InvLeavesNothing, PTL

\* No candidate is left waiting for a description that has come, however the
\* descriptions and the candidates of both ends follow each other, unless the
\* peer is being closed (_handleSignal's pendingCandidates).
THEOREM CandidatesNotStrandedHolds == Spec => []CandidatesNotStranded
<1>1. Init => AllKept
  BY DEF Init, Fresh, AllKept, Kept
<1>2. AllKept => CandidatesNotStranded
  BY DEF AllKept, Kept, HasFlush, CandidatesNotStranded
<1> QED BY <1>1, <1>2, InvAlways, NextKept, PTL DEF Spec

\* Two ends that took each other up with the tokens they still have, both with
\* their connection to the proxy, never have an offer each on the table, however
\* the signals, the messages that ask for a channel and the ends' closing and
\* making anew follow each other (_startNegotiation, _handleSignal).
THEOREM OffersDoNotCrossHolds == Spec => []OffersDoNotCross
<1>1. Init /\ [][Next]_vars => [](Bounded /\ Offered)
  BY InitOffers, NextOffers, InvAlways, PTL DEF Spec
<1> QED BY <1>1, InvAlways, OneOffers, PTL DEF Spec
=============================================================================
