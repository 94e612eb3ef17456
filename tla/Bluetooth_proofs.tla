-------------------------- MODULE Bluetooth_proofs --------------------------
(***************************************************************************)
(* Proofs about the Bluetooth managers of Bluetooth.tla, for any devices,  *)
(* tokens and bounds: what a negotiation, a channel, the search and a link *)
(* hold they hold for somebody, no negotiation waits without an end, and   *)
(* the two ends of a channel that opened keep step with each other.        *)
(***************************************************************************)
EXTENDS Bluetooth, FiniteSetTheorems, TLAPS

----
\* What the variables that TypeOK leaves out hold.

PeerOrNone == Peer \cup {NoPeer}

AnyRecord == [by : PeerOrNone, to : PeerOrNone, ctr : Nat, type : {"hello", "data"}, tag : Nat]

AnyJob == [how : {"none", "record", "identify", "thrown"}, rec : AnyRecord, peer : PeerOrNone,
           left : SUBSET Node, gone : BOOLEAN]

LinkState ==
  [up : BOOLEAN, forgotten : BOOLEAN, hangup : BOOLEAN, handler : PeerOrNone,
   toCentral : Seq(AnyRecord), fromPeripheral : AnyJob, owner : PeerOrNone, hello : AnyRecord,
   retry : BOOLEAN, toPeripheral : Seq(AnyRecord), fromCentral : AnyJob]

ProbeState ==
  [step : {"no", "connect", "read", "subscribe", "close"}, dev : Node \cup {"none"},
   own : BOOLEAN, peer : PeerOrNone]

ScanState == {"off", "starting", "failing", "on", "stopping", "restarting"}

----
\* The inductive invariant, in parts.

OneMapped(peers) ==
  \A p, q \in Peer : peers[p].mapped /\ peers[q].mapped /\ p[1] = q[1] /\ p[2] = q[2] => p = q

\* Whoever a record is being opened for is a peer.
JobsHavePeers(l) ==
  /\ l.fromCentral.how # "none" => l.fromCentral.peer \in Peer
  /\ l.fromPeripheral.how # "none" => l.fromPeripheral.peer \in Peer

LinksTyped == link \in [Link -> LinkState] /\ \A l \in Link : JobsHavePeers(link[l])

ProbesTyped == probe \in [Node -> ProbeState]

\* A peer by itself: what it waits for will come, and what ended holds nothing.
Fit(r) ==
  /\ r.state \in {"offered", "keyed"} => r.timer
  /\ r.state = "new" => r.making # "no" \/ r.deriving # {}
  /\ r.state = "new" /\ r.making = "answer" => r.deriving # {}
  /\ r.state \in {"unused", "failed", "closed"} =>
       ~r.timer /\ ~r.central /\ r.link \notin {"own", "shared"}

AllFit == \A p \in Peer : Fit(peer[p])

\* The central is the one who searches.
CentralsWant == \A p \in Peer : peer[p].wanted # {} => IsCentral(p)

\* Who gets a central's records has that central.
OwnerIsCentral == \A l \in Link : link[l].owner # NoPeer => peer[link[l].owner].central

\* A client that was closed, or is being started, is not on the air ...
SwitchedOff == \A n \in Node : (closed[n] => ~on[n]) /\ (opening[n] # "no" => ~on[n])

\* ... and the links it had are being cut.
OffIsHung == \A l \in Link : link[l].up /\ (~on[l[1]] \/ ~on[l[2]]) => link[l].hangup

\* A link that somebody is to hold (LinkHasOwner).
InUse(l) == link[l].up /\ ~link[l].hangup /\ ~link[l].forgotten

\* A probe that has the link in hand hands it over to its peer.
ProbeInHand(n) ==
  /\ probe[n].step # "no" => Probed(n) \in Link
  /\ probe[n].step = "connect" => ~probe[n].own
  /\ probe[n].step \in {"no", "connect", "read"} => probe[n].peer = NoPeer
  /\ probe[n].step = "subscribe" =>
       /\ probe[n].peer \in Peer /\ LinkOf(probe[n].peer) = Probed(n)
       /\ probe[n].own /\ InUse(Probed(n)) => peer[probe[n].peer].link = "own"

ProbesInHand == \A n \in Node : ProbeInHand(n)

BTInv ==
  /\ TypeOK /\ LinksTyped /\ ProbesTyped
  /\ AllFit /\ CentralsWant /\ OwnerIsCentral /\ SwitchedOff /\ OffIsHung /\ ProbesInHand
  /\ ScanHasSearcher /\ LinkHasOwner

----
\* Peers and links as values.

\* A peer is of a device for another one, and the pair shares one link.
LEMMA PeerFacts ==
  /\ NoPeer \notin Peer
  /\ \A p \in Peer : /\ p[1] \in Node /\ p[2] \in Node /\ p[1] # p[2]
                     /\ LinkOf(p) \in Link
                     /\ p[1] = LinkOf(p)[1] \/ p[1] = LinkOf(p)[2]
<1>1. \A p \in Peer : p[1] \in Node /\ p[2] \in Node /\ p[1] # p[2]
  BY DEF Peer
<1>2. NoPeer \notin Peer
  <2>1. SUFFICES ASSUME NoPeer \in Peer PROVE FALSE
    OBVIOUS
  <2>2. NoPeer[1] = "none"
    BY DEF NoPeer
  <2>. QED BY <1>1, <2>1, <2>2, BluetoothAssumptions DEF BluetoothAssumptions
<1>3. \A p \in Peer : LinkOf(p) \in Link
  <2>1. SUFFICES ASSUME NEW p \in Peer PROVE LinkOf(p) \in Link
    OBVIOUS
  <2>2. Rank[p[1]] \in Nat /\ Rank[p[2]] \in Nat /\ Rank[p[1]] # Rank[p[2]]
    BY <1>1, BluetoothAssumptions DEF BluetoothAssumptions
  <2>. QED BY <1>1, <2>2 DEF LinkOf, Link, IsCentral
<1>4. \A p \in Peer : p[1] = LinkOf(p)[1] \/ p[1] = LinkOf(p)[2]
  BY <1>1 DEF LinkOf
<1>. QED BY <1>1, <1>2, <1>3, <1>4

\* A link has a central and a peripheral.
LEMMA LinkFacts ==
  \A l \in Link : l[1] \in Node /\ l[2] \in Node /\ l[1] # l[2] /\ l = <<l[1], l[2]>>
<1>1. SUFFICES ASSUME NEW l \in Link
               PROVE  l[1] \in Node /\ l[2] \in Node /\ l[1] # l[2] /\ l = <<l[1], l[2]>>
  OBVIOUS
<1>2. l \in Node \X Node /\ Rank[l[1]] > Rank[l[2]]
  BY DEF Link
<1>3. l[1] \in Node /\ l[2] \in Node /\ l = <<l[1], l[2]>>
  BY <1>2
<1>4. Rank[l[1]] \in Nat /\ Rank[l[2]] \in Nat
  BY <1>3, BluetoothAssumptions DEF BluetoothAssumptions
<1>. QED BY <1>2, <1>3, <1>4

\* A link that is down has its type, as have the values that stand for nothing.
LEMMA DownTyped ==
  Down \in LinkState /\ JobsHavePeers(Down) /\ NoRecord \in AnyRecord /\ NoJob \in AnyJob
<1>1. NoRecord \in AnyRecord
  BY DEF NoRecord, AnyRecord, PeerOrNone
<1>2. NoJob \in AnyJob /\ NoJob.how = "none"
  BY <1>1 DEF NoJob, AnyJob, PeerOrNone
<1>3. <<>> \in Seq(AnyRecord)
  OBVIOUS
<1>. QED BY <1>1, <1>2, <1>3 DEF Down, LinkState, JobsHavePeers, PeerOrNone

----
\* What the methods do to a peer.

\* What every method but the deriving of a key leaves of a peer: it looks for
\* nobody else, its link is at most being let go, and it is of a type and Fit.
Follows(s, r) ==
  /\ s \in BlePeer /\ Fit(s)
  /\ s.wanted \subseteq r.wanted
  /\ s.mapped /\ s.state = "keyed" => r.mapped /\ r.state = "keyed"
  /\ r.link = "own" => s.link \in {"own", "ownClosing"}

\* It does not enter the map.
Keeps(s, r) == Follows(s, r) /\ (s.mapped => r.mapped)

\* A peer not yet made holds nothing.
LEMMA UnusedFit == Unused \in BlePeer /\ Fit(Unused)
<1>1. /\ NoHalf \in Half \cup {NoHalf} /\ {} \in SUBSET Half
      /\ <<>> \in Seq({"hello", "data"}) /\ {} \in SUBSET Nat
  OBVIOUS
<1>. QED BY <1>1 DEF Unused, BlePeer, Fit

\* Letting go of a link leaves a peer without one of its own.
LEMMA LetGoType ==
  ASSUME NEW x \in {"none", "own", "shared", "ownClosing", "sharedClosing"}
  PROVE  /\ LetGo(x) \in {"none", "ownClosing", "sharedClosing"}
         /\ x = "own" => LetGo(x) = "ownClosing"
BY DEF LetGo

\* _release: the timer, the central and the link go, what is awaited stays.
LEMMA ReleaseGives ==
  ASSUME NEW r \in BlePeer
  PROVE  /\ Release(r) \in BlePeer
         /\ Release(r).state = r.state /\ Release(r).mapped = r.mapped /\ Release(r).making = r.making
         /\ Release(r).deriving = r.deriving
         /\ ~Release(r).timer /\ ~Release(r).central /\ Release(r).link = LetGo(r.link)
         /\ Release(r).link \in {"none", "ownClosing", "sharedClosing"}
         /\ Release(r).wanted \subseteq r.wanted
<1>1. LetGo(r.link) \in {"none", "ownClosing", "sharedClosing"}
  BY LetGoType DEF BlePeer
<1>. QED BY <1>1 DEF Release, BlePeer

\* _closePeer leaves a peer fit, out of the map, and wanting nobody it did not
\* want.
LEMMA CloseKeeps ==
  ASSUME NEW r \in BlePeer, Fit(r)
  PROVE  /\ Keeps(Close(r), r) /\ Keeps(Closed(r), r)
         /\ Closed(r).state = "closed"
         /\ Close(r).state = "closed" /\ ~Close(r).mapped
<1>1. /\ Close(r) \in BlePeer /\ Close(r).state = "closed" /\ ~Close(r).mapped
      /\ ~Close(r).timer /\ ~Close(r).central /\ Close(r).wanted \subseteq r.wanted
      /\ Close(r).link = LetGo(r.link) /\ Close(r).link \in {"none", "ownClosing", "sharedClosing"}
  <2>. DEFINE s == Release(r)
  <2>1. /\ s \in BlePeer /\ ~s.timer /\ ~s.central /\ s.wanted \subseteq r.wanted
        /\ s.link = LetGo(r.link) /\ s.link \in {"none", "ownClosing", "sharedClosing"}
    BY ReleaseGives
  <2>2. Close(r) = [s EXCEPT !.state = "closed", !.mapped = FALSE]
    BY DEF Close
  <2>. HIDE DEF s
  <2>3. [s EXCEPT !.state = "closed", !.mapped = FALSE] \in BlePeer
    BY <2>1 DEF BlePeer
  <2>. QED BY <2>1, <2>2, <2>3 DEF BlePeer
<1>2. r.link = "own" => Close(r).link = "ownClosing"
  BY <1>1 DEF LetGo
<1>. QED BY <1>1, <1>2 DEF Keeps, Follows, Fit, Closed

\* _fail leaves a peer fit, failed or closed.
LEMMA FailKeeps ==
  ASSUME NEW r \in BlePeer, Fit(r)
  PROVE  Keeps(Fail(r), r) /\ Fail(r).state \in {"failed", "closed"}
<1>1. CASE r.state = "closed"
  BY <1>1 DEF Fail, Keeps, Follows
<1>2. CASE r.state # "closed"
  <2>1. /\ Fail(r) \in BlePeer /\ Fail(r).state = "failed" /\ Fail(r).mapped = r.mapped
        /\ ~Fail(r).timer /\ ~Fail(r).central /\ Fail(r).wanted \subseteq r.wanted
        /\ Fail(r).link = LetGo(r.link) /\ Fail(r).link \in {"none", "ownClosing", "sharedClosing"}
    <3>. DEFINE s == Release(r)
    <3>1. /\ s \in BlePeer /\ s.mapped = r.mapped /\ ~s.timer /\ ~s.central
          /\ s.wanted \subseteq r.wanted
          /\ s.link = LetGo(r.link) /\ s.link \in {"none", "ownClosing", "sharedClosing"}
      BY ReleaseGives
    <3>2. Fail(r) = [s EXCEPT !.state = "failed", !.resting = TRUE]
      BY <1>2 DEF Fail
    <3>. HIDE DEF s
    <3>3. [s EXCEPT !.state = "failed", !.resting = TRUE] \in BlePeer
      BY <3>1 DEF BlePeer
    <3>. QED BY <3>1, <3>2, <3>3 DEF BlePeer
  <2>2. r.link = "own" => Fail(r).link = "ownClosing"
    BY <2>1 DEF LetGo
  <2>. QED BY <2>1, <2>2 DEF Keeps, Follows, Fit
<1>. QED BY <1>1, <1>2

\* A peer that does not change stays as it is.
LEMMA ItselfKeeps ==
  ASSUME NEW r \in BlePeer, Fit(r)
  PROVE  Keeps(r, r)
BY DEF Keeps, Follows

\* ... and what is changed besides says nothing of that.
LEMMA SameKeeps ==
  ASSUME NEW r \in BlePeer, NEW s \in BlePeer, NEW x, Keeps(x, s),
         s.wanted = r.wanted, s.mapped = r.mapped, s.state = r.state, s.link = r.link
  PROVE  Keeps(x, r)
BY DEF Keeps, Follows

\* _open changes neither link nor central.
LEMMA OpenKeeps ==
  ASSUME NEW r \in BlePeer, Fit(r)
  PROVE  Keeps(Open(r), r) /\ Open(r).link = r.link /\ Open(r).central = r.central
<1>1. /\ Open(r) \in BlePeer /\ Open(r).state = "open" /\ Open(r).mapped = r.mapped
      /\ Open(r).wanted = r.wanted /\ Open(r).link = r.link /\ Open(r).central = r.central
  BY DEF Open, BlePeer
<1>. QED BY <1>1 DEF Keeps, Follows, Fit

\* A record that is to be sent changes only what waits to be sent.
LEMMA SayKeeps ==
  ASSUME NEW r \in BlePeer, Fit(r), NEW type \in {"hello", "data"}
  PROVE  /\ Keeps(Say(r, type), r) /\ Say(r, type).link = r.link /\ Say(r, type).central = r.central
         /\ Say(r, type).wanted = r.wanted
<1>1. Append(r.queue, type) \in Seq({"hello", "data"})
  BY DEF BlePeer
<1>2. /\ Say(r, type) \in BlePeer
      /\ Say(r, type).state = r.state /\ Say(r, type).mapped = r.mapped
      /\ Say(r, type).wanted = r.wanted /\ Say(r, type).link = r.link /\ Say(r, type).central = r.central
      /\ Say(r, type).timer = r.timer /\ Say(r, type).making = r.making
      /\ Say(r, type).deriving = r.deriving
  BY <1>1 DEF Say, BlePeer
<1>. QED BY <1>2 DEF Keeps, Follows, Fit

\* A hello gives the peripheral's peer its central.
LEMMA GreetedKeeps ==
  ASSUME NEW r \in BlePeer, Fit(r)
  PROVE  Keeps(Greeted(r), r) /\ Greeted(r).central
<1>. DEFINE s == Say([r EXCEPT !.central = TRUE, !.recvCtr = 1], "hello")
<1>1. Append(r.queue, "hello") \in Seq({"hello", "data"})
  BY DEF BlePeer
<1>2. s = [r EXCEPT !.central = TRUE, !.recvCtr = 1, !.queue = Append(@, "hello")]
  BY DEF Say, BlePeer
<1>4. Greeted(r) = Open(s)
  BY DEF Greeted
<1>. HIDE DEF s
<1>3. s \in BlePeer
  BY <1>1, <1>2 DEF BlePeer
<1>6. s.mapped = r.mapped /\ s.wanted = r.wanted /\ s.link = r.link /\ s.central
  BY <1>2 DEF BlePeer
<1>5. /\ Open(s) \in BlePeer /\ Open(s).state = "open" /\ Open(s).mapped = s.mapped
      /\ Open(s).wanted = s.wanted /\ Open(s).link = s.link /\ Open(s).central = s.central
  BY <1>3 DEF Open, BlePeer
<1>. QED BY <1>3, <1>4, <1>5, <1>6 DEF Keeps, Follows, Fit

\* A record that opened leaves its peer fit.
LEMMA RecordKeeps ==
  ASSUME peer \in [Peer -> BlePeer], AllFit, NEW p \in Peer, NEW rec
  PROVE  Keeps(AfterRecord(p, rec), peer[p])
<1>. DEFINE r == peer[p]
            s == [r EXCEPT !.recvCtr = @ + 1]
<1>1. r \in BlePeer /\ Fit(r)
  BY DEF AllFit
<1>4. AfterRecord(p, rec) \in {Closed(r), Open(s), s, Closed(s)}
  BY DEF AfterRecord
<1>. HIDE DEF r
<1>9. r.recvCtr \in Nat /\ r.recvCtr + 1 \in Nat
  BY <1>1 DEF BlePeer
<1>8. s \in BlePeer
  BY <1>1, <1>9 DEF BlePeer
<1>2. /\ s.state = r.state /\ s.mapped = r.mapped /\ s.wanted = r.wanted
      /\ s.link = r.link /\ s.timer = r.timer /\ s.making = r.making /\ s.deriving = r.deriving
      /\ s.central = r.central
  BY <1>1 DEF BlePeer
<1>. HIDE DEF s
<1>3. Fit(s)
  BY <1>1, <1>2 DEF Fit
<1>5. Keeps(Closed(r), r)
  BY <1>1, CloseKeeps
<1>6. Keeps(Open(s), s) /\ Keeps(s, s) /\ Keeps(Closed(s), s)
  BY <1>8, <1>3, CloseKeeps, OpenKeeps, ItselfKeeps
<1>7. Keeps(Open(s), r) /\ Keeps(s, r) /\ Keeps(Closed(s), r)
  BY <1>1, <1>2, <1>6, <1>8, SameKeeps
<1>. QED BY <1>4, <1>5, <1>7 DEF r

----
\* What letting go does to links and search.

\* Somebody lets go of the link that was his to cut.
LetsGo(l, peers) ==
  \E p \in Peer : /\ LinkOf(p) = l
                  /\ \/ peer[p].link = "own" /\ peers[p].link = "ownClosing"
                     \/ peer[p].central /\ ~peers[p].central /\ on[p[1]]

\* What follows for the links: those let go of are to be cut, and records are
\* given to who still has a central only.
LEMMA HungGives ==
  ASSUME on \in [Node -> BOOLEAN], peer \in [Peer -> BlePeer], NEW peers \in [Peer -> BlePeer],
         NEW links, links \in [Link -> LinkState], \A l \in Link : JobsHavePeers(links[l]),
         NEW hung, hung = Hung(peers, links)
  PROVE  /\ hung \in [Link -> LinkState]
         /\ \A l \in Link :
              /\ JobsHavePeers(hung[l])
              /\ hung[l].up = links[l].up /\ hung[l].forgotten = links[l].forgotten
              /\ links[l].hangup \/ (links[l].up /\ LetsGo(l, peers)) => hung[l].hangup
              /\ hung[l].owner # NoPeer =>
                   hung[l].owner = links[l].owner /\ peers[hung[l].owner].central
<1>. DEFINE H(l) == Hung(peers, links)[l]
            drops(l) == \E p \in Peer : /\ LinkOf(p) = l
                                       /\ peer[p].late /\ ~peers[p].late /\ on[p[1]]
            hang(l) == links[l].hangup \/ (links[l].up /\ (LetsGo(l, peers) \/ drops(l)))
            owner(l) == IF links[l].owner # NoPeer /\ ~peers[links[l].owner].central
                        THEN NoPeer ELSE links[l].owner
<1>1. \A l \in Link : H(l) = [links[l] EXCEPT !.hangup = hang(l), !.owner = owner(l)]
  BY DEF Hung, LetsGo, LinkState
<1>2. \A l \in Link : links[l] \in LinkState /\ hang(l) \in BOOLEAN /\ owner(l) \in PeerOrNone
  BY DEF LinkState, PeerOrNone, LetsGo
<1>3. DOMAIN Hung(peers, links) = Link /\ Hung(peers, links) = [l \in Link |-> H(l)]
  BY DEF Hung
<1>. HIDE DEF H, hang
<1>4. \A l \in Link : H(l) \in LinkState
  BY <1>1, <1>2 DEF LinkState
<1>5. \A l \in Link : /\ H(l).up = links[l].up /\ H(l).forgotten = links[l].forgotten
                      /\ H(l).hangup = hang(l) /\ H(l).owner = owner(l)
                      /\ H(l).fromCentral = links[l].fromCentral
                      /\ H(l).fromPeripheral = links[l].fromPeripheral
  BY <1>1, <1>2 DEF LinkState
<1>6. Hung(peers, links) \in [Link -> LinkState]
  BY <1>3, <1>4
<1>7. \A l \in Link : JobsHavePeers(H(l))
  BY <1>5 DEF JobsHavePeers
<1>8. \A l \in Link : H(l).owner # NoPeer => H(l).owner = links[l].owner /\ peers[H(l).owner].central
  BY <1>5
<1>. QED BY <1>5, <1>6, <1>7, <1>8 DEF H, hang

\* The search is over with the last one who wants something, not before.
LEMMA RestedKeeps ==
  ASSUME scan \in [Node -> ScanState], ScanHasSearcher,
         \A p \in Peer : /\ peer'[p].wanted \subseteq peer[p].wanted
                         /\ peer'[p].mapped /\ peer'[p].state = "keyed"
                              => peer[p].mapped /\ peer[p].state = "keyed",
         scan' = Rested(peer', scan)
  PROVE  scan' \in [Node -> ScanState] /\ ScanHasSearcher'
<1>1. \A n \in Node : scan'[n] = scan[n] \/ (scan'[n] = "stopping" /\ ~Searching(n, peer'))
  BY DEF Rested
<1>2. scan' \in [Node -> ScanState]
  BY DEF Rested, ScanState
<1>3. ASSUME NEW n \in Node, scan'[n] = "on" PROVE Searching(n, peer')
  BY <1>3 DEF Rested, ScanHasSearcher
<1>4. ASSUME NEW n \in Node, NEW p \in Peer, p[1] = n, peer'[p].mapped, peer'[p].state = "keyed",
             peer'[p].wanted # {}
      PROVE  scan'[n] \in {"starting", "failing", "on", "restarting"}
  <2>1. scan[n] \in {"starting", "failing", "on", "restarting"}
    BY <1>4 DEF ScanHasSearcher
  <2>2. Searching(n, peer')
    BY <1>4 DEF Searching
  <2>. QED BY <2>1, <2>2, <1>1
<1>. QED BY <1>2, <1>3, <1>4 DEF ScanHasSearcher

\* Nobody's wish changes, so no search ends.
LEMMA RestedIsIdle ==
  ASSUME scan \in [Node -> ScanState], NEW peers, \A p \in Peer : peers[p].wanted = peer[p].wanted
  PROVE  Rested(peers, scan) = scan
<1>1. \A n \in Node : Searching(n, peers) <=> Searching(n, peer)
  BY DEF Searching
<1>. QED BY <1>1 DEF Rested

Holds(p) == peer[p].link = "own" \/ peer[p].central

\* Nobody loses a link that is to be held: whoever lets go of it has it cut.
LEMMA LinksHeld ==
  ASSUME BTInv,
         \A p \in Peer : /\ Fit(peer'[p]) /\ peer'[p].wanted \subseteq peer[p].wanted
                         /\ peer[p].link = "own" /\ InUse(LinkOf(p))'
                              => peer'[p].link \in {"own", "ownClosing"},
         \A l \in Link :
           /\ link'[l].up => link[l].up
           /\ link'[l].up /\ link[l].hangup => link'[l].hangup
           /\ link'[l].up /\ link[l].forgotten => link'[l].forgotten
           /\ link'[l].up /\ LetsGo(l, peer') => link'[l].hangup
           /\ link'[l].owner # NoPeer => peer'[link'[l].owner].central,
         UNCHANGED <<on, opening, closed>>
  PROVE  /\ AllFit' /\ CentralsWant' /\ OwnerIsCentral' /\ SwitchedOff' /\ OffIsHung'
         /\ \A l \in Link : InUse(l)' => InUse(l)
         /\ \A p \in Peer : InUse(LinkOf(p))' /\ peer[p].link = "own" => peer'[p].link = "own"
         /\ \A p \in Peer : InUse(LinkOf(p))' /\ Holds(p) => Holds(p)'
<1>. USE LinkFacts, PeerFacts
<1>1. AllFit' /\ OwnerIsCentral' /\ SwitchedOff'
  BY DEF BTInv, AllFit, OwnerIsCentral, SwitchedOff
<1>2. CentralsWant'
  BY DEF BTInv, CentralsWant, IsCentral
<1>3. OffIsHung'
  BY DEF BTInv, OffIsHung
<1>4. \A l \in Link : InUse(l)' => InUse(l)
  BY DEF InUse
<1>5. ASSUME NEW p \in Peer, InUse(LinkOf(p))', peer[p].link = "own" PROVE peer'[p].link = "own"
  BY <1>5 DEF InUse, LetsGo
<1>6. ASSUME NEW p \in Peer, InUse(LinkOf(p))', Holds(p) PROVE Holds(p)'
  <2>1. InUse(LinkOf(p))
    BY <1>4, <1>6
  <2>2. on[p[1]]
    BY <2>1 DEF BTInv, OffIsHung, InUse
  <2>3. CASE peer[p].link = "own"
    BY <2>3, <1>5, <1>6 DEF Holds
  <2>4. CASE peer[p].central
    BY <2>2, <2>4, <1>6 DEF Holds, InUse, LetsGo
  <2>. QED BY <1>6, <2>3, <2>4 DEF Holds
<1>. QED BY <1>1, <1>2, <1>3, <1>4, <1>5, <1>6

\* LinkHasOwner, link by link.
LEMMA LinkHasOwnerIs ==
  LinkHasOwner <=>
    \A l \in Link : InUse(l) =>
       \/ \E p \in Peer : LinkOf(p) = l /\ Holds(p)
       \/ probe[l[1]].dev = l[2] /\ probe[l[1]].own /\ probe[l[1]].step # "close"
BY DEF LinkHasOwner, InUse, Holds

\* The same, of the next state.
LEMMA LinkHasOwnerIsNext ==
  LinkHasOwner' <=>
    \A l \in Link : InUse(l)' =>
       \/ \E p \in Peer : LinkOf(p) = l /\ Holds(p)'
       \/ probe'[l[1]].dev = l[2] /\ probe'[l[1]].own /\ probe'[l[1]].step # "close"
BY DEF LinkHasOwner, InUse, Holds, LinkOf, IsCentral

\* What a step does that no probe takes.
LEMMA Stays ==
  ASSUME BTInv,
         \A p \in Peer : /\ Fit(peer'[p]) /\ peer'[p].wanted \subseteq peer[p].wanted
                         /\ peer[p].link = "own" /\ InUse(LinkOf(p))'
                              => peer'[p].link \in {"own", "ownClosing"},
         \A l \in Link :
           /\ link'[l].up => link[l].up
           /\ link'[l].up /\ link[l].hangup => link'[l].hangup
           /\ link'[l].up /\ link[l].forgotten => link'[l].forgotten
           /\ link'[l].up /\ LetsGo(l, peer') => link'[l].hangup
           /\ link'[l].owner # NoPeer => peer'[link'[l].owner].central,
         UNCHANGED <<on, opening, closed, probe>>
  PROVE  /\ AllFit' /\ CentralsWant' /\ OwnerIsCentral' /\ SwitchedOff' /\ OffIsHung'
         /\ ProbesInHand' /\ LinkHasOwner'
<1>1. /\ AllFit' /\ CentralsWant' /\ OwnerIsCentral' /\ SwitchedOff' /\ OffIsHung'
      /\ \A l \in Link : InUse(l)' => InUse(l)
      /\ \A p \in Peer : InUse(LinkOf(p))' /\ peer[p].link = "own" => peer'[p].link = "own"
      /\ \A p \in Peer : InUse(LinkOf(p))' /\ Holds(p) => Holds(p)'
  BY LinksHeld
<1>2. ProbesInHand'
  <2>1. SUFFICES ASSUME NEW n \in Node PROVE ProbeInHand(n)'
    BY DEF ProbesInHand
  <2>2. ProbeInHand(n) /\ Probed(n)' = Probed(n)
    BY DEF BTInv, ProbesInHand, Probed
  <2>3. probe[n].step = "subscribe" => Probed(n) \in Link
    BY <2>2 DEF ProbeInHand
  <2>4. InUse(Probed(n))' => InUse(LinkOf(probe[n].peer))' \/ probe[n].step # "subscribe"
    BY <2>2 DEF ProbeInHand
  <2>. QED BY <1>1, <2>2, <2>3, <2>4 DEF ProbeInHand, LinkOf, IsCentral
<1>3. LinkHasOwner'
  <2>1. SUFFICES ASSUME NEW l \in Link, InUse(l)'
                 PROVE \/ \E p \in Peer : LinkOf(p) = l /\ Holds(p)'
                       \/ probe'[l[1]].dev = l[2] /\ probe'[l[1]].own /\ probe'[l[1]].step # "close"
    BY LinkHasOwnerIsNext
  <2>2. \/ \E p \in Peer : LinkOf(p) = l /\ Holds(p)
        \/ probe[l[1]].dev = l[2] /\ probe[l[1]].own /\ probe[l[1]].step # "close"
    BY <1>1, <2>1, LinkHasOwnerIs DEF BTInv
  <2>. QED BY <1>1, <2>1, <2>2
<1>. QED BY <1>1, <1>2, <1>3

\* What TypeOK says besides peers and search.
PlainTyped ==
  /\ on \in [Node -> BOOLEAN] /\ closed \in [Node -> BOOLEAN]
  /\ opening \in [Node -> {"no", "bus", "service"}]
  /\ bid \in [Node -> Nat]
  /\ \A n \in Node : bid[n] <= MaxBid[n]
  /\ wire \in [Node -> Seq(Frame)]
  /\ troubles \in 0 .. MaxTroubles + 1
  /\ seen \in [Link -> Nat]

\* TypeOK, in the parts that steps keep together.
LEMMA TypeParts ==
  TypeOK <=>
    PlainTyped /\ peer \in [Peer -> BlePeer] /\ scan \in [Node -> ScanState] /\ OneMapped(peer)
BY DEF TypeOK, PlainTyped, ScanState, OneMapped

\* The same, of the next state.
LEMMA TypePartsNext ==
  TypeOK' <=>
    PlainTyped' /\ peer' \in [Peer -> BlePeer] /\ scan' \in [Node -> ScanState] /\ OneMapped(peer')
BY DEF TypeOK, PlainTyped, ScanState, OneMapped

\* Methods that take from peers, with what that means for links and search.
LEMMA BecomeKeeps ==
  ASSUME BTInv, PlainTyped',
         NEW peers \in [Peer -> BlePeer], OneMapped(peers),
         \A p \in Peer : Follows(peers[p], peer[p]),
         NEW links, links \in [Link -> LinkState],
         \A l \in Link : /\ JobsHavePeers(links[l])
                         /\ links[l].up = link[l].up /\ links[l].forgotten = link[l].forgotten
                         /\ link[l].hangup => links[l].hangup,
         BecomeAll(peers, links, scan),
         UNCHANGED <<on, opening, closed, probe>>
  PROVE  BTInv'
<1>1. peer' = peers /\ link' = Hung(peers, links) /\ scan' = Rested(peers, scan)
  BY DEF BecomeAll
<1>2. /\ on \in [Node -> BOOLEAN] /\ peer \in [Peer -> BlePeer] /\ scan \in [Node -> ScanState]
      /\ probe \in [Node -> ProbeState] /\ ScanHasSearcher
  BY TypeParts DEF BTInv, PlainTyped, ProbesTyped
<1>3. /\ link' \in [Link -> LinkState]
      /\ \A l \in Link : /\ JobsHavePeers(link'[l])
                         /\ link'[l].up = link[l].up /\ link'[l].forgotten = link[l].forgotten
                         /\ link[l].hangup => link'[l].hangup
                         /\ link[l].up /\ LetsGo(l, peer') => link'[l].hangup
                         /\ link'[l].owner # NoPeer => peer'[link'[l].owner].central
  <2>1. /\ link' \in [Link -> LinkState]
        /\ \A l \in Link : /\ JobsHavePeers(link'[l])
                           /\ link'[l].up = links[l].up /\ link'[l].forgotten = links[l].forgotten
                           /\ links[l].hangup \/ (links[l].up /\ LetsGo(l, peers)) => link'[l].hangup
                           /\ link'[l].owner # NoPeer => peers[link'[l].owner].central
    BY <1>1, <1>2, HungGives
  <2>2. \A l \in Link : LetsGo(l, peer') = LetsGo(l, peers)
    BY <1>1
  <2>. QED BY <1>1, <2>1, <2>2
<1>4. /\ AllFit' /\ CentralsWant' /\ OwnerIsCentral' /\ SwitchedOff' /\ OffIsHung'
      /\ ProbesInHand' /\ LinkHasOwner'
  BY <1>1, <1>3, Stays DEF Follows
<1>5. scan' \in [Node -> ScanState] /\ ScanHasSearcher'
  BY <1>1, <1>2, RestedKeeps DEF Follows
<1>6. TypeOK'
  BY <1>1, <1>5, TypePartsNext
<1>7. LinksTyped' /\ ProbesTyped'
  BY <1>2, <1>3 DEF LinksTyped, ProbesTyped, JobsHavePeers
<1>. QED BY <1>4, <1>5, <1>6, <1>7 DEF BTInv

\* Steps by which nobody lets go of anything.
LEMMA StayKeeps ==
  ASSUME BTInv, PlainTyped',
         peer' \in [Peer -> BlePeer], OneMapped(peer'),
         \A p \in Peer : /\ Follows(peer'[p], peer[p])
                         /\ peer'[p].wanted = peer[p].wanted
                         /\ peer'[p].link = peer[p].link /\ peer'[p].central = peer[p].central,
         link' \in [Link -> LinkState],
         \A l \in Link : /\ JobsHavePeers(link'[l])
                         /\ link'[l].up = link[l].up /\ link'[l].forgotten = link[l].forgotten
                         /\ link[l].hangup => link'[l].hangup
                         /\ link'[l].owner = link[l].owner,
         UNCHANGED <<on, opening, closed, probe, scan>>
  PROVE  BTInv'
<1>1. /\ scan \in [Node -> ScanState] /\ probe \in [Node -> ProbeState]
      /\ link \in [Link -> LinkState] /\ OwnerIsCentral
  BY TypeParts DEF BTInv, ProbesTyped, LinksTyped
<1>2. scan' = Rested(peer', scan)
  BY <1>1, RestedIsIdle
<1>3. \A l \in Link : ~LetsGo(l, peer')
  BY DEF LetsGo
<1>4. ASSUME NEW l \in Link, link'[l].owner # NoPeer PROVE peer'[link'[l].owner].central
  <2>1. link[l].owner \in Peer
    BY <1>1, <1>4 DEF LinkState, PeerOrNone
  <2>. QED BY <1>1, <1>4, <2>1 DEF OwnerIsCentral
<1>5. /\ AllFit' /\ CentralsWant' /\ OwnerIsCentral' /\ SwitchedOff' /\ OffIsHung'
      /\ ProbesInHand' /\ LinkHasOwner'
  BY <1>3, <1>4, Stays DEF Follows
<1>6. TypeOK'
  BY <1>1, TypePartsNext
<1>7. LinksTyped' /\ ProbesTyped'
  BY SMTT(30), <1>1 DEF LinksTyped, ProbesTyped, JobsHavePeers
<1>8. ScanHasSearcher'
  BY <1>1, <1>2, RestedKeeps DEF Follows, BTInv
<1>. QED BY <1>5, <1>6, <1>7, <1>8 DEF BTInv

\* The types the invariant gives.
LEMMA InvTypes ==
  ASSUME BTInv
  PROVE  /\ PlainTyped /\ peer \in [Peer -> BlePeer] /\ scan \in [Node -> ScanState] /\ OneMapped(peer)
         /\ link \in [Link -> LinkState] /\ \A l \in Link : JobsHavePeers(link[l])
         /\ probe \in [Node -> ProbeState]
         /\ \A p \in Peer : Follows(peer[p], peer[p])
BY TypeParts, ItselfKeeps DEF BTInv, LinksTyped, ProbesTyped, AllFit, Keeps

\* The same if the links are not touched, or the peers are not.
LEMMA PeersStay ==
  ASSUME BTInv, PlainTyped',
         peer' \in [Peer -> BlePeer], OneMapped(peer'),
         \A p \in Peer : /\ Follows(peer'[p], peer[p])
                         /\ peer'[p].wanted = peer[p].wanted
                         /\ peer'[p].link = peer[p].link /\ peer'[p].central = peer[p].central,
         UNCHANGED <<on, opening, closed, probe, scan, link>>
  PROVE  BTInv'
BY InvTypes, StayKeeps

\* What is only written on links or read from them disturbs nothing else.
LEMMA LinksStay ==
  ASSUME BTInv, PlainTyped',
         link' \in [Link -> LinkState],
         \A l \in Link : /\ JobsHavePeers(link'[l])
                         /\ link'[l].up = link[l].up /\ link'[l].forgotten = link[l].forgotten
                         /\ link[l].hangup => link'[l].hangup
                         /\ link'[l].owner = link[l].owner,
         UNCHANGED <<on, opening, closed, probe, scan, peer>>
  PROVE  BTInv'
BY InvTypes, StayKeeps

\* Nor does what concerns neither peers nor links nor the search.
LEMMA NothingMoves ==
  ASSUME BTInv, PlainTyped', UNCHANGED <<on, opening, closed, probe, scan, peer, link>>
  PROVE  BTInv'
BY InvTypes, StayKeeps

\* One peer alone is changed, in what neither links nor search depend on.
LEMMA OnePeerStays ==
  ASSUME BTInv, PlainTyped', NEW p \in Peer, NEW r, Keeps(r, peer[p]),
         r.wanted = peer[p].wanted, r.link = peer[p].link, r.central = peer[p].central,
         peer' = [peer EXCEPT ![p] = r],
         UNCHANGED <<on, opening, closed, probe, scan, link>>
  PROVE  BTInv'
<1>1. r \in BlePeer /\ Follows(r, peer[p]) /\ (r.mapped => peer[p].mapped)
  BY DEF Keeps, Follows
<1>2. peer \in [Peer -> BlePeer] /\ OneMapped(peer) /\ \A q \in Peer : Follows(peer[q], peer[q])
  BY InvTypes
<1>3. peer' \in [Peer -> BlePeer]
  BY <1>1, <1>2
<1>4. \A q \in Peer : peer'[q] = IF q = p THEN r ELSE peer[q]
  BY <1>2
<1>5. OneMapped(peer')
  BY <1>1, <1>2, <1>4 DEF OneMapped
<1>6. \A q \in Peer : /\ Follows(peer'[q], peer[q])
                      /\ peer'[q].wanted = peer[q].wanted
                      /\ peer'[q].link = peer[q].link /\ peer'[q].central = peer[q].central
  BY <1>1, <1>2, <1>4
<1>. QED BY <1>3, <1>5, <1>6, PeersStay

\* And one is taken from.
LEMMA OneBecomes ==
  ASSUME BTInv, PlainTyped', NEW p \in Peer, NEW r, Keeps(r, peer[p]),
         NEW links, links \in [Link -> LinkState],
         \A l \in Link : /\ JobsHavePeers(links[l])
                         /\ links[l].up = link[l].up /\ links[l].forgotten = link[l].forgotten
                         /\ link[l].hangup => links[l].hangup,
         BecomeAll([peer EXCEPT ![p] = r], links, scan),
         UNCHANGED <<on, opening, closed, probe>>
  PROVE  BTInv'
<1>. DEFINE peers == [peer EXCEPT ![p] = r]
<1>1. r \in BlePeer /\ Follows(r, peer[p]) /\ (r.mapped => peer[p].mapped)
  BY DEF Keeps, Follows
<1>2. peer \in [Peer -> BlePeer] /\ OneMapped(peer) /\ \A q \in Peer : Follows(peer[q], peer[q])
  BY InvTypes
<1>3. peers \in [Peer -> BlePeer]
  BY <1>1, <1>2
<1>4. \A q \in Peer : peers[q] = IF q = p THEN r ELSE peer[q]
  BY <1>2
<1>. HIDE DEF peers
<1>5. OneMapped(peers)
  BY <1>1, <1>2, <1>4 DEF OneMapped
<1>6. \A q \in Peer : Follows(peers[q], peer[q])
  BY <1>1, <1>2, <1>4
<1>7. BecomeAll(peers, links, scan)
  BY DEF peers
<1>. QED BY <1>3, <1>5, <1>6, <1>7, BecomeKeeps

----
\* Signals.

\* A signal leaves frames on the wires.
LEMMA SignalTyped ==
  ASSUME PlainTyped, NEW p \in Peer, NEW kind \in {"offer", "answer"}, Signal(p, kind)
  PROVE  wire' \in [Node -> Seq(Frame)]
<1>1. bid[p[1]] \in Nat
  BY PeerFacts DEF PlainTyped
<1>2. [by |-> p, bid |-> bid[p[1]]] \in Half
  BY <1>1 DEF Half
<1>3. [kind |-> kind, half |-> [by |-> p, bid |-> bid[p[1]]]] \in Frame
  BY <1>2 DEF Frame
<1>4. wire \in [Node -> Seq(Frame)] /\ p[2] \in Node
  BY PeerFacts DEF PlainTyped
<1>. DEFINE f == [kind |-> kind, half |-> [by |-> p, bid |-> bid[p[1]]]]
<1>5. wire' = [wire EXCEPT ![p[2]] = Append(@, f)]
  BY DEF Signal
<1>. HIDE DEF f
<1>6. Append(wire[p[2]], f) \in Seq(Frame)
  BY <1>3, <1>4 DEF f
<1>. QED BY <1>4, <1>5, <1>6

\* So does reading one.
LEMMA TailTyped ==
  ASSUME PlainTyped, NEW n \in Node, wire[n] # <<>>, wire' = [wire EXCEPT ![n] = Tail(@)]
  PROVE  /\ wire' \in [Node -> Seq(Frame)]
         /\ Head(wire[n]) \in Frame /\ Head(wire[n]).half \in Half
<1>1. wire \in [Node -> Seq(Frame)]
  BY DEF PlainTyped
<1>2. Head(wire[n]) \in Frame /\ Tail(wire[n]) \in Seq(Frame)
  BY <1>1
<1>. QED BY <1>1, <1>2 DEF Frame

\* _newPeer takes a peer that nobody uses.
LEMMA NewPeerFacts ==
  ASSUME NEW n, NEW t, NEW p \in NewPeer(n, t)
  PROVE  p \in Peer /\ p[1] = n /\ p[2] = t /\ Idle(peer[p])
BY DEF NewPeer, Free

\* Nothing is left in a peer that is used anew.
LEMMA NewFollows ==
  ASSUME NEW r \in BlePeer, Idle(r), NEW s \in BlePeer, Fit(s), s.wanted = {}, s.state = "new",
         s.link = "none", ~s.central
  PROVE  Follows(s, r) /\ s.wanted = r.wanted /\ s.link = r.link /\ s.central = r.central
BY DEF Follows, Idle, BlePeer

\* An offer is begun: the peer that takes the place of another is fit, the
\* other closed.
LEMMA UpgradeStep ==
  ASSUME BTInv, NEW n \in Node, NEW t \in Node \ {n}, Upgrade(n, t)
  PROVE  BTInv'
<1>1. PICK p \in NewPeer(n, t) :
        peer' = [q \in Peer |->
                  IF q = p THEN [Unused EXCEPT !.state = "new", !.mapped = TRUE, !.making = "offer"]
                  ELSE IF q \in Mapped(n, t) THEN [peer[q] EXCEPT !.mapped = FALSE]
                  ELSE peer[q]]
  BY DEF Upgrade
<1>. DEFINE s == [Unused EXCEPT !.state = "new", !.mapped = TRUE, !.making = "offer"]
<1>2. p \in Peer /\ p[1] = n /\ p[2] = t /\ Idle(peer[p])
  BY NewPeerFacts
<1>3. s \in BlePeer
  BY UnusedFit DEF BlePeer
<1>4. Fit(s) /\ s.wanted = {} /\ s.state = "new" /\ s.link = "none" /\ ~s.central
  BY DEF Fit, Unused
<1>5. peer \in [Peer -> BlePeer] /\ OneMapped(peer) /\ PlainTyped /\ AllFit
  BY InvTypes DEF BTInv
<1>6. ASSUME NEW q \in Peer
      PROVE  LET r == [peer[q] EXCEPT !.mapped = FALSE] IN
             /\ r \in BlePeer /\ ~r.mapped /\ Follows(r, peer[q])
             /\ r.wanted = peer[q].wanted /\ r.link = peer[q].link /\ r.central = peer[q].central
  <2>. DEFINE r == [peer[q] EXCEPT !.mapped = FALSE]
  <2>0. peer[q] \in BlePeer
    BY <1>5
  <2>1. r \in BlePeer
    BY <2>0 DEF BlePeer
  <2>2. /\ ~r.mapped /\ r.state = peer[q].state /\ r.wanted = peer[q].wanted /\ r.link = peer[q].link
        /\ r.central = peer[q].central /\ r.timer = peer[q].timer /\ r.making = peer[q].making
        /\ r.deriving = peer[q].deriving
    BY <1>5 DEF BlePeer
  <2>3. Fit(peer[q])
    BY <1>5 DEF AllFit
  <2>. HIDE DEF r
  <2>4. Follows(r, peer[q])
    BY <2>1, <2>2, <2>3 DEF Follows, Fit
  <2>. QED BY <2>1, <2>2, <2>4 DEF r
<1>. HIDE DEF s
<1>7. \A q \in Peer : peer'[q] = IF q = p THEN s ELSE IF q \in Mapped(n, t)
                                 THEN [peer[q] EXCEPT !.mapped = FALSE] ELSE peer[q]
  BY <1>1, <1>2 DEF s
<1>8. \A q \in Peer : /\ Follows(peer'[q], peer[q])
                      /\ peer'[q].wanted = peer[q].wanted
                      /\ peer'[q].link = peer[q].link /\ peer'[q].central = peer[q].central
  <2>1. SUFFICES ASSUME NEW q \in Peer
                 PROVE  /\ Follows(peer'[q], peer[q])
                        /\ peer'[q].wanted = peer[q].wanted
                        /\ peer'[q].link = peer[q].link /\ peer'[q].central = peer[q].central
    OBVIOUS
  <2>2. CASE q = p
    <3>1. peer[p] \in BlePeer
      BY <1>2, <1>5
    <3>2. /\ Follows(s, peer[p]) /\ s.wanted = peer[p].wanted
          /\ s.link = peer[p].link /\ s.central = peer[p].central
      BY <3>1, <1>2, <1>3, <1>4, NewFollows
    <3>3. peer'[q] = s
      BY <2>2, <1>2, <1>7
    <3>. QED BY <2>2, <3>2, <3>3
  <2>3. CASE q # p /\ q \in Mapped(n, t)
    BY <2>3, <1>6, <1>7
  <2>4. CASE q # p /\ q \notin Mapped(n, t)
    BY <2>4, <1>7, InvTypes
  <2>. QED BY <2>2, <2>3, <2>4
<1>9. peer' \in [Peer -> BlePeer]
  BY <1>1, <1>8 DEF Follows
<1>10. OneMapped(peer')
  <2>1. \A q \in Peer : q # p /\ peer'[q].mapped => peer[q].mapped /\ ~(q[1] = n /\ q[2] = t)
    BY <1>6, <1>7 DEF Mapped
  <2>. QED BY <1>2, <1>5, <2>1 DEF OneMapped
<1>11. PlainTyped'
  BY <1>5 DEF PlainTyped, Upgrade
<1>12. UNCHANGED <<on, opening, closed, probe, scan, link>>
  BY DEF Upgrade
<1>. QED BY <1>8, <1>9, <1>10, <1>11, <1>12, PeersStay

\* The offer's ephemeral key is there.
LEMMA OfferReadyStep ==
  ASSUME BTInv, NEW p \in Peer, OfferReady(p)
  PROVE  BTInv'
<1>. DEFINE b == bid[p[1]]
            r == [peer[p] EXCEPT !.making = "no", !.state = "offered", !.myBid = b, !.timer = TRUE]
<1>1. peer \in [Peer -> BlePeer] /\ PlainTyped /\ b \in Nat
  BY InvTypes, PeerFacts DEF PlainTyped
<1>2. r \in BlePeer
  <2>. HIDE DEF b
  <2>1. peer[p] \in BlePeer
    BY <1>1
  <2>. QED BY <1>1, <2>1 DEF BlePeer
<1>3. /\ r.state = "offered" /\ r.timer /\ r.wanted = peer[p].wanted /\ r.link = peer[p].link
      /\ r.central = peer[p].central /\ r.mapped = peer[p].mapped
  BY <1>1 DEF BlePeer
<1>4. peer' = [peer EXCEPT ![p] = r]
  BY <1>1 DEF OfferReady
<1>5. UNCHANGED <<on, opening, closed, bid, scan, probe, seen, link, troubles>>
  BY DEF OfferReady
<1>6. PlainTyped'
  BY <1>1, <1>5, SignalTyped DEF OfferReady, PlainTyped
<1>. HIDE DEF r
<1>7. Keeps(r, peer[p])
  BY <1>2, <1>3 DEF Keeps, Follows, Fit
<1>. QED BY <1>3, <1>4, <1>5, <1>6, <1>7, OnePeerStays

\* The answer's is.
LEMMA AnswerReadyStep ==
  ASSUME BTInv, NEW p \in Peer, AnswerReady(p)
  PROVE  BTInv'
<1>. DEFINE b == bid[p[1]]
            r == [peer[p] EXCEPT !.making = "no", !.myBid = b]
<1>1. peer \in [Peer -> BlePeer] /\ PlainTyped /\ b \in Nat /\ Fit(peer[p])
  BY InvTypes, PeerFacts DEF PlainTyped, BTInv, AllFit
<1>2. r \in BlePeer
  <2>. HIDE DEF b
  <2>1. peer[p] \in BlePeer
    BY <1>1
  <2>. QED BY <1>1, <2>1 DEF BlePeer
<1>3. /\ r.state = peer[p].state /\ r.timer = peer[p].timer /\ r.wanted = peer[p].wanted
      /\ r.link = peer[p].link /\ r.deriving = peer[p].deriving
      /\ r.central = peer[p].central /\ r.mapped = peer[p].mapped
  BY <1>1 DEF BlePeer
<1>4. peer' = [peer EXCEPT ![p] = r]
  BY <1>1 DEF AnswerReady
<1>5. UNCHANGED <<on, opening, closed, bid, scan, probe, seen, link, troubles>>
  BY DEF AnswerReady
<1>6. PlainTyped'
  BY <1>1, <1>5, SignalTyped DEF AnswerReady, PlainTyped
<1>8. peer[p].making = "answer"
  BY DEF AnswerReady
<1>. HIDE DEF r
<1>7. Keeps(r, peer[p])
  BY <1>1, <1>2, <1>3, <1>8 DEF Keeps, Follows, Fit
<1>. QED BY <1>3, <1>4, <1>5, <1>6, <1>7, OnePeerStays

\* Troubles are counted up to one more than the bound.
LEMMA MarredTyped ==
  ASSUME PlainTyped, NEW x \in BOOLEAN, Marred(x)
  PROVE  troubles' \in 0 .. MaxTroubles + 1
BY BluetoothAssumptions DEF PlainTyped, Marred, BluetoothAssumptions

\* So are those that something external causes.
LEMMA TroubleTyped ==
  ASSUME PlainTyped, Trouble \/ UNCHANGED troubles
  PROVE  troubles' \in 0 .. MaxTroubles + 1
BY BluetoothAssumptions DEF PlainTyped, Trouble, BluetoothAssumptions

\* A signal arrives: a peer is made, or derives the key.
LEMMA ReceiveStep ==
  ASSUME BTInv, NEW n \in Node, Receive(n)
  PROVE  BTInv'
<1>. DEFINE f == Head(wire[n])
            t == f.half.by[1]
            known == Mapped(n, t)
<1>1. /\ PlainTyped /\ peer \in [Peer -> BlePeer] /\ OneMapped(peer) /\ AllFit
      /\ link \in [Link -> LinkState] /\ \A l \in Link : JobsHavePeers(link[l])
  BY InvTypes DEF BTInv
<1>2. wire' \in [Node -> Seq(Frame)] /\ f \in Frame /\ f.half \in Half
  BY <1>1, TailTyped DEF Receive
<1>3. UNCHANGED <<on, opening, closed, bid, probe, seen>>
  BY DEF Receive
<1>. HIDE DEF f
<1>4. ASSUME NEW p \in known, TakenForAnswer(peer[p]),
             peer' = [peer EXCEPT ![p].rekeyed = @ \/ peer[p].deriving # {},
                                  ![p].deriving = @ \cup {f.half}],
             Marred(peer[p].deriving # {}), UNCHANGED <<scan, link>>
      PROVE  BTInv'
  <2>. DEFINE again == peer[p].rekeyed \/ peer[p].deriving # {}
              d == peer[p].deriving \cup {f.half}
              r == [peer[p] EXCEPT !.rekeyed = again, !.deriving = d]
  <2>1. p \in Peer /\ peer[p] \in BlePeer /\ Fit(peer[p]) /\ peer[p].state = "offered"
    BY <1>1, <1>4 DEF Mapped, AllFit, TakenForAnswer
  <2>2. again \in BOOLEAN /\ d \in SUBSET Half
    BY <1>2, <2>1 DEF BlePeer
  <2>3. peer' = [peer EXCEPT ![p] = r]
    BY <1>1, <1>4, <2>1
  <2>4. PlainTyped'
    BY <1>1, <1>2, <1>3, <1>4, MarredTyped DEF PlainTyped
  <2>. HIDE DEF again, d
  <2>5. r \in BlePeer
    BY <2>1, <2>2 DEF BlePeer
  <2>6. /\ r.state = peer[p].state /\ r.timer = peer[p].timer /\ r.wanted = peer[p].wanted
        /\ r.link = peer[p].link /\ r.central = peer[p].central /\ r.mapped = peer[p].mapped
    BY <2>1 DEF BlePeer
  <2>. HIDE DEF r
  <2>7. Keeps(r, peer[p])
    BY <2>1, <2>5, <2>6 DEF Keeps, Follows, Fit
  <2>. QED BY <1>3, <1>4, <2>1, <2>3, <2>4, <2>6, <2>7, OnePeerStays
<1>5. ASSUME NEW q \in NewPeer(n, t),
             BecomeAll([p \in Peer |->
                    IF p = q THEN [Unused EXCEPT !.state = "new", !.mapped = TRUE,
                                                 !.making = "answer", !.deriving = {f.half}]
                    ELSE IF p \in known THEN Close(peer[p]) ELSE peer[p]], link, scan),
             Marred(known # {})
      PROVE  BTInv'
  <2>. DEFINE s == [Unused EXCEPT !.state = "new", !.mapped = TRUE, !.making = "answer", !.deriving = {f.half}]
              peers == [p \in Peer |-> IF p = q THEN s ELSE IF p \in known THEN Close(peer[p]) ELSE peer[p]]
  <2>1. q \in Peer /\ q[1] = n /\ q[2] = t /\ Idle(peer[q]) /\ peer[q] \in BlePeer
    BY <1>1, NewPeerFacts
  <2>2. {f.half} \in SUBSET Half
    BY <1>2
  <2>3. s \in BlePeer
    BY <2>2, UnusedFit DEF BlePeer
  <2>4. Fit(s) /\ s.wanted = {} /\ s.state = "new" /\ s.link = "none" /\ ~s.central
    BY DEF Fit, Unused
  <2>5. BecomeAll(peers, link, scan)
    BY <1>5
  <2>. HIDE DEF s
  <2>6. Follows(s, peer[q])
    BY <2>1, <2>3, <2>4, NewFollows
  <2>7. \A p \in known : Follows(Close(peer[p]), peer[p]) /\ ~Close(peer[p]).mapped
    BY <1>1, CloseKeeps DEF Mapped, AllFit, Keeps
  <2>8. \A p \in Peer : peers[p] = IF p = q THEN s ELSE IF p \in known THEN Close(peer[p]) ELSE peer[p]
    OBVIOUS
  <2>9. \A p \in Peer : Follows(peers[p], peer[p])
    BY <2>6, <2>7, <2>8, InvTypes
  <2>10. peers \in [Peer -> BlePeer]
    BY <2>8, <2>9 DEF Follows
  <2>11. OneMapped(peers)
    <3>1. \A p \in Peer : p # q /\ peers[p].mapped => peer[p].mapped /\ ~(p[1] = n /\ p[2] = t)
      BY <2>7, <2>8 DEF Mapped
    <3>. QED BY <2>1, <1>1, <3>1 DEF OneMapped
  <2>12. PlainTyped'
    BY <1>1, <1>2, <1>3, <1>5, MarredTyped DEF PlainTyped
  <2>. HIDE DEF peers
  <2>. QED BY <1>1, <1>3, <2>5, <2>9, <2>10, <2>11, <2>12, BecomeKeeps
<1>6. ASSUME UNCHANGED <<peer, scan, link, troubles>>
      PROVE  BTInv'
  <2>1. PlainTyped'
    BY <1>1, <1>2, <1>3, <1>6 DEF PlainTyped
  <2>. QED BY <1>3, <1>6, <2>1, NothingMoves
<1>. QED BY <1>4, <1>5, <1>6 DEF Receive, f

----
\* The key, and the search.

\* Whatever becomes of the search: nobody takes or lets go of a link.
LEMMA HoldingsStay ==
  ASSUME BTInv,
         \A p \in Peer : /\ Fit(peer'[p])
                         /\ peer'[p].link = peer[p].link /\ peer'[p].central = peer[p].central,
         \A l \in Link : /\ link'[l].up = link[l].up /\ link'[l].forgotten = link[l].forgotten
                         /\ link'[l].hangup = link[l].hangup /\ link'[l].owner = link[l].owner,
         UNCHANGED <<on, opening, closed, probe>>
  PROVE  /\ AllFit' /\ OwnerIsCentral' /\ SwitchedOff' /\ OffIsHung' /\ ProbesInHand' /\ LinkHasOwner'
<1>. USE LinkFacts, PeerFacts
<1>1. AllFit'
  BY DEF AllFit
<1>2. OwnerIsCentral'
  <2>1. \A l \in Link : link[l].owner \in PeerOrNone
    BY InvTypes DEF LinkState
  <2>. QED BY <2>1 DEF BTInv, OwnerIsCentral, PeerOrNone
<1>3. SwitchedOff' /\ OffIsHung'
  BY DEF BTInv, SwitchedOff, OffIsHung
<1>4. ProbesInHand'
  <2>1. SUFFICES ASSUME NEW n \in Node PROVE ProbeInHand(n)'
    BY DEF ProbesInHand
  <2>2. ProbeInHand(n) /\ Probed(n)' = Probed(n)
    BY DEF BTInv, ProbesInHand, Probed
  <2>. QED BY <2>2 DEF ProbeInHand, InUse
<1>5. LinkHasOwner'
  BY DEF BTInv, LinkHasOwner
<1>. QED BY <1>1, <1>2, <1>3, <1>4, <1>5

\* _keyed, of the peer alone: it has a timer, and its central wants the bid it
\* was given.
LEMMA KeyedGives ==
  ASSUME peer \in [Peer -> BlePeer], NEW p \in Peer, NEW h \in Half, peer[p].making = "no"
  PROVE  LET r == Keyed(p, h) IN
         /\ r \in BlePeer /\ Fit(r) /\ r.mapped = peer[p].mapped
         /\ r.link = peer[p].link /\ r.central = peer[p].central
         /\ r.wanted = IF IsCentral(p) THEN peer[p].wanted \cup {h.bid} ELSE peer[p].wanted
<1>. DEFINE d == peer[p].deriving \ {h}
            w == IF IsCentral(p) THEN peer[p].wanted \cup {h.bid} ELSE peer[p].wanted
            r == [peer[p] EXCEPT !.deriving = d, !.half = h, !.state = "keyed", !.timer = TRUE, !.wanted = w]
<1>1. peer[p] \in BlePeer /\ h.bid \in Nat
  BY DEF Half
<1>2. d \in SUBSET Half /\ w \in SUBSET Nat
  BY <1>1 DEF BlePeer
<1>3. Keyed(p, h) = r
  BY <1>1 DEF Keyed, BlePeer
<1>. HIDE DEF d, w
<1>4. r \in BlePeer
  BY <1>1, <1>2 DEF BlePeer
<1>5. /\ r.state = "keyed" /\ r.timer /\ r.mapped = peer[p].mapped /\ r.link = peer[p].link
      /\ r.central = peer[p].central /\ r.wanted = w
  BY <1>1 DEF BlePeer
<1>. HIDE DEF r
<1>6. Fit(r)
  BY <1>5 DEF Fit
<1>. QED BY <1>3, <1>4, <1>5, <1>6 DEF w

\* The central has derived its key: it wants a bid, and searches.
LEMMA DerivedByCentral ==
  ASSUME BTInv, NEW p \in Peer, NEW h \in Half, peer[p].making = "no", IsCentral(p),
         peer' = [q \in Peer |->
                    IF q = p THEN Keyed(p, h)
                    ELSE IF q[1] = p[1] /\ q[2] = p[2] THEN [peer[q] EXCEPT !.wanted = @ \ {h.bid}]
                    ELSE peer[q]],
         scan' = [scan EXCEPT ![p[1]] = Searched(p[1])],
         UNCHANGED <<on, opening, closed, bid, wire, probe, seen, troubles, link>>
  PROVE  BTInv'
<1>. DEFINE n == p[1]
            r == Keyed(p, h)
            less(q) == [peer[q] EXCEPT !.wanted = @ \ {h.bid}]
<1>1. /\ PlainTyped /\ peer \in [Peer -> BlePeer] /\ OneMapped(peer) /\ AllFit
      /\ link \in [Link -> LinkState] /\ \A l \in Link : JobsHavePeers(link[l])
      /\ scan \in [Node -> ScanState] /\ probe \in [Node -> ProbeState]
      /\ CentralsWant /\ ScanHasSearcher /\ n \in Node
  BY InvTypes, PeerFacts DEF BTInv
<1>2. /\ r \in BlePeer /\ Fit(r) /\ r.mapped = peer[p].mapped
      /\ r.link = peer[p].link /\ r.central = peer[p].central
      /\ r.wanted = peer[p].wanted \cup {h.bid}
  BY <1>1, KeyedGives
<1>. HIDE DEF r
<1>3. ASSUME NEW q \in Peer
      PROVE  /\ less(q) \in BlePeer /\ Fit(less(q)) /\ less(q).mapped = peer[q].mapped
             /\ less(q).link = peer[q].link /\ less(q).central = peer[q].central
             /\ less(q).state = peer[q].state /\ less(q).wanted = peer[q].wanted \ {h.bid}
  <2>. DEFINE s == peer[q]
              w == s.wanted \ {h.bid}
  <2>1. s \in BlePeer /\ Fit(s) /\ w \in SUBSET Nat
    BY <1>1 DEF AllFit, BlePeer
  <2>2. less(q) = [s EXCEPT !.wanted = w]
    OBVIOUS
  <2>. HIDE DEF s, w, less
  <2>3. less(q) \in BlePeer
    BY <2>1, <2>2 DEF BlePeer
  <2>4. /\ less(q).mapped = s.mapped /\ less(q).link = s.link /\ less(q).central = s.central
        /\ less(q).state = s.state /\ less(q).timer = s.timer /\ less(q).making = s.making
        /\ less(q).deriving = s.deriving /\ less(q).wanted = w
    BY <2>1, <2>2 DEF BlePeer
  <2>5. Fit(less(q))
    BY <2>1, <2>4 DEF Fit
  <2>. QED BY <2>3, <2>4, <2>5 DEF s, w
<1>4. \A q \in Peer : peer'[q] = IF q = p THEN r ELSE IF q[1] = n /\ q[2] = p[2] THEN less(q) ELSE peer[q]
  BY DEF r
<1>. HIDE DEF less
<1>5. \A q \in Peer : /\ peer'[q] \in BlePeer /\ Fit(peer'[q]) /\ peer'[q].mapped = peer[q].mapped
                      /\ peer'[q].link = peer[q].link /\ peer'[q].central = peer[q].central
                      /\ q # p => peer'[q].state = peer[q].state /\ peer'[q].wanted \subseteq peer[q].wanted
                      /\ q[1] # n => peer'[q].wanted = peer[q].wanted
  <2>1. SUFFICES ASSUME NEW q \in Peer
                 PROVE  /\ peer'[q] \in BlePeer /\ Fit(peer'[q]) /\ peer'[q].mapped = peer[q].mapped
                        /\ peer'[q].link = peer[q].link /\ peer'[q].central = peer[q].central
                        /\ q # p => peer'[q].state = peer[q].state /\ peer'[q].wanted \subseteq peer[q].wanted
                        /\ q[1] # n => peer'[q].wanted = peer[q].wanted
    OBVIOUS
  <2>2. CASE q = p
    BY <2>2, <1>2, <1>4
  <2>3. CASE q # p /\ q[1] = n /\ q[2] = p[2]
    BY <2>3, <1>3, <1>4
  <2>4. CASE q # p /\ ~(q[1] = n /\ q[2] = p[2])
    BY <2>4, <1>1, <1>4 DEF AllFit
  <2>. QED BY <2>2, <2>3, <2>4
<1>6. /\ AllFit' /\ OwnerIsCentral' /\ SwitchedOff' /\ OffIsHung' /\ ProbesInHand' /\ LinkHasOwner'
  BY <1>5, HoldingsStay
<1>7. peer' \in [Peer -> BlePeer] /\ OneMapped(peer')
  BY <1>1, <1>5 DEF OneMapped
<1>8. CentralsWant'
  <2>1. \A q \in Peer : peer'[q].wanted # {} => q = p \/ peer[q].wanted # {}
    BY <1>5
  <2>. QED BY <1>1, <2>1 DEF CentralsWant, IsCentral
<1>9. /\ scan' \in [Node -> ScanState] /\ scan'[n] \in {"starting", "failing", "on", "restarting"}
      /\ \A m \in Node : m # n => scan'[m] = scan[m]
  BY <1>1 DEF Searched, Asked, ScanState
<1>10. ScanHasSearcher'
  <2>1. ASSUME NEW m \in Node, scan'[m] = "on" PROVE Searching(m, peer')
    <3>1. CASE m = n
      BY <3>1, <1>2, <1>4 DEF Searching
    <3>2. CASE m # n
      BY <3>2, <2>1, <1>1, <1>5, <1>9 DEF ScanHasSearcher, Searching
    <3>. QED BY <3>1, <3>2
  <2>2. ASSUME NEW m \in Node, NEW q \in Peer, q[1] = m, peer'[q].mapped, peer'[q].state = "keyed",
               peer'[q].wanted # {}
        PROVE  scan'[m] \in {"starting", "failing", "on", "restarting"}
    <3>1. CASE m = n
      BY <3>1, <1>9
    <3>2. CASE m # n
      BY <3>2, <2>2, <1>1, <1>5, <1>9 DEF ScanHasSearcher
    <3>. QED BY <3>1, <3>2
  <2>. QED BY <2>1, <2>2 DEF ScanHasSearcher
<1>11. TypeOK' /\ LinksTyped' /\ ProbesTyped'
  BY <1>1, <1>7, <1>9, TypePartsNext DEF PlainTyped, LinksTyped, ProbesTyped, JobsHavePeers
<1>. QED BY <1>6, <1>8, <1>10, <1>11 DEF BTInv

\* _retryHellos only asks that hellos be looked at again.
LEMMA RetryGives ==
  ASSUME link \in [Link -> LinkState], \A l \in Link : JobsHavePeers(link[l]), NEW n,
         link' = RetryHellos(n)
  PROVE  /\ link' \in [Link -> LinkState]
         /\ \A l \in Link : /\ JobsHavePeers(link'[l])
                            /\ link'[l].up = link[l].up /\ link'[l].forgotten = link[l].forgotten
                            /\ link'[l].hangup = link[l].hangup /\ link'[l].owner = link[l].owner
<1>. DEFINE again(l) == link[l].retry \/ (l[2] = n /\ link[l].owner = NoPeer /\ link[l].hello # NoRecord)
<1>1. \A l \in Link : link'[l] = [link[l] EXCEPT !.retry = again(l)]
  BY DEF RetryHellos
<1>2. \A l \in Link : link[l] \in LinkState /\ again(l) \in BOOLEAN
  BY DEF LinkState
<1>3. link' = [l \in Link |-> link'[l]]
  BY DEF RetryHellos
<1>. HIDE DEF again
<1>4. \A l \in Link : link'[l] \in LinkState
  BY ZenonT(40), <1>1, <1>2 DEF LinkState
<1>5. \A l \in Link : /\ link'[l].up = link[l].up /\ link'[l].forgotten = link[l].forgotten
                      /\ link'[l].hangup = link[l].hangup /\ link'[l].owner = link[l].owner
                      /\ link'[l].fromCentral = link[l].fromCentral
                      /\ link'[l].fromPeripheral = link[l].fromPeripheral
  BY ZenonT(40), <1>1, <1>2 DEF LinkState
<1>. QED BY <1>3, <1>4, <1>5 DEF JobsHavePeers

\* The peripheral has derived its key, and looks at the hellos it holds.
LEMMA DerivedByPeripheral ==
  ASSUME BTInv, NEW p \in Peer, NEW h \in Half, peer[p].making = "no", ~IsCentral(p),
         peer' = [peer EXCEPT ![p] = Keyed(p, h)],
         link' = RetryHellos(p[1]),
         UNCHANGED <<on, opening, closed, bid, wire, probe, seen, troubles, scan>>
  PROVE  BTInv'
<1>. DEFINE r == Keyed(p, h)
<1>1. /\ PlainTyped /\ peer \in [Peer -> BlePeer] /\ OneMapped(peer) /\ AllFit
      /\ link \in [Link -> LinkState] /\ \A l \in Link : JobsHavePeers(link[l])
      /\ scan \in [Node -> ScanState] /\ probe \in [Node -> ProbeState]
      /\ CentralsWant /\ ScanHasSearcher
  BY InvTypes DEF BTInv
<1>2. /\ r \in BlePeer /\ Fit(r) /\ r.mapped = peer[p].mapped
      /\ r.link = peer[p].link /\ r.central = peer[p].central
      /\ r.wanted = peer[p].wanted
  BY <1>1, KeyedGives
<1>. HIDE DEF r
<1>3. /\ link' \in [Link -> LinkState]
      /\ \A l \in Link : /\ JobsHavePeers(link'[l])
                         /\ link'[l].up = link[l].up /\ link'[l].forgotten = link[l].forgotten
                         /\ link'[l].hangup = link[l].hangup /\ link'[l].owner = link[l].owner
  BY <1>1, RetryGives
<1>4. \A q \in Peer : peer'[q] = IF q = p THEN r ELSE peer[q]
  BY <1>1 DEF r
<1>5. \A q \in Peer : /\ peer'[q] \in BlePeer /\ Fit(peer'[q]) /\ peer'[q].mapped = peer[q].mapped
                      /\ peer'[q].link = peer[q].link /\ peer'[q].central = peer[q].central
                      /\ peer'[q].wanted = peer[q].wanted
                      /\ q # p => peer'[q].state = peer[q].state
  BY <1>1, <1>2, <1>4 DEF AllFit
<1>6. /\ AllFit' /\ OwnerIsCentral' /\ SwitchedOff' /\ OffIsHung' /\ ProbesInHand' /\ LinkHasOwner'
  BY <1>3, <1>5, HoldingsStay
<1>7. peer' \in [Peer -> BlePeer] /\ OneMapped(peer')
  BY <1>1, <1>2, <1>5 DEF OneMapped, r
<1>8. CentralsWant'
  BY <1>1, <1>5 DEF CentralsWant, IsCentral
<1>9. peer[p].wanted = {}
  BY <1>1 DEF CentralsWant
<1>10. ScanHasSearcher'
  <2>1. \A m \in Node : Searching(m, peer) <=> Searching(m, peer')
    BY <1>5 DEF Searching
  <2>2. \A q \in Peer : peer'[q].wanted # {} => q # p
    BY <1>5, <1>9
  <2>. QED BY <1>1, <1>5, <2>1, <2>2 DEF ScanHasSearcher
<1>11. TypeOK' /\ LinksTyped' /\ ProbesTyped'
  BY <1>1, <1>3, <1>7, TypePartsNext DEF PlainTyped, LinksTyped, ProbesTyped, JobsHavePeers
<1>. QED BY <1>6, <1>8, <1>10, <1>11 DEF BTInv

\* The key is derived, or the negotiation has gone in the meantime.
LEMMA DerivedStep ==
  ASSUME BTInv, NEW p \in Peer, NEW h \in peer[p].deriving, Derived(p, h)
  PROVE  BTInv'
<1>1. h \in Half
  BY InvTypes DEF BlePeer
<1>. QED BY <1>1, DerivedByCentral, DerivedByPeripheral DEF Derived

\* The search alone begins or is over.
LEMMA ScanMoves ==
  ASSUME BTInv, NEW n \in Node, NEW x \in ScanState,
         scan' = [scan EXCEPT ![n] = x],
         x = "on" => Searching(n, peer),
         x \in {"off", "stopping"} => scan[n] \in {"off", "stopping"} \/ ~Searching(n, peer),
         UNCHANGED <<on, opening, closed, bid, wire, peer, probe, seen, link, troubles>>
  PROVE  BTInv'
<1>1. /\ PlainTyped /\ peer \in [Peer -> BlePeer] /\ OneMapped(peer) /\ AllFit
      /\ link \in [Link -> LinkState] /\ \A l \in Link : JobsHavePeers(link[l])
      /\ scan \in [Node -> ScanState] /\ probe \in [Node -> ProbeState]
      /\ CentralsWant /\ ScanHasSearcher
  BY InvTypes DEF BTInv
<1>2. scan' \in [Node -> ScanState] /\ \A m \in Node : scan'[m] = IF m = n THEN x ELSE scan[m]
  BY <1>1
<1>3. /\ AllFit' /\ OwnerIsCentral' /\ SwitchedOff' /\ OffIsHung' /\ ProbesInHand' /\ LinkHasOwner'
  BY <1>1, HoldingsStay DEF AllFit
<1>4. CentralsWant'
  BY <1>1 DEF CentralsWant, IsCentral
<1>5. ScanHasSearcher'
  <2>1. ASSUME NEW m \in Node, scan'[m] = "on" PROVE Searching(m, peer')
    BY <2>1, <1>1, <1>2 DEF ScanHasSearcher
  <2>2. ASSUME NEW m \in Node, NEW q \in Peer, q[1] = m, peer[q].mapped, peer[q].state = "keyed",
               peer[q].wanted # {}
        PROVE  scan'[m] \in {"starting", "failing", "on", "restarting"}
    <3>1. scan[m] \in {"starting", "failing", "on", "restarting"} /\ Searching(m, peer)
      BY <2>2, <1>1 DEF ScanHasSearcher, Searching
    <3>. QED BY <3>1, <1>2 DEF ScanState
  <2>. QED BY <2>1, <2>2 DEF ScanHasSearcher
<1>6. TypeOK' /\ LinksTyped' /\ ProbesTyped'
  BY <1>1, <1>2, TypePartsNext DEF PlainTyped, LinksTyped, ProbesTyped, JobsHavePeers, OneMapped
<1>. QED BY <1>3, <1>4, <1>5, <1>6 DEF BTInv

\* The search starts, for those who still want it.
LEMMA ScanStartsStep ==
  ASSUME BTInv, NEW n \in Node, ScanStarts(n)
  PROVE  BTInv'
<1>. DEFINE x == IF Searching(n, peer) THEN "on" ELSE "stopping"
<1>1. scan' = [scan EXCEPT ![n] = x] /\ x \in ScanState
  BY DEF ScanStarts, ScanState
<1>2. (x = "on" => Searching(n, peer)) /\ (x \in {"off", "stopping"} => ~Searching(n, peer))
  OBVIOUS
<1>. HIDE DEF x
<1>. QED BY <1>1, <1>2, ScanMoves DEF ScanStarts

\* It has stopped, or starts again for who has come since.
LEMMA ScanStoppedStep ==
  ASSUME BTInv, NEW n \in Node, ScanStopped(n)
  PROVE  BTInv'
<1>. DEFINE x == IF scan[n] = "restarting" THEN Asked(n) ELSE "off"
<1>1. scan' = [scan EXCEPT ![n] = x] /\ x \in ScanState
  BY DEF ScanStopped, ScanState, Asked
<1>2. x # "on" /\ (x \in {"off", "stopping"} => scan[n] = "stopping")
  BY DEF ScanStopped, Asked
<1>. HIDE DEF x
<1>. QED BY <1>1, <1>2, ScanMoves DEF ScanStopped

\* It cannot start: whoever wanted it fails.
LEMMA ScanFailsStep ==
  ASSUME BTInv, NEW n \in Node, ScanFails(n)
  PROVE  BTInv'
<1>. DEFINE peers == [p \in Peer |-> IF p[1] = n /\ peer[p].wanted # {} THEN Fail(peer[p]) ELSE peer[p]]
            scans == [scan EXCEPT ![n] = "off"]
<1>1. /\ PlainTyped /\ peer \in [Peer -> BlePeer] /\ OneMapped(peer) /\ AllFit
      /\ link \in [Link -> LinkState] /\ \A l \in Link : JobsHavePeers(link[l])
      /\ scan \in [Node -> ScanState] /\ probe \in [Node -> ProbeState]
      /\ CentralsWant /\ ScanHasSearcher /\ on \in [Node -> BOOLEAN]
  BY InvTypes DEF BTInv, PlainTyped
<1>2. peer' = peers /\ link' = Hung(peers, link) /\ scan' = Rested(peers, scans)
  BY DEF ScanFails, BecomeAll
<1>3. UNCHANGED <<on, opening, closed, bid, wire, probe, seen>> /\ (Trouble \/ UNCHANGED troubles)
  BY DEF ScanFails
<1>4. \A p \in Peer : /\ Keeps(peers[p], peer[p])
                      /\ p[1] # n => peers[p] = peer[p]
                      /\ p[1] = n => peers[p].wanted = {} \/ peers[p].state \in {"failed", "closed"}
  BY <1>1, FailKeeps, ItselfKeeps DEF AllFit
<1>5. peers \in [Peer -> BlePeer]
  BY <1>4 DEF Keeps, Follows
<1>. HIDE DEF peers
<1>6. OneMapped(peers)
  BY <1>1, <1>4 DEF OneMapped, Keeps
<1>7. /\ link' \in [Link -> LinkState]
      /\ \A l \in Link : /\ JobsHavePeers(link'[l])
                         /\ link'[l].up = link[l].up /\ link'[l].forgotten = link[l].forgotten
                         /\ link[l].hangup => link'[l].hangup
                         /\ link[l].up /\ LetsGo(l, peers) => link'[l].hangup
                         /\ link'[l].owner # NoPeer => peers[link'[l].owner].central
  <2>1. /\ link' \in [Link -> LinkState]
        /\ \A l \in Link : /\ JobsHavePeers(link'[l])
                           /\ link'[l].up = link[l].up /\ link'[l].forgotten = link[l].forgotten
                           /\ link[l].hangup \/ (link[l].up /\ LetsGo(l, peers)) => link'[l].hangup
                           /\ link'[l].owner # NoPeer => peers[link'[l].owner].central
    BY <1>1, <1>2, <1>5, HungGives
  <2>. QED BY <2>1
<1>8. \A l \in Link : LetsGo(l, peer') = LetsGo(l, peers)
  BY <1>2
<1>9. /\ AllFit' /\ CentralsWant' /\ OwnerIsCentral' /\ SwitchedOff' /\ OffIsHung'
      /\ ProbesInHand' /\ LinkHasOwner'
  BY <1>2, <1>3, <1>4, <1>7, <1>8, Stays DEF Keeps, Follows
<1>10. /\ \A m \in Node : Searching(m, peers) /\ m # n => Searching(m, peer)
       /\ \A m \in Node : Searching(m, peer) /\ m # n => Searching(m, peers)
  BY <1>4 DEF Searching
<1>11. \A m \in Node : scan'[m] = IF m = n THEN "off" ELSE scan[m]
  BY <1>1, <1>2, <1>10 DEF Rested
<1>12. scan' \in [Node -> ScanState]
  <2>1. scan' = [m \in Node |-> scan'[m]]
    BY <1>2 DEF Rested
  <2>2. \A m \in Node : scan'[m] \in ScanState
    BY <1>1, <1>11 DEF ScanState
  <2>. QED BY <2>1, <2>2
<1>13. ScanHasSearcher'
  <2>1. ASSUME NEW m \in Node, scan'[m] = "on" PROVE Searching(m, peers)
    BY <2>1, <1>1, <1>10, <1>11 DEF ScanHasSearcher
  <2>2. ASSUME NEW m \in Node, NEW q \in Peer, q[1] = m, peers[q].mapped, peers[q].state = "keyed",
               peers[q].wanted # {}
        PROVE  scan'[m] \in {"starting", "failing", "on", "restarting"}
    <3>1. m # n /\ peers[q] = peer[q]
      BY <2>2, <1>4
    <3>. QED BY <2>2, <3>1, <1>1, <1>11 DEF ScanHasSearcher
  <2>. QED BY <2>1, <2>2, <1>2 DEF ScanHasSearcher
<1>14. PlainTyped'
  BY <1>1, <1>3, TroubleTyped DEF PlainTyped
<1>15. TypeOK' /\ LinksTyped' /\ ProbesTyped'
  BY <1>1, <1>2, <1>3, <1>5, <1>6, <1>7, <1>12, <1>14, TypePartsNext DEF LinksTyped,
     ProbesTyped, JobsHavePeers
<1>. QED BY <1>9, <1>13, <1>15 DEF BTInv

\* A device that was looked at may be looked at again.
LEMMA SeenExpiresStep ==
  ASSUME BTInv, NEW l \in Link, SeenExpires(l)
  PROVE  BTInv'
<1>1. PlainTyped
  BY InvTypes
<1>2. seen' \in [Link -> Nat]
  BY <1>1 DEF SeenExpires, PlainTyped
<1>3. PlainTyped' /\ UNCHANGED <<on, opening, closed, probe, scan, peer, link>>
  BY <1>1, <1>2 DEF SeenExpires, PlainTyped
<1>. QED BY <1>3, NothingMoves

----
\* The probe of a device.

\* What a step leaves that no probe takes, said of the links in use.
NobodyLoses ==
  /\ \A l \in Link : InUse(l)' => InUse(l)
  /\ \A p \in Peer : InUse(LinkOf(p))' /\ peer[p].link = "own" => peer'[p].link = "own"
  /\ \A p \in Peer : InUse(LinkOf(p))' /\ Holds(p) => Holds(p)'

\* While no peer and no link changes nobody loses a link.
LEMMA HeldByNobodyElse ==
  ASSUME BTInv, UNCHANGED <<peer, link>>
  PROVE  NobodyLoses
BY DEF NobodyLoses, InUse, Holds

\* A probe goes on; what it had in hand, a peer or the probe has after it.
LEMMA ProbeGoesOn ==
  ASSUME BTInv, NobodyLoses, NEW n \in Node, NEW x \in ProbeState,
         probe' = [probe EXCEPT ![n] = x],
         ProbeInHand(n)',
         \A l \in Link :
           InUse(l)' /\ l = Probed(n) /\ probe[n].own /\ probe[n].step # "close"
             => \/ \E p \in Peer : LinkOf(p) = l /\ Holds(p)'
                \/ x.dev = l[2] /\ x.own /\ x.step # "close"
  PROVE  ProbesTyped' /\ ProbesInHand' /\ LinkHasOwner'
<1>1. probe \in [Node -> ProbeState]
  BY InvTypes
<1>2. probe' \in [Node -> ProbeState] /\ \A m \in Node : probe'[m] = IF m = n THEN x ELSE probe[m]
  BY <1>1
<1>3. ProbesInHand'
  <2>1. SUFFICES ASSUME NEW m \in Node, m # n PROVE ProbeInHand(m)'
    BY DEF ProbesInHand
  <2>2. ProbeInHand(m) /\ Probed(m)' = Probed(m) /\ probe'[m] = probe[m]
    BY <1>2, <2>1 DEF BTInv, ProbesInHand, Probed
  <2>3. InUse(Probed(m))' => InUse(LinkOf(probe[m].peer))' \/ probe[m].step # "subscribe"
    BY <2>2 DEF ProbeInHand
  <2>4. probe[m].step = "subscribe" => (InUse(Probed(m))' => InUse(Probed(m)))
    BY <2>2 DEF ProbeInHand, NobodyLoses
  <2>. QED BY <2>2, <2>3, <2>4 DEF ProbeInHand, LinkOf, IsCentral, NobodyLoses
<1>4. LinkHasOwner'
  <2>1. SUFFICES ASSUME NEW l \in Link, InUse(l)'
                 PROVE \/ \E p \in Peer : LinkOf(p) = l /\ Holds(p)'
                       \/ probe'[l[1]].dev = l[2] /\ probe'[l[1]].own /\ probe'[l[1]].step # "close"
    BY LinkHasOwnerIsNext
  <2>2. \/ \E p \in Peer : LinkOf(p) = l /\ Holds(p)
        \/ probe[l[1]].dev = l[2] /\ probe[l[1]].own /\ probe[l[1]].step # "close"
    BY <2>1, LinkHasOwnerIs DEF BTInv, NobodyLoses
  <2>3. CASE \E p \in Peer : LinkOf(p) = l /\ Holds(p)
    BY <2>1, <2>3 DEF NobodyLoses
  <2>4. CASE probe[l[1]].dev = l[2] /\ probe[l[1]].own /\ probe[l[1]].step # "close"
    <3>1. CASE l[1] = n
      <4>1. l = Probed(n)
        BY <2>4, <3>1, LinkFacts DEF Probed
      <4>. QED BY <1>2, <2>1, <2>4, <3>1, <4>1
    <3>2. CASE l[1] # n
      BY <1>2, <2>4, <3>2, LinkFacts
    <3>. QED BY <3>1, <3>2
  <2>. QED BY <2>2, <2>3, <2>4
<1>. QED BY <1>2, <1>3, <1>4 DEF ProbesTyped

\* A device that is wanted is probed.
LEMMA FoundStep ==
  ASSUME BTInv, NEW l \in Link, Found(l)
  PROVE  BTInv'
<1>. DEFINE n == l[1]
            x == [NoProbe EXCEPT !.step = "connect", !.dev = l[2]]
<1>1. /\ PlainTyped /\ peer \in [Peer -> BlePeer] /\ OneMapped(peer) /\ AllFit
      /\ scan \in [Node -> ScanState] /\ n \in Node /\ l[2] \in Node /\ l = <<n, l[2]>>
  BY InvTypes, LinkFacts DEF BTInv
<1>2. /\ probe' = [probe EXCEPT ![n] = x] /\ probe[n] = NoProbe
      /\ UNCHANGED <<on, opening, closed, bid, wire, peer, scan, seen, link, troubles>>
  BY DEF Found
<1>3. x \in ProbeState /\ x.step = "connect" /\ x.dev = l[2] /\ ~x.own /\ x.peer = NoPeer
  BY <1>1 DEF NoProbe, ProbeState, PeerOrNone
<1>. HIDE DEF x
<1>4. probe'[n] = x
  BY <1>1, <1>2, InvTypes
<1>5. ProbeInHand(n)'
  BY <1>1, <1>3, <1>4 DEF ProbeInHand, Probed
<1>6. ProbesTyped' /\ ProbesInHand' /\ LinkHasOwner'
  <2>1. ~probe[n].own
    BY <1>2 DEF NoProbe
  <2>. QED BY <2>1, <1>1, <1>2, <1>3, <1>5, ProbeGoesOn, HeldByNobodyElse
<1>7. /\ AllFit' /\ CentralsWant' /\ OwnerIsCentral' /\ SwitchedOff' /\ OffIsHung' /\ ScanHasSearcher'
  BY <1>2 DEF BTInv, AllFit, CentralsWant, IsCentral, OwnerIsCentral, SwitchedOff, OffIsHung,
              ScanHasSearcher, Searching
<1>8. TypeOK' /\ LinksTyped'
  BY <1>2 DEF BTInv, TypeOK, LinksTyped, JobsHavePeers
<1>. QED BY <1>6, <1>7, <1>8 DEF BTInv

\* The probe has the link, its own or one that was up.
LEMMA ConnectedStep ==
  ASSUME BTInv, NEW n \in Node, Connected(n)
  PROVE  BTInv'
<1>. DEFINE l == Probed(n)
            x == [probe[n] EXCEPT !.step = "read", !.own = ~link[l].up]
<1>1. /\ PlainTyped /\ peer \in [Peer -> BlePeer] /\ AllFit
      /\ scan \in [Node -> ScanState] /\ probe \in [Node -> ProbeState]
      /\ link \in [Link -> LinkState] /\ \A k \in Link : JobsHavePeers(link[k])
      /\ ProbeInHand(n)
  BY InvTypes DEF BTInv, ProbesInHand
<1>2. probe[n].step = "connect" /\ on[n] /\ on[l[2]]
  BY DEF Connected
<1>3. l \in Link /\ l[1] = n /\ l[2] = probe[n].dev /\ probe[n].peer = NoPeer /\ ~probe[n].own
  BY <1>1, <1>2 DEF ProbeInHand, Probed
<1>4. /\ probe' = [probe EXCEPT ![n] = x] /\ link' = [link EXCEPT ![l].up = TRUE]
      /\ UNCHANGED <<on, opening, closed, bid, wire, peer, scan, seen, troubles>>
  BY <1>1 DEF Connected, ProbeState
<1>5. /\ x \in ProbeState /\ x.step = "read" /\ x.own = ~link[l].up /\ x.dev = probe[n].dev
      /\ x.peer = NoPeer
  <2>. DEFINE fresh == ~link[l].up
              y == [probe[n] EXCEPT !.step = "read", !.own = fresh]
  <2>1. probe[n] \in ProbeState /\ fresh \in BOOLEAN /\ x = y
    BY <1>1, <1>3 DEF LinkState
  <2>. HIDE DEF fresh, x
  <2>2. y \in ProbeState /\ y.step = "read" /\ y.own = fresh /\ y.dev = probe[n].dev /\ y.peer = NoPeer
    BY <1>3, <2>1 DEF ProbeState
  <2>. QED BY <2>1, <2>2 DEF fresh
<1>. HIDE DEF x
<1>6. \A m \in Node : probe'[m] = IF m = n THEN x ELSE probe[m]
  BY <1>1, <1>4
<1>. HIDE DEF l
<1>7. [link[l] EXCEPT !.up = TRUE] \in LinkState
  BY <1>1, <1>3 DEF LinkState
<1>8. link' \in [Link -> LinkState]
  BY <1>1, <1>3, <1>4, <1>7
<1>9. \A k \in Link : /\ k # l => link'[k] = link[k]
                      /\ link'[k].hangup = link[k].hangup /\ link'[k].forgotten = link[k].forgotten
                      /\ link'[k].owner = link[k].owner
                      /\ link'[k].fromCentral = link[k].fromCentral
                      /\ link'[k].fromPeripheral = link[k].fromPeripheral
                      /\ link[k].up => link'[k].up
  BY <1>1, <1>3, <1>4 DEF LinkState
<1>10. \A k \in Link : InUse(k)' => InUse(k) \/ (k = l /\ ~link[l].up)
  BY <1>9 DEF InUse
<1>11. ProbesInHand'
  <2>1. SUFFICES ASSUME NEW m \in Node PROVE ProbeInHand(m)'
    BY DEF ProbesInHand
  <2>2. CASE m = n
    <3>1. Probed(n)' = Probed(n)
      BY <1>5, <1>6 DEF Probed
    <3>. QED BY <2>2, <1>3, <1>5, <1>6, <3>1 DEF ProbeInHand, l
  <2>3. CASE m # n
    <3>1. probe'[m] = probe[m] /\ Probed(m)' = Probed(m) /\ Probed(m) # l /\ ProbeInHand(m)
      BY <2>3, <1>3, <1>6 DEF BTInv, ProbesInHand, Probed
    <3>2. probe[m].step = "subscribe" => (InUse(Probed(m))' <=> InUse(Probed(m)))
      BY <3>1, <1>9 DEF ProbeInHand, InUse
    <3>. QED BY <3>1, <3>2, <1>4 DEF ProbeInHand, LinkOf, IsCentral
  <2>. QED BY <2>2, <2>3
<1>12. LinkHasOwner'
  <2>1. SUFFICES ASSUME NEW k \in Link, InUse(k)'
                 PROVE \/ \E p \in Peer : LinkOf(p) = k /\ Holds(p)'
                       \/ probe'[k[1]].dev = k[2] /\ probe'[k[1]].own /\ probe'[k[1]].step # "close"
    BY LinkHasOwnerIsNext
  <2>2. CASE k = l /\ ~link[l].up
    BY <2>2, <1>3, <1>5, <1>6
  <2>3. CASE InUse(k)
    <3>1. \/ \E p \in Peer : LinkOf(p) = k /\ Holds(p)
          \/ probe[k[1]].dev = k[2] /\ probe[k[1]].own /\ probe[k[1]].step # "close"
      BY <2>3, LinkHasOwnerIs DEF BTInv
    <3>2. \A p \in Peer : Holds(p)' = Holds(p)
      BY <1>4 DEF Holds
    <3>3. CASE k[1] = n
      BY <3>1, <3>2, <3>3, <1>3
    <3>4. CASE k[1] # n
      BY <3>1, <3>2, <3>4, <1>6, LinkFacts
    <3>. QED BY <3>3, <3>4
  <2>. QED BY <2>1, <2>2, <2>3, <1>10
<1>13. OffIsHung'
  <2>1. \A k \in Link : k # l /\ link'[k].up /\ (~on[k[1]] \/ ~on[k[2]]) => link'[k].hangup
    BY <1>9 DEF BTInv, OffIsHung
  <2>. QED BY <2>1, <1>2, <1>3, <1>4 DEF OffIsHung
<1>14. AllFit' /\ CentralsWant' /\ OwnerIsCentral' /\ SwitchedOff' /\ ScanHasSearcher'
  BY <1>4, <1>9 DEF BTInv, AllFit, CentralsWant, IsCentral, OwnerIsCentral, SwitchedOff,
              ScanHasSearcher, Searching
<1>15. TypeOK' /\ LinksTyped' /\ ProbesTyped'
  BY <1>1, <1>4, <1>5, <1>8, <1>9 DEF BTInv, TypeOK, LinksTyped, ProbesTyped, JobsHavePeers
<1>. QED BY <1>11, <1>12, <1>13, <1>14, <1>15 DEF BTInv

\* BecomeKeeps, whatever becomes of the probe.
LEMMA BecomeHolds ==
  ASSUME BTInv, PlainTyped',
         NEW peers \in [Peer -> BlePeer], OneMapped(peers),
         NEW links, links \in [Link -> LinkState],
         \A p \in Peer :
           /\ Fit(peers[p]) /\ peers[p].wanted \subseteq peer[p].wanted
           /\ peers[p].mapped /\ peers[p].state = "keyed" => peer[p].mapped /\ peer[p].state = "keyed"
           /\ peer[p].link = "own" /\ ~links[LinkOf(p)].forgotten => peers[p].link \in {"own", "ownClosing"},
         \A l \in Link : /\ JobsHavePeers(links[l])
                         /\ links[l].up = link[l].up
                         /\ link[l].forgotten => links[l].forgotten
                         /\ link[l].hangup => links[l].hangup,
         BecomeAll(peers, links, scan),
         UNCHANGED <<on, opening, closed>>
  PROVE  /\ TypeOK' /\ LinksTyped'
         /\ AllFit' /\ CentralsWant' /\ OwnerIsCentral' /\ SwitchedOff' /\ OffIsHung'
         /\ ScanHasSearcher' /\ NobodyLoses
         /\ \A l \in Link : /\ link'[l].up = links[l].up /\ link'[l].forgotten = links[l].forgotten
                            /\ links[l].hangup => link'[l].hangup
<1>1. peer' = peers /\ link' = Hung(peers, links) /\ scan' = Rested(peers, scan)
  BY DEF BecomeAll
<1>2. /\ on \in [Node -> BOOLEAN] /\ peer \in [Peer -> BlePeer] /\ scan \in [Node -> ScanState]
      /\ ScanHasSearcher
  BY TypeParts DEF BTInv, PlainTyped
<1>3. /\ link' \in [Link -> LinkState]
      /\ \A l \in Link : /\ JobsHavePeers(link'[l])
                         /\ link'[l].up = links[l].up /\ link'[l].forgotten = links[l].forgotten
                         /\ links[l].hangup => link'[l].hangup
                         /\ links[l].up /\ LetsGo(l, peer') => link'[l].hangup
                         /\ link'[l].owner # NoPeer => peer'[link'[l].owner].central
  <2>1. /\ link' \in [Link -> LinkState]
        /\ \A l \in Link : /\ JobsHavePeers(link'[l])
                           /\ link'[l].up = links[l].up /\ link'[l].forgotten = links[l].forgotten
                           /\ links[l].hangup \/ (links[l].up /\ LetsGo(l, peers)) => link'[l].hangup
                           /\ link'[l].owner # NoPeer => peers[link'[l].owner].central
    BY <1>1, <1>2, HungGives
  <2>2. \A l \in Link : LetsGo(l, peer') = LetsGo(l, peers)
    BY <1>1
  <2>. QED BY <1>1, <2>1, <2>2
<1>4. \A p \in Peer : peer[p].link = "own" /\ InUse(LinkOf(p))' => peer'[p].link \in {"own", "ownClosing"}
  BY <1>1, <1>3, PeerFacts DEF InUse, LinkOf, IsCentral
<1>5. /\ AllFit' /\ CentralsWant' /\ OwnerIsCentral' /\ SwitchedOff' /\ OffIsHung' /\ NobodyLoses
  BY <1>1, <1>3, <1>4, LinksHeld DEF NobodyLoses
<1>6. scan' \in [Node -> ScanState] /\ ScanHasSearcher'
  BY <1>1, <1>2, RestedKeeps
<1>7. TypeOK' /\ LinksTyped'
  BY <1>1, <1>3, <1>6, TypePartsNext DEF LinksTyped, JobsHavePeers
<1>. QED BY <1>3, <1>5, <1>6, <1>7

\* A peer that lets go of its link stays fit.
LEMMA LetGoKeeps ==
  ASSUME NEW r \in BlePeer, Fit(r)
  PROVE  Keeps([r EXCEPT !.link = LetGo(@)], r)
<1>. DEFINE x == LetGo(r.link)
            s == [r EXCEPT !.link = x]
<1>1. x \in {"none", "ownClosing", "sharedClosing"} /\ (r.link = "own" => x = "ownClosing")
  BY LetGoType DEF BlePeer
<1>. HIDE DEF x
<1>2. s \in BlePeer
  BY <1>1 DEF BlePeer
<1>3. /\ s.state = r.state /\ s.mapped = r.mapped /\ s.wanted = r.wanted /\ s.link = x
      /\ s.central = r.central /\ s.timer = r.timer /\ s.making = r.making /\ s.deriving = r.deriving
  BY DEF BlePeer
<1>4. [r EXCEPT !.link = LetGo(@)] = s
  BY DEF x
<1>. HIDE DEF s
<1>. QED BY <1>1, <1>2, <1>3, <1>4 DEF Keeps, Follows, Fit

\* No probe holds nothing.
LEMMA NoProbeTyped ==
  /\ NoProbe \in ProbeState
  /\ NoProbe.step = "no" /\ ~NoProbe.own /\ NoProbe.peer = NoPeer
BY DEF NoProbe, ProbeState, PeerOrNone

\* A probe that fails has its own link cut, and its peer lets go of it.
LEMMA ProbeFailsStep ==
  ASSUME BTInv, NEW n \in Node, ProbeFails(n)
  PROVE  BTInv'
<1>. DEFINE l == Probed(n)
            p == probe[n].peer
            hangs == probe[n].step # "connect" /\ probe[n].own /\ link[l].up
            x == IF hangs THEN [probe[n] EXCEPT !.step = "close"] ELSE NoProbe
            peers == IF p = NoPeer THEN peer ELSE [peer EXCEPT ![p].link = LetGo(@)]
            hung == link[l].hangup \/ hangs
            handler == IF probe[n].step = "connect" THEN link[l].handler ELSE NoPeer
            linkOne == [link[l] EXCEPT !.hangup = hung, !.handler = handler]
            links == [link EXCEPT ![l] = linkOne]
<1>1. /\ PlainTyped /\ peer \in [Peer -> BlePeer] /\ OneMapped(peer) /\ AllFit
      /\ scan \in [Node -> ScanState] /\ probe \in [Node -> ProbeState]
      /\ link \in [Link -> LinkState] /\ \A k \in Link : JobsHavePeers(link[k])
      /\ ProbeInHand(n)
  BY InvTypes DEF BTInv, ProbesInHand
<1>2. /\ probe[n].step \in {"connect", "read", "subscribe"}
      /\ UNCHANGED <<on, opening, closed, bid, wire, seen>> /\ (Trouble \/ UNCHANGED troubles)
  BY DEF ProbeFails
<1>3. l \in Link /\ probe[n] \in ProbeState
  BY <1>1, <1>2 DEF ProbeInHand
<1>4. probe' = [probe EXCEPT ![n] = x]
  BY <1>1 DEF ProbeFails
<1>5. BecomeAll(peers, links, scan)
  <2>1. links = [link EXCEPT ![l].hangup = @ \/ hangs,
                             ![l].handler = IF probe[n].step = "connect" THEN @ ELSE NoPeer]
    BY <1>1, <1>3 DEF LinkState
  <2>. QED BY <2>1 DEF ProbeFails
<1>6. hangs \in BOOLEAN /\ hung \in BOOLEAN /\ handler \in PeerOrNone
  BY <1>1, <1>3 DEF ProbeState, LinkState, PeerOrNone
<1>. HIDE DEF hung, handler
<1>7. /\ linkOne \in LinkState /\ linkOne.up = link[l].up /\ linkOne.forgotten = link[l].forgotten
      /\ linkOne.hangup = hung /\ linkOne.owner = link[l].owner
      /\ linkOne.fromCentral = link[l].fromCentral /\ linkOne.fromPeripheral = link[l].fromPeripheral
  BY <1>1, <1>3, <1>6 DEF LinkState
<1>. HIDE DEF linkOne
<1>8. links \in [Link -> LinkState] /\ \A k \in Link : links[k] = IF k = l THEN linkOne ELSE link[k]
  BY <1>1, <1>3, <1>7
<1>9. \A k \in Link : /\ JobsHavePeers(links[k])
                      /\ links[k].up = link[k].up
                      /\ links[k].forgotten = link[k].forgotten
                      /\ link[k].hangup => links[k].hangup
  BY <1>1, <1>7, <1>8 DEF JobsHavePeers, hung
<1>10. p \in PeerOrNone
  BY <1>3 DEF ProbeState
<1>11. /\ peers \in [Peer -> BlePeer]
       /\ \A q \in Peer : Keeps(peers[q], peer[q])
  <2>1. CASE p = NoPeer
    BY <2>1, <1>1, ItselfKeeps DEF AllFit
  <2>2. CASE p # NoPeer
    <3>. DEFINE r == [peer[p] EXCEPT !.link = LetGo(@)]
    <3>1. p \in Peer
      BY <2>2, <1>10 DEF PeerOrNone
    <3>2. peers = [peer EXCEPT ![p] = r]
      BY <2>2, <3>1, <1>1
    <3>3. Keeps(r, peer[p])
      BY <3>1, <1>1, LetGoKeeps DEF AllFit
    <3>. HIDE DEF r
    <3>4. r \in BlePeer
      BY <3>3 DEF Keeps, Follows
    <3>. QED BY <3>1, <3>2, <3>3, <3>4, <1>1, ItselfKeeps DEF AllFit
  <2>. QED BY <2>1, <2>2
<1>. HIDE DEF peers, links
<1>12. OneMapped(peers)
  BY <1>1, <1>11 DEF OneMapped, Keeps
<1>13. PlainTyped'
  BY <1>1, <1>2, TroubleTyped DEF PlainTyped
<1>14. /\ TypeOK' /\ LinksTyped'
       /\ AllFit' /\ CentralsWant' /\ OwnerIsCentral' /\ SwitchedOff' /\ OffIsHung'
       /\ ScanHasSearcher' /\ NobodyLoses
       /\ \A k \in Link : /\ link'[k].up = links[k].up /\ link'[k].forgotten = links[k].forgotten
                          /\ links[k].hangup => link'[k].hangup
  BY <1>2, <1>5, <1>8, <1>9, <1>11, <1>12, <1>13, BecomeHolds DEF Keeps, Follows
<1>15. x \in ProbeState /\ (x = NoProbe \/ (x.step = "close" /\ hangs))
  BY <1>3, NoProbeTyped DEF ProbeState
<1>16. probe'[n] = x /\ (x.step = "close" => x = NoProbe \/ x.dev = probe[n].dev)
  BY <1>1, <1>3, <1>4 DEF ProbeState
<1>17. ProbeInHand(n)'
  <2>1. CASE x = NoProbe
    BY <2>1, <1>16, NoProbeTyped DEF ProbeInHand
  <2>2. CASE x.step = "close" /\ x # NoProbe
    BY <2>2, <1>3, <1>16 DEF ProbeInHand, Probed
  <2>. QED BY <1>15, <2>1, <2>2
<1>18. \A k \in Link : InUse(k)' /\ k = Probed(n) => ~(probe[n].own /\ probe[n].step # "close")
  <2>1. SUFFICES ASSUME NEW k \in Link, InUse(k)', k = l, probe[n].own, probe[n].step # "close"
                 PROVE  FALSE
    OBVIOUS
  <2>2. link[l].up /\ ~hangs
    <3>1. link'[k].up /\ ~link'[k].hangup
      BY <2>1 DEF InUse
    <3>2. link[k].up /\ ~links[k].hangup
      BY <3>1, <1>9, <1>14
    <3>3. links[k].hangup = hung
      BY <2>1, <1>7, <1>8
    <3>. QED BY <2>1, <3>2, <3>3 DEF hung
  <2>3. probe[n].step = "connect"
    BY <2>1, <2>2
  <2>. QED BY <2>1, <2>3, <1>1 DEF ProbeInHand
<1>. HIDE DEF x
<1>19. ProbesTyped' /\ ProbesInHand' /\ LinkHasOwner'
  BY <1>4, <1>14, <1>15, <1>17, <1>18, ProbeGoesOn
<1>. QED BY <1>14, <1>19 DEF BTInv

\* The device is nobody's: a link that the probe made is hung up.
LEMMA HelloRefused ==
  ASSUME BTInv, PlainTyped', NEW n \in Node, probe[n].step = "read",
         probe' = [probe EXCEPT ![n] = IF @.own THEN [@ EXCEPT !.step = "close"] ELSE NoProbe],
         link' = Refused(Probed(n), probe[n].own),
         UNCHANGED <<on, opening, closed, peer, scan>>
  PROVE  BTInv'
<1>. DEFINE l == Probed(n)
            own == probe[n].own
            x == IF own THEN [probe[n] EXCEPT !.step = "close"] ELSE NoProbe
            hung == link[l].hangup \/ own
            linkOne == [link[l] EXCEPT !.hangup = hung, !.handler = NoPeer]
<1>1. /\ peer \in [Peer -> BlePeer] /\ OneMapped(peer) /\ AllFit
      /\ scan \in [Node -> ScanState] /\ probe \in [Node -> ProbeState]
      /\ link \in [Link -> LinkState] /\ \A k \in Link : JobsHavePeers(link[k])
      /\ ProbeInHand(n) /\ OwnerIsCentral
  BY InvTypes DEF BTInv, ProbesInHand
<1>2. l \in Link /\ probe[n] \in ProbeState /\ own \in BOOLEAN
  BY <1>1 DEF ProbeInHand, ProbeState
<1>3. probe' = [probe EXCEPT ![n] = x] /\ probe'[n] = x
  BY <1>1
<1>4. x \in ProbeState /\ (x = NoProbe \/ (x.step = "close" /\ x.dev = probe[n].dev /\ own))
  BY <1>2, NoProbeTyped DEF ProbeState
<1>5. link' = [link EXCEPT ![l] = linkOne]
  BY <1>1, <1>2 DEF Refused, LinkState
<1>6. hung \in BOOLEAN /\ NoPeer \in PeerOrNone
  BY <1>1, <1>2 DEF LinkState, PeerOrNone
<1>. HIDE DEF hung
<1>7. /\ linkOne \in LinkState /\ linkOne.up = link[l].up /\ linkOne.forgotten = link[l].forgotten
      /\ linkOne.hangup = hung /\ linkOne.owner = link[l].owner
      /\ linkOne.fromCentral = link[l].fromCentral /\ linkOne.fromPeripheral = link[l].fromPeripheral
  BY <1>1, <1>2, <1>6 DEF LinkState
<1>. HIDE DEF linkOne
<1>8. link' \in [Link -> LinkState] /\ \A k \in Link : link'[k] = IF k = l THEN linkOne ELSE link[k]
  <2>. HIDE DEF l
  <2>. QED BY <1>1, <1>2, <1>5, <1>7
<1>9. \A k \in Link : /\ JobsHavePeers(link'[k])
                      /\ link'[k].up = link[k].up /\ link'[k].forgotten = link[k].forgotten
                      /\ link[k].hangup => link'[k].hangup
                      /\ link'[k].owner = link[k].owner
  BY <1>1, <1>7, <1>8 DEF JobsHavePeers, hung
<1>10. \A k \in Link : ~LetsGo(k, peer') /\ (link'[k].owner # NoPeer => peer'[link'[k].owner].central)
  BY <1>1, <1>9 DEF LetsGo, OwnerIsCentral
<1>11. /\ AllFit' /\ CentralsWant' /\ OwnerIsCentral' /\ SwitchedOff' /\ OffIsHung' /\ NobodyLoses
  BY <1>1, <1>9, <1>10, LinksHeld DEF AllFit, NobodyLoses
<1>12. ProbeInHand(n)'
  <2>1. CASE x = NoProbe
    BY <2>1, <1>3, NoProbeTyped DEF ProbeInHand
  <2>2. CASE x.step = "close" /\ x # NoProbe
    BY <2>2, <1>2, <1>3, <1>4 DEF ProbeInHand, Probed
  <2>. QED BY <1>4, <2>1, <2>2
<1>13. \A k \in Link : InUse(k)' /\ k = Probed(n) => ~own
  <2>1. SUFFICES ASSUME NEW k \in Link, InUse(k)', k = l, own PROVE FALSE
    OBVIOUS
  <2>2. ~link'[k].hangup /\ link'[k] = linkOne
    BY <2>1, <1>8 DEF InUse
  <2>. QED BY <2>1, <2>2, <1>7 DEF hung
<1>. HIDE DEF x
<1>14. ProbesTyped' /\ ProbesInHand' /\ LinkHasOwner'
  BY <1>3, <1>4, <1>11, <1>12, <1>13, ProbeGoesOn
<1>15. ScanHasSearcher' /\ TypeOK' /\ LinksTyped'
  BY <1>1, <1>8, <1>9, TypePartsNext
     DEF BTInv, ScanHasSearcher, Searching, LinksTyped, JobsHavePeers, OneMapped
<1>. QED BY <1>11, <1>14, <1>15 DEF BTInv

\* The device is wanted: its link is the peer's from now on.
LEMMA HelloTaken ==
  ASSUME BTInv, PlainTyped', NEW n \in Node, probe[n].step = "read",
         NEW b, NEW p \in Wants(n, Probed(n)[2], b), peer[p].state = "keyed",
         probe' = [probe EXCEPT ![n].step = "subscribe", ![n].peer = p],
         BecomeAll([peer EXCEPT ![p].wanted = @ \ {b},
                                ![p].link = IF probe[n].own THEN "own" ELSE "shared"],
                   [link EXCEPT ![Probed(n)].handler = p,
                                ![Probed(n)].forgotten = @ \/ peer[p].link = "own"], scan),
         UNCHANGED <<on, opening, closed>>
  PROVE  BTInv'
<1>. DEFINE l == Probed(n)
            x == [probe[n] EXCEPT !.step = "subscribe", !.peer = p]
            w == peer[p].wanted \ {b}
            held == IF probe[n].own THEN "own" ELSE "shared"
            r == [peer[p] EXCEPT !.wanted = w, !.link = held]
            peers == [peer EXCEPT ![p] = r]
            lost == link[l].forgotten \/ peer[p].link = "own"
            linkOne == [link[l] EXCEPT !.handler = p, !.forgotten = lost]
            links == [link EXCEPT ![l] = linkOne]
<1>1. /\ peer \in [Peer -> BlePeer] /\ OneMapped(peer) /\ AllFit
      /\ scan \in [Node -> ScanState] /\ probe \in [Node -> ProbeState]
      /\ link \in [Link -> LinkState] /\ \A k \in Link : JobsHavePeers(link[k])
      /\ ProbeInHand(n) /\ CentralsWant
  BY InvTypes DEF BTInv, ProbesInHand
<1>2. l \in Link /\ probe[n] \in ProbeState /\ l = <<n, probe[n].dev>>
  BY <1>1 DEF ProbeInHand, Probed
<1>3. /\ p \in Peer /\ p[1] = n /\ p[2] = l[2] /\ b \in peer[p].wanted
      /\ peer[p] \in BlePeer /\ Fit(peer[p])
  BY <1>1 DEF Wants, AllFit
<1>4. LinkOf(p) = l
  <2>1. IsCentral(p)
    BY <1>1, <1>3 DEF CentralsWant
  <2>. QED BY <2>1, <1>2, <1>3 DEF LinkOf
<1>5. BecomeAll(peers, links, scan)
  <2>1. links = [link EXCEPT ![l].handler = p, ![l].forgotten = @ \/ peer[p].link = "own"]
    BY <1>1, <1>2 DEF LinkState
  <2>2. peers = [peer EXCEPT ![p].wanted = @ \ {b}, ![p].link = IF probe[n].own THEN "own" ELSE "shared"]
    BY <1>1, <1>3
  <2>. QED BY <2>1, <2>2
<1>6. probe' = [probe EXCEPT ![n] = x]
  BY <1>1, <1>2
<1>7. /\ x \in ProbeState /\ x.step = "subscribe" /\ x.peer = p /\ x.dev = probe[n].dev
      /\ x.own = probe[n].own
  BY <1>2, <1>3 DEF ProbeState, PeerOrNone
<1>. HIDE DEF x
<1>8. w \in SUBSET Nat /\ held \in {"own", "shared"} /\ w \subseteq peer[p].wanted
      /\ (probe[n].own => held = "own") /\ lost \in BOOLEAN
  BY <1>1, <1>2, <1>3 DEF BlePeer, LinkState
<1>. HIDE DEF w, held, lost
<1>9. r \in BlePeer
  BY <1>3, <1>8 DEF BlePeer
<1>10. /\ r.state = "keyed" /\ r.timer = peer[p].timer /\ r.mapped = peer[p].mapped /\ r.wanted = w
       /\ r.link = held
  BY <1>3 DEF BlePeer
<1>11. /\ linkOne \in LinkState /\ linkOne.up = link[l].up /\ linkOne.forgotten = lost
       /\ linkOne.hangup = link[l].hangup
       /\ linkOne.fromCentral = link[l].fromCentral /\ linkOne.fromPeripheral = link[l].fromPeripheral
  BY <1>1, <1>2, <1>3, <1>8 DEF LinkState, PeerOrNone
<1>. HIDE DEF r, linkOne
<1>12. links \in [Link -> LinkState] /\ \A k \in Link : links[k] = IF k = l THEN linkOne ELSE link[k]
  <2>. HIDE DEF l
  <2>. QED BY <1>1, <1>2, <1>11
<1>13. peers \in [Peer -> BlePeer] /\ \A q \in Peer : peers[q] = IF q = p THEN r ELSE peer[q]
  BY <1>1, <1>3, <1>9
<1>. HIDE DEF peers, links
<1>14. Fit(r)
  BY <1>3, <1>10 DEF Fit
<1>15. \A q \in Peer :
           /\ Fit(peers[q]) /\ peers[q].wanted \subseteq peer[q].wanted
           /\ peers[q].mapped = peer[q].mapped
           /\ peers[q].state = peer[q].state
           /\ peer[q].link = "own" /\ ~links[LinkOf(q)].forgotten => peers[q].link \in {"own", "ownClosing"}
  <2>1. SUFFICES ASSUME NEW q \in Peer
                 PROVE  /\ Fit(peers[q]) /\ peers[q].wanted \subseteq peer[q].wanted
                        /\ peers[q].mapped = peer[q].mapped
                        /\ peers[q].state = peer[q].state
                        /\ peer[q].link = "own" /\ ~links[LinkOf(q)].forgotten
                             => peers[q].link \in {"own", "ownClosing"}
    OBVIOUS
  <2>2. CASE q = p
    BY <2>2, <1>2, <1>4, <1>8, <1>10, <1>11, <1>12, <1>13, <1>14 DEF lost
  <2>3. CASE q # p
    BY <2>3, <1>1, <1>13 DEF AllFit
  <2>. QED BY <2>2, <2>3
<1>16. OneMapped(peers)
  BY <1>1, <1>15 DEF OneMapped
<1>17. \A k \in Link : /\ JobsHavePeers(links[k])
                       /\ links[k].up = link[k].up
                       /\ link[k].forgotten => links[k].forgotten
                       /\ link[k].hangup => links[k].hangup
  BY <1>1, <1>11, <1>12 DEF JobsHavePeers, lost
<1>18. /\ TypeOK' /\ LinksTyped'
       /\ AllFit' /\ CentralsWant' /\ OwnerIsCentral' /\ SwitchedOff' /\ OffIsHung'
       /\ ScanHasSearcher' /\ NobodyLoses
  BY <1>5, <1>12, <1>13, <1>15, <1>16, <1>17, BecomeHolds
<1>19. probe'[n] = x /\ peer'[p].link = held
  BY <1>1, <1>3, <1>5, <1>6, <1>10, <1>13 DEF BecomeAll
<1>20. ProbeInHand(n)'
  <2>1. Probed(n)' = Probed(n)
    BY <1>7, <1>19 DEF Probed
  <2>. QED BY <2>1, <1>2, <1>3, <1>4, <1>7, <1>8, <1>19 DEF ProbeInHand, LinkOf, IsCentral
<1>21. \A k \in Link : k = Probed(n) /\ probe[n].own => x.dev = k[2] /\ x.own /\ x.step # "close"
  BY <1>2, <1>7
<1>22. ProbesTyped' /\ ProbesInHand' /\ LinkHasOwner'
  BY <1>6, <1>7, <1>18, <1>20, <1>21, ProbeGoesOn
<1>. QED BY <1>18, <1>22 DEF BTInv

\* The bid was read: it is a wanted peer's, which takes the link, or nobody's.
LEMMA HelloReadStep ==
  ASSUME BTInv, NEW n \in Node, HelloRead(n)
  PROVE  BTInv'
<1>1. PlainTyped'
  <2>1. PlainTyped /\ ProbeInHand(n) /\ probe[n].step = "read"
    BY InvTypes DEF BTInv, ProbesInHand, HelloRead
  <2>2. Probed(n) \in Link /\ Probed(n)[2] \in Node
    BY <2>1, LinkFacts DEF ProbeInHand
  <2>3. HelloOf(Probed(n)[2]) \in Nat
    BY <2>1, <2>2 DEF HelloOf, PlainTyped
  <2>4. seen' \in [Link -> Nat]
    BY <2>1, <2>2, <2>3 DEF HelloRead, PlainTyped
  <2>. QED BY <2>1, <2>4 DEF HelloRead, PlainTyped
<1>2. UNCHANGED <<on, opening, closed>> /\ probe[n].step = "read"
  BY DEF HelloRead
<1>. QED BY <1>1, <1>2, HelloRefused, HelloTaken DEF HelloRead

\* The probe ends, and its peer greets over the link.
LEMMA SubscribedStep ==
  ASSUME BTInv, NEW n \in Node, Subscribed(n)
  PROVE  BTInv'
<1>. DEFINE p == probe[n].peer
            r == Say(peer[p], "hello")
<1>1. /\ PlainTyped /\ peer \in [Peer -> BlePeer] /\ OneMapped(peer) /\ AllFit
      /\ scan \in [Node -> ScanState] /\ probe \in [Node -> ProbeState]
      /\ link \in [Link -> LinkState] /\ \A k \in Link : JobsHavePeers(link[k])
      /\ ProbeInHand(n) /\ OwnerIsCentral /\ ScanHasSearcher
  BY InvTypes DEF BTInv, ProbesInHand
<1>2. /\ probe[n].step = "subscribe" /\ peer' = [peer EXCEPT ![p] = r]
      /\ probe' = [probe EXCEPT ![n] = NoProbe]
      /\ UNCHANGED <<on, opening, closed, bid, wire, scan, seen, link, troubles>>
  BY DEF Subscribed
<1>3. /\ p \in Peer /\ LinkOf(p) = Probed(n)
      /\ probe[n].own /\ InUse(Probed(n)) => peer[p].link = "own"
  BY <1>1, <1>2 DEF ProbeInHand
<1>4. /\ Keeps(r, peer[p]) /\ r.link = peer[p].link /\ r.central = peer[p].central
      /\ r.wanted = peer[p].wanted
  BY <1>1, <1>3, SayKeeps DEF AllFit
<1>. HIDE DEF r
<1>5. /\ \A q \in Peer : peer'[q] = IF q = p THEN r ELSE peer[q]
      /\ peer' \in [Peer -> BlePeer]
  BY <1>1, <1>2, <1>3, <1>4 DEF Keeps, Follows
<1>6. \A q \in Peer : /\ Keeps(peer'[q], peer[q]) /\ peer'[q].link = peer[q].link
                      /\ peer'[q].central = peer[q].central /\ peer'[q].wanted = peer[q].wanted
  BY <1>1, <1>4, <1>5, ItselfKeeps DEF AllFit
<1>7. \A k \in Link : ~LetsGo(k, peer') /\ (link'[k].owner # NoPeer => peer'[link'[k].owner].central)
  <2>1. \A k \in Link : link[k].owner \in PeerOrNone
    BY <1>1 DEF LinkState
  <2>. QED BY <1>1, <1>2, <1>6, <2>1 DEF LetsGo, OwnerIsCentral, PeerOrNone
<1>8. /\ AllFit' /\ CentralsWant' /\ OwnerIsCentral' /\ SwitchedOff' /\ OffIsHung' /\ NobodyLoses
  <2>1. \A q \in Peer : /\ Fit(peer'[q]) /\ peer'[q].wanted \subseteq peer[q].wanted
                        /\ peer[q].link = "own" => peer'[q].link \in {"own", "ownClosing"}
    BY <1>6 DEF Keeps, Follows
  <2>. QED BY <1>2, <1>7, <2>1, LinksHeld DEF NobodyLoses
<1>9. probe'[n] = NoProbe
  BY <1>1, <1>2
<1>10. ProbeInHand(n)'
  BY <1>9, NoProbeTyped DEF ProbeInHand
<1>11. \A k \in Link : InUse(k)' /\ k = Probed(n) /\ probe[n].own
                         => \E q \in Peer : LinkOf(q) = k /\ Holds(q)'
  <2>1. SUFFICES ASSUME NEW k \in Link, InUse(k)', k = Probed(n), probe[n].own
                 PROVE  \E q \in Peer : LinkOf(q) = k /\ Holds(q)'
    OBVIOUS
  <2>2. InUse(k)
    BY <2>1, <1>2 DEF InUse
  <2>3. peer[p].link = "own"
    BY <2>1, <2>2, <1>3
  <2>4. PICK q \in Peer : q = p
    BY <1>3
  <2>5. peer'[q].link = "own"
    BY <2>3, <2>4, <1>6
  <2>6. Holds(q)'
    BY <2>5 DEF Holds
  <2>. QED BY <2>1, <2>4, <2>6, <1>3
<1>12. ProbesTyped' /\ ProbesInHand' /\ LinkHasOwner'
  BY <1>2, <1>8, <1>10, <1>11, NoProbeTyped, ProbeGoesOn
<1>13. ScanHasSearcher'
  <2>1. \A m \in Node : Searching(m, peer') <=> Searching(m, peer)
    BY <1>6 DEF Searching
  <2>. QED BY <1>1, <1>2, <1>6, <2>1 DEF ScanHasSearcher, Keeps, Follows
<1>14. OneMapped(peer')
  BY <1>1, <1>6 DEF OneMapped, Keeps
<1>15. TypeOK' /\ LinksTyped'
  BY <1>1, <1>2, <1>5, <1>14, TypePartsNext DEF PlainTyped, LinksTyped, JobsHavePeers
<1>. QED BY <1>8, <1>12, <1>13, <1>15 DEF BTInv

\* The link that a probe cut is down, and the probe ends.
LEMMA ProbeClosedStep ==
  ASSUME BTInv, NEW n \in Node, ProbeClosed(n)
  PROVE  BTInv'
<1>1. /\ probe[n].step = "close" /\ probe' = [probe EXCEPT ![n] = NoProbe]
      /\ UNCHANGED <<on, opening, closed, bid, wire, peer, scan, seen, link, troubles>>
  BY DEF ProbeClosed
<1>2. probe'[n] = NoProbe
  BY <1>1, InvTypes
<1>3. ProbeInHand(n)'
  BY <1>2, NoProbeTyped DEF ProbeInHand
<1>4. ProbesTyped' /\ ProbesInHand' /\ LinkHasOwner'
  BY <1>1, <1>3, NoProbeTyped, ProbeGoesOn, HeldByNobodyElse
<1>5. /\ AllFit' /\ CentralsWant' /\ OwnerIsCentral' /\ SwitchedOff' /\ OffIsHung' /\ ScanHasSearcher'
  BY <1>1 DEF BTInv, AllFit, CentralsWant, IsCentral, OwnerIsCentral, SwitchedOff, OffIsHung,
              ScanHasSearcher, Searching
<1>6. TypeOK' /\ LinksTyped'
  BY <1>1 DEF BTInv, TypeOK, LinksTyped, JobsHavePeers
<1>. QED BY <1>4, <1>5, <1>6 DEF BTInv

----
\* Records.

\* A link with other records on their way or being opened.
LinkLike(x, y) ==
  /\ x \in LinkState /\ JobsHavePeers(x)
  /\ x.up = y.up /\ x.forgotten = y.forgotten /\ x.hangup = y.hangup

\* One link changes in what is on it, the others in nothing.
LEMMA OneLink ==
  ASSUME BTInv, NEW l \in Link, NEW x, LinkLike(x, link[l])
  PROVE  /\ [link EXCEPT ![l] = x] \in [Link -> LinkState]
         /\ \A k \in Link : LinkLike([link EXCEPT ![l] = x][k], link[k])
         /\ \A k \in Link : [link EXCEPT ![l] = x][k] = IF k = l THEN x ELSE link[k]
BY InvTypes DEF LinkLike

\* A link's records and jobs change, and the invariant stays.
LEMMA OneLinkStays ==
  ASSUME BTInv, PlainTyped', NEW l \in Link, NEW x, LinkLike(x, link[l]), x.owner = link[l].owner,
         link' = [link EXCEPT ![l] = x],
         UNCHANGED <<on, opening, closed, probe, scan, peer>>
  PROVE  BTInv'
<1>1. /\ link' \in [Link -> LinkState]
      /\ \A k \in Link : LinkLike(link'[k], link[k]) /\ link'[k].owner = link[k].owner
  BY OneLink
<1>. QED BY <1>1, LinksStay DEF LinkLike

\* A peer changes with what was on one link, and what follows of it.
LEMMA OneBecomesWithLink ==
  ASSUME BTInv, PlainTyped', NEW p \in Peer, NEW r, Keeps(r, peer[p]),
         NEW l \in Link, NEW x, LinkLike(x, link[l]),
         BecomeAll([peer EXCEPT ![p] = r], [link EXCEPT ![l] = x], scan),
         UNCHANGED <<on, opening, closed, probe>>
  PROVE  BTInv'
<1>. DEFINE links == [link EXCEPT ![l] = x]
<1>2. BecomeAll([peer EXCEPT ![p] = r], links, scan)
  OBVIOUS
<1>. HIDE DEF links
<1>3. /\ links \in [Link -> LinkState]
      /\ \A k \in Link : LinkLike(links[k], link[k])
  BY OneLink DEF links
<1>1. \A k \in Link : /\ JobsHavePeers(links[k])
                      /\ links[k].up = link[k].up /\ links[k].forgotten = link[k].forgotten
                      /\ links[k].hangup = link[k].hangup
  BY <1>3 DEF LinkLike
<1>. QED BY <1>1, <1>2, <1>3, OneBecomes

\* The other variables' types, when nothing of them changes.
LEMMA PlainStays ==
  ASSUME BTInv, UNCHANGED <<on, opening, closed, bid, wire, seen>>, Trouble \/ UNCHANGED troubles
  PROVE  PlainTyped'
BY InvTypes, TroubleTyped DEF PlainTyped

\* What is sealed is a record.
LEMMA SealedTyped ==
  ASSUME BTInv, NEW p \in Peer, peer[p].queue # <<>>
  PROVE  Sealed(p) \in AnyRecord
<1>1. peer[p] \in BlePeer
  BY InvTypes
<1>2. peer[p].half.by \in PeerOrNone /\ peer[p].half.bid \in Nat
  BY <1>1 DEF BlePeer, Half, NoHalf, PeerOrNone
<1>3. Head(peer[p].queue) \in {"hello", "data"} /\ peer[p].sendCtr \in Nat
  BY <1>1 DEF BlePeer
<1>. QED BY <1>2, <1>3 DEF Sealed, AnyRecord, PeerOrNone

\* A record is sealed and written.
LEMMA WriteStep ==
  ASSUME BTInv, NEW p \in Peer, Write(p)
  PROVE  BTInv'
<1>. DEFINE l == LinkOf(p)
            tail == Tail(peer[p].queue)
            ctr == peer[p].sendCtr + 1
            sent == [peer[p] EXCEPT !.queue = tail, !.sendCtr = ctr]
            unsaid == [peer[p] EXCEPT !.queue = <<>>]
            rec == Sealed(p)
<1>1. /\ peer \in [Peer -> BlePeer] /\ peer[p] \in BlePeer /\ Fit(peer[p])
      /\ link \in [Link -> LinkState] /\ \A k \in Link : JobsHavePeers(link[k])
      /\ l \in Link /\ link[l] \in LinkState
  BY InvTypes, PeerFacts DEF BTInv, AllFit
<1>2. peer[p].queue # <<>> /\ UNCHANGED <<on, opening, closed, bid, wire, probe, seen, troubles>>
  BY DEF Write
<1>3. PlainTyped'
  BY <1>2, PlainStays
<1>4. rec \in AnyRecord
  BY <1>2, SealedTyped
<1>5. tail \in Seq({"hello", "data"}) /\ ctr \in Nat /\ <<>> \in Seq({"hello", "data"})
  BY <1>1, <1>2 DEF BlePeer
<1>6. Keeps(unsaid, peer[p])
  <2>1. unsaid \in BlePeer
    BY <1>1, <1>5 DEF BlePeer
  <2>2. /\ unsaid.state = peer[p].state /\ unsaid.mapped = peer[p].mapped
        /\ unsaid.wanted = peer[p].wanted /\ unsaid.link = peer[p].link
        /\ unsaid.central = peer[p].central /\ unsaid.timer = peer[p].timer
        /\ unsaid.making = peer[p].making /\ unsaid.deriving = peer[p].deriving
    BY <1>1 DEF BlePeer
  <2>. QED BY <1>1, <2>1, <2>2 DEF Keeps, Follows, Fit
<1>7. Keeps(Closed(unsaid), peer[p])
  <2>1. unsaid \in BlePeer /\ Fit(unsaid)
    BY <1>6 DEF Keeps, Follows
  <2>2. /\ unsaid.wanted = peer[p].wanted /\ unsaid.mapped = peer[p].mapped
        /\ unsaid.state = peer[p].state /\ unsaid.link = peer[p].link
    BY <1>1 DEF BlePeer
  <2>. HIDE DEF unsaid
  <2>. QED BY <1>1, <2>1, <2>2, CloseKeeps, SameKeeps
<1>8. Keeps(sent, peer[p])
  <2>. HIDE DEF tail, ctr
  <2>1. sent \in BlePeer
    BY <1>1, <1>5 DEF BlePeer
  <2>2. /\ sent.state = peer[p].state /\ sent.mapped = peer[p].mapped
        /\ sent.wanted = peer[p].wanted /\ sent.link = peer[p].link
        /\ sent.central = peer[p].central /\ sent.timer = peer[p].timer
        /\ sent.making = peer[p].making /\ sent.deriving = peer[p].deriving
    BY <1>1 DEF BlePeer
  <2>. QED BY <1>1, <2>1, <2>2 DEF Keeps, Follows, Fit
<1>9. ASSUME NEW r, Keeps(r, peer[p]), Become(p, r) PROVE BTInv'
  BY <1>1, <1>2, <1>3, <1>9, OneBecomes DEF Become
<1>10. ASSUME BecomeAll([peer EXCEPT ![p] = sent], [link EXCEPT ![l].toPeripheral = Append(@, rec)], scan)
       PROVE  BTInv'
  <2>. DEFINE queue == Append(link[l].toPeripheral, rec)
              x == [link[l] EXCEPT !.toPeripheral = queue]
  <2>1. queue \in Seq(AnyRecord)
    BY <1>1, <1>4 DEF LinkState
  <2>2. [link EXCEPT ![l].toPeripheral = Append(@, rec)] = [link EXCEPT ![l] = x]
    BY <1>1
  <2>. HIDE DEF queue
  <2>3. LinkLike(x, link[l])
    BY <1>1, <2>1 DEF LinkLike, LinkState, JobsHavePeers
  <2>. HIDE DEF x, sent, rec, l
  <2>. QED BY <1>1, <1>2, <1>3, <1>8, <1>10, <2>2, <2>3, OneBecomesWithLink
<1>11. ASSUME BecomeAll([peer EXCEPT ![p] = sent], [link EXCEPT ![l].toCentral = Append(@, rec)], scan)
       PROVE  BTInv'
  <2>. DEFINE queue == Append(link[l].toCentral, rec)
              x == [link[l] EXCEPT !.toCentral = queue]
  <2>1. queue \in Seq(AnyRecord)
    BY <1>1, <1>4 DEF LinkState
  <2>2. [link EXCEPT ![l].toCentral = Append(@, rec)] = [link EXCEPT ![l] = x]
    BY <1>1
  <2>. HIDE DEF queue
  <2>3. LinkLike(x, link[l])
    BY <1>1, <2>1 DEF LinkLike, LinkState, JobsHavePeers
  <2>. HIDE DEF x, sent, rec, l
  <2>. QED BY <1>1, <1>2, <1>3, <1>8, <1>11, <2>2, <2>3, OneBecomesWithLink
<1>12. sent = [peer[p] EXCEPT !.queue = Tail(@), !.sendCtr = @ + 1]
  BY <1>1 DEF BlePeer
<1>. QED BY <1>6, <1>7, <1>9, <1>10, <1>11, <1>12 DEF Write

\* The application sends a record.
LEMMA TrySendStep ==
  ASSUME BTInv, NEW p \in Peer, TrySend(p)
  PROVE  BTInv'
<1>1. peer \in [Peer -> BlePeer] /\ Fit(peer[p])
  BY InvTypes DEF BTInv, AllFit
<1>2. /\ Keeps(Say(peer[p], "data"), peer[p])
      /\ Say(peer[p], "data").link = peer[p].link /\ Say(peer[p], "data").central = peer[p].central
      /\ Say(peer[p], "data").wanted = peer[p].wanted
  BY <1>1, SayKeeps
<1>3. /\ peer' = [peer EXCEPT ![p] = Say(peer[p], "data")]
      /\ UNCHANGED <<on, opening, closed, bid, wire, scan, probe, seen, link, troubles>>
  BY <1>1 DEF TrySend
<1>4. PlainTyped'
  BY <1>3, PlainStays
<1>. QED BY <1>2, <1>3, <1>4, OnePeerStays

\* A job of a link has its type.
LEMMA JobTyped ==
  ASSUME NEW how \in {"record", "identify"}, NEW rec \in AnyRecord, NEW p \in Peer,
         NEW left \in SUBSET Node, NEW gone \in BOOLEAN
  PROVE  [how |-> how, rec |-> rec, peer |-> p, left |-> left, gone |-> gone] \in AnyJob
BY DEF AnyJob, PeerOrNone

\* So has one for a record to be opened.
LEMMA RecordJob ==
  ASSUME NEW rec \in AnyRecord, NEW p \in Peer
  PROVE  /\ [NoJob EXCEPT !.how = "record", !.rec = rec, !.peer = p] \in AnyJob
         /\ [NoJob EXCEPT !.how = "record", !.rec = rec, !.peer = p].peer = p
<1>1. NoJob \in AnyJob
  BY DownTyped
<1>. QED BY <1>1 DEF AnyJob, PeerOrNone

\* A link whose record of the central is another one.
LEMMA OtherJob ==
  ASSUME NEW y \in LinkState, JobsHavePeers(y), NEW job \in AnyJob,
         job.how # "none" => job.peer \in Peer,
         NEW hello \in AnyRecord
  PROVE  /\ LinkLike([y EXCEPT !.fromCentral = job, !.hello = hello], y)
         /\ [y EXCEPT !.fromCentral = job, !.hello = hello].owner = y.owner
         /\ LinkLike([y EXCEPT !.fromPeripheral = job], y)
         /\ [y EXCEPT !.fromPeripheral = job].owner = y.owner
<1>. DEFINE x == [y EXCEPT !.fromCentral = job, !.hello = hello]
            z == [y EXCEPT !.fromPeripheral = job]
<1>1. x \in LinkState /\ z \in LinkState
  BY DEF LinkState
<1>2. /\ x.up = y.up /\ x.forgotten = y.forgotten /\ x.hangup = y.hangup /\ x.owner = y.owner
      /\ x.fromCentral = job /\ x.fromPeripheral = y.fromPeripheral
  BY DEF LinkState
<1>3. /\ z.up = y.up /\ z.forgotten = y.forgotten /\ z.hangup = y.hangup /\ z.owner = y.owner
      /\ z.fromCentral = y.fromCentral /\ z.fromPeripheral = job
  BY DEF LinkState
<1>. HIDE DEF x, z
<1>4. LinkLike(x, y) /\ x.owner = y.owner /\ LinkLike(z, y) /\ z.owner = y.owner
  BY <1>1, <1>2, <1>3 DEF LinkLike, JobsHavePeers
<1>. QED BY <1>4 DEF x, z

\* Looking for whom a hello is for changes nothing but the link's job.
LEMMA IdentifyGives ==
  ASSUME BTInv, NEW l \in Link, NEW rec \in AnyRecord, NEW left \in SUBSET Node, NEW gone \in BOOLEAN,
         NEW y, LinkLike(y, link[l]),
         Identify(l, rec, left, gone, [link EXCEPT ![l] = y])
  PROVE  \E x : LinkLike(x, link[l]) /\ x.owner = y.owner /\ link' = [link EXCEPT ![l] = x]
<1>. DEFINE links == [link EXCEPT ![l] = y]
<1>1. y \in LinkState /\ JobsHavePeers(y) /\ links[l] = y /\ link \in [Link -> LinkState]
  BY InvTypes DEF LinkLike
<1>2. ASSUME NEW job \in AnyJob, job.how # "none" => job.peer \in Peer, NEW hello \in AnyRecord,
             NEW x, x = [y EXCEPT !.fromCentral = job, !.hello = hello],
             link' = [link EXCEPT ![l] = x]
      PROVE  \E z : LinkLike(z, link[l]) /\ z.owner = y.owner /\ link' = [link EXCEPT ![l] = z]
  <2>1. LinkLike(x, y) /\ x.owner = y.owner
    BY <1>1, <1>2, OtherJob
  <2>2. LinkLike(x, link[l])
    BY <2>1 DEF LinkLike
  <2>. QED BY <1>2, <2>1, <2>2
<1>3. CASE link' = [links EXCEPT ![l].fromCentral = NoJob, ![l].hello = IF gone THEN @ ELSE rec]
  <2>. DEFINE hello == IF gone THEN y.hello ELSE rec
              x == [y EXCEPT !.fromCentral = NoJob, !.hello = hello]
  <2>1. link' = [link EXCEPT ![l] = x]
    BY <1>1, <1>3 DEF LinkState
  <2>2. hello \in AnyRecord
    BY <1>1 DEF LinkState
  <2>3. NoJob \in AnyJob /\ NoJob.how = "none"
    BY DownTyped DEF NoJob
  <2>. HIDE DEF hello
  <2>4. x = [y EXCEPT !.fromCentral = NoJob, !.hello = hello]
    OBVIOUS
  <2>. HIDE DEF x
  <2>. QED BY <1>2, <2>1, <2>2, <2>3, <2>4
<1>4. ASSUME NEW p \in Awaited(l[2], left), NEW passed,
             link' = [links EXCEPT ![l].fromCentral =
                  [how |-> "identify", rec |-> rec, peer |-> p, gone |-> gone,
                   left |-> left \ (passed \cup {p[2]})]]
      PROVE  \E x : LinkLike(x, link[l]) /\ x.owner = y.owner /\ link' = [link EXCEPT ![l] = x]
  <2>. DEFINE tried == left \ (passed \cup {p[2]})
              job == [how |-> "identify", rec |-> rec, peer |-> p, left |-> tried, gone |-> gone]
              x == [y EXCEPT !.fromCentral = job, !.hello = y.hello]
  <2>1. p \in Peer /\ tried \in SUBSET Node
    BY DEF Awaited
  <2>2. job \in AnyJob /\ job.peer = p
    BY <2>1, JobTyped
  <2>3. y.hello \in AnyRecord
    BY <1>1 DEF LinkState
  <2>4. link' = [links EXCEPT ![l].fromCentral = job]
    BY <1>4
  <2>. HIDE DEF job
  <2>5. link' = [link EXCEPT ![l] = x]
    BY <1>1, <2>4 DEF LinkState
  <2>. QED BY <1>2, <2>1, <2>2, <2>3, <2>5
<1>. QED BY <1>3, <1>4 DEF Identify

\* The types of a link's fields, one by one.
LEMMA LinkFields ==
  ASSUME BTInv, NEW l \in Link
  PROVE  /\ link \in [Link -> LinkState] /\ link[l] \in LinkState /\ JobsHavePeers(link[l])
         /\ link[l].hello \in AnyRecord /\ link[l].owner \in PeerOrNone /\ link[l].handler \in PeerOrNone
         /\ link[l].toPeripheral \in Seq(AnyRecord) /\ link[l].toCentral \in Seq(AnyRecord)
         /\ link[l].fromCentral \in AnyJob /\ link[l].fromPeripheral \in AnyJob
         /\ link[l].fromCentral.rec \in AnyRecord /\ link[l].fromPeripheral.rec \in AnyRecord
         /\ link[l].fromCentral.left \in SUBSET Node /\ link[l].fromCentral.gone \in BOOLEAN
<1>1. link \in [Link -> LinkState] /\ link[l] \in LinkState /\ JobsHavePeers(link[l])
  BY InvTypes
<1>2. /\ link[l].hello \in AnyRecord /\ link[l].owner \in PeerOrNone /\ link[l].handler \in PeerOrNone
      /\ link[l].toPeripheral \in Seq(AnyRecord) /\ link[l].toCentral \in Seq(AnyRecord)
      /\ link[l].fromCentral \in AnyJob /\ link[l].fromPeripheral \in AnyJob
  BY <1>1 DEF LinkState
<1>. QED BY <1>1, <1>2 DEF AnyJob

\* The link after the first record of one direction has been taken.
LEMMA FirstTaken ==
  ASSUME BTInv, NEW l \in Link
  PROVE  /\ link[l].toPeripheral # <<>> =>
              /\ Head(link[l].toPeripheral) \in AnyRecord
              /\ LinkLike([link[l] EXCEPT !.toPeripheral = Tail(@)], link[l])
              /\ [link[l] EXCEPT !.toPeripheral = Tail(@)].owner = link[l].owner
         /\ link[l].toCentral # <<>> =>
              /\ Head(link[l].toCentral) \in AnyRecord
              /\ LinkLike([link[l] EXCEPT !.toCentral = Tail(@)], link[l])
              /\ [link[l] EXCEPT !.toCentral = Tail(@)].owner = link[l].owner
<1>1. /\ link[l] \in LinkState /\ JobsHavePeers(link[l])
      /\ link[l].toPeripheral \in Seq(AnyRecord) /\ link[l].toCentral \in Seq(AnyRecord)
  BY LinkFields
<1>2. ASSUME link[l].toPeripheral # <<>>
      PROVE  /\ Head(link[l].toPeripheral) \in AnyRecord
             /\ LinkLike([link[l] EXCEPT !.toPeripheral = Tail(@)], link[l])
             /\ [link[l] EXCEPT !.toPeripheral = Tail(@)].owner = link[l].owner
  <2>. DEFINE rest == Tail(link[l].toPeripheral)
  <2>1. rest \in Seq(AnyRecord) /\ Head(link[l].toPeripheral) \in AnyRecord
    BY <1>1, <1>2
  <2>. HIDE DEF rest
  <2>2. LinkLike([link[l] EXCEPT !.toPeripheral = rest], link[l])
    BY <1>1, <2>1 DEF LinkLike, LinkState, JobsHavePeers
  <2>3. [link[l] EXCEPT !.toPeripheral = rest].owner = link[l].owner
    BY <1>1 DEF LinkState
  <2>. QED BY <2>1, <2>2, <2>3 DEF rest
<1>3. ASSUME link[l].toCentral # <<>>
      PROVE  /\ Head(link[l].toCentral) \in AnyRecord
             /\ LinkLike([link[l] EXCEPT !.toCentral = Tail(@)], link[l])
             /\ [link[l] EXCEPT !.toCentral = Tail(@)].owner = link[l].owner
  <2>. DEFINE rest == Tail(link[l].toCentral)
  <2>1. rest \in Seq(AnyRecord) /\ Head(link[l].toCentral) \in AnyRecord
    BY <1>1, <1>3
  <2>. HIDE DEF rest
  <2>2. LinkLike([link[l] EXCEPT !.toCentral = rest], link[l])
    BY <1>1, <2>1 DEF LinkLike, LinkState, JobsHavePeers
  <2>3. [link[l] EXCEPT !.toCentral = rest].owner = link[l].owner
    BY <1>1 DEF LinkState
  <2>. QED BY <2>1, <2>2, <2>3 DEF rest
<1>. QED BY <1>2, <1>3

\* The peripheral takes up what the central wrote.
LEMMA FromCentralStep ==
  ASSUME BTInv, NEW l \in Link, FromCentral(l)
  PROVE  BTInv'
<1>. DEFINE rec == Head(link[l].toPeripheral)
            p == link[l].owner
            y == [link[l] EXCEPT !.toPeripheral = Tail(@)]
            rest == [link EXCEPT ![l].toPeripheral = Tail(@)]
            job == [NoJob EXCEPT !.how = "record", !.rec = rec, !.peer = p]
<1>1. /\ rec \in AnyRecord /\ LinkLike(y, link[l]) /\ y.owner = link[l].owner
      /\ y \in LinkState /\ JobsHavePeers(y)
  BY FirstTaken DEF FromCentral, LinkLike
<1>2. p \in PeerOrNone /\ link \in [Link -> LinkState]
  BY LinkFields
<1>3. rest = [link EXCEPT ![l] = y] /\ rest[l] = y
  BY <1>2
<1>4. UNCHANGED <<on, opening, closed, bid, wire, peer, scan, probe, seen, troubles>> /\ PlainTyped'
  BY PlainStays DEF FromCentral
<1>5. ASSUME Identify(l, rec, Node \ {l[2]}, FALSE, rest) PROVE BTInv'
  <2>. HIDE DEF rec, y, rest
  <2>. DEFINE others == Node \ {l[2]}
  <2>3. others \in SUBSET Node /\ FALSE \in BOOLEAN
    OBVIOUS
  <2>1. Identify(l, rec, others, FALSE, [link EXCEPT ![l] = y])
    BY <1>3, <1>5
  <2>. HIDE DEF others
  <2>2. PICK x : LinkLike(x, link[l]) /\ x.owner = y.owner /\ link' = [link EXCEPT ![l] = x]
    BY <1>1, <2>1, <2>3, IdentifyGives, ZenonT(30)
  <2>. QED BY <1>1, <1>4, <2>2, OneLinkStays
<1>6. ASSUME p # NoPeer, link' = [rest EXCEPT ![l].fromCentral = job] PROVE BTInv'
  <2>. DEFINE x == [y EXCEPT !.fromCentral = job, !.hello = y.hello]
  <2>1. p \in Peer
    BY <1>2, <1>6 DEF PeerOrNone
  <2>3. job \in AnyJob /\ job.peer \in Peer
    <3>. HIDE DEF rec, p
    <3>. QED BY <1>1, <2>1, RecordJob
  <2>4. y.hello \in AnyRecord
    BY <1>1 DEF LinkState
  <2>. HIDE DEF job, y, rest
  <2>5. link' = [link EXCEPT ![l] = x]
    BY <1>1, <1>2, <1>3, <1>6 DEF LinkState
  <2>6. LinkLike(x, y) /\ x.owner = y.owner
    BY <1>1, <2>3, <2>4, OtherJob
  <2>7. LinkLike(x, link[l])
    BY <1>1, <2>6 DEF LinkLike
  <2>. HIDE DEF x
  <2>. QED BY <1>1, <1>4, <2>5, <2>6, <2>7, OneLinkStays
<1>. QED BY <1>5, <1>6 DEF FromCentral

\* It looks at a hello again.
LEMMA RetryHelloStep ==
  ASSUME BTInv, NEW l \in Link, RetryHello(l)
  PROVE  BTInv'
<1>. DEFINE y == [link[l] EXCEPT !.retry = FALSE]
            links == [link EXCEPT ![l].retry = FALSE]
<1>1. /\ link \in [Link -> LinkState] /\ link[l] \in LinkState
      /\ JobsHavePeers(link[l]) /\ link[l].hello \in AnyRecord
  BY LinkFields
<1>2. LinkLike(y, link[l]) /\ y.owner = link[l].owner
  BY <1>1 DEF LinkLike, LinkState, JobsHavePeers
<1>3. links = [link EXCEPT ![l] = y]
  BY <1>1
<1>4. /\ UNCHANGED <<on, opening, closed, bid, wire, peer, scan, probe, seen, troubles>> /\ PlainTyped'
      /\ Identify(l, link[l].hello, Node \ {l[2]}, FALSE, links)
  BY PlainStays DEF RetryHello
<1>. HIDE DEF y, links
<1>. DEFINE others == Node \ {l[2]}
            hello == link[l].hello
<1>5. /\ Identify(l, hello, others, FALSE, [link EXCEPT ![l] = y])
      /\ others \in SUBSET Node /\ FALSE \in BOOLEAN /\ hello \in AnyRecord
  BY <1>1, <1>3, <1>4
<1>. HIDE DEF others, hello
<1>6. PICK x : LinkLike(x, link[l]) /\ x.owner = y.owner /\ link' = [link EXCEPT ![l] = x]
  BY <1>2, <1>5, IdentifyGives, ZenonT(30)
<1>. QED BY <1>2, <1>4, <1>6, OneLinkStays

\* It has found whose the hello is, or that it is nobody's: the peer has its
\* central.
LEMMA LateKeeps ==
  ASSUME NEW r \in BlePeer, Fit(r), NEW s, s = [r EXCEPT !.late = TRUE]
  PROVE  /\ Keeps(s, r) /\ s.making = r.making /\ s.deriving = r.deriving /\ s.half = r.half
         /\ s.myBid = r.myBid /\ s.rekeyed = r.rekeyed /\ s.sendCtr = r.sendCtr
         /\ s.wanted = r.wanted /\ s.mapped = r.mapped /\ s.timer = r.timer /\ s.state = r.state
         /\ s.recvCtr = r.recvCtr /\ s.link = r.link /\ s.central = r.central
BY DEF BlePeer, Fit, Keeps, Follows

LEMMA IdentifiedStep ==
  ASSUME BTInv, NEW l \in Link, Identified(l)
  PROVE  BTInv'
<1>. DEFINE job == link[l].fromCentral
            p == job.peer
            owner == IF job.gone THEN link[l].owner ELSE p
            hello == IF job.gone THEN link[l].hello ELSE NoRecord
            x == [link[l] EXCEPT !.fromCentral = NoJob, !.retry = FALSE, !.owner = owner, !.hello = hello]
            greeted == Greeted(peer[p])
<1>1. /\ link \in [Link -> LinkState] /\ link[l] \in LinkState /\ JobsHavePeers(link[l])
      /\ link[l].hello \in AnyRecord /\ link[l].owner \in PeerOrNone
      /\ job.rec \in AnyRecord /\ job.left \in SUBSET Node /\ job.gone \in BOOLEAN
  BY LinkFields
<1>2. job.how = "identify" /\ UNCHANGED <<on, opening, closed, bid, wire, probe, seen, troubles>>
  BY DEF Identified
<1>3. p \in Peer
  BY <1>1, <1>2 DEF JobsHavePeers
<1>4. PlainTyped'
  BY <1>2, PlainStays
<1>5. ASSUME NEW next \in AnyJob, next.how # "none" => next.peer \in Peer, NEW kept \in AnyRecord,
             link' = [link EXCEPT ![l] = [link[l] EXCEPT !.fromCentral = next, !.hello = kept]],
             UNCHANGED <<peer, scan>>
      PROVE  BTInv'
  <2>. DEFINE z == [link[l] EXCEPT !.fromCentral = next, !.hello = kept]
  <2>1. LinkLike(z, link[l]) /\ z.owner = link[l].owner
    BY <1>1, <1>5, OtherJob
  <2>2. link' = [link EXCEPT ![l] = z]
    BY <1>5
  <2>. HIDE DEF z
  <2>. QED BY <1>2, <1>4, <1>5, <2>1, <2>2, OneLinkStays
<1>6. ASSUME Identify(l, job.rec, job.left, job.gone, link), UNCHANGED <<peer, scan>>
      PROVE  BTInv'
  <2>1. CASE link' = [link EXCEPT ![l].fromCentral = NoJob, ![l].hello = IF job.gone THEN @ ELSE job.rec]
    <3>. DEFINE kept == IF job.gone THEN link[l].hello ELSE job.rec
    <3>1. kept \in AnyRecord /\ NoJob \in AnyJob /\ NoJob.how = "none"
      BY <1>1, DownTyped DEF NoJob
    <3>2. link' = [link EXCEPT ![l] = [link[l] EXCEPT !.fromCentral = NoJob, !.hello = kept]]
      BY <1>1, <2>1 DEF LinkState
    <3>. HIDE DEF kept
    <3>. QED BY <1>5, <1>6, <3>1, <3>2
  <2>2. ASSUME NEW q \in Awaited(l[2], job.left), NEW passed,
               link' = [link EXCEPT ![l].fromCentral =
                  [how |-> "identify", rec |-> job.rec, peer |-> q, gone |-> job.gone,
                   left |-> job.left \ (passed \cup {q[2]})]]
        PROVE  BTInv'
    <3>. DEFINE tried == job.left \ (passed \cup {q[2]})
                next == [how |-> "identify", rec |-> job.rec, peer |-> q, left |-> tried, gone |-> job.gone]
    <3>1. q \in Peer /\ tried \in SUBSET Node
      BY <1>1 DEF Awaited
    <3>2. next \in AnyJob /\ next.peer = q
      BY <1>1, <3>1, JobTyped
    <3>3. link' = [link EXCEPT ![l].fromCentral = next]
      BY <2>2
    <3>. HIDE DEF next
    <3>4. link' = [link EXCEPT ![l] = [link[l] EXCEPT !.fromCentral = next, !.hello = link[l].hello]]
      BY <1>1, <3>3 DEF LinkState
    <3>. QED BY <1>1, <1>5, <1>6, <3>1, <3>2, <3>4
  <2>. QED BY <1>6, <2>1, <2>2 DEF Identify
<1>7. ASSUME BecomeAll([peer EXCEPT ![p] = greeted], [link EXCEPT ![l] = x], scan)
      PROVE  BTInv'
  <2>1. owner \in PeerOrNone /\ hello \in AnyRecord /\ NoJob \in AnyJob /\ NoJob.how = "none"
    BY <1>1, <1>3, DownTyped DEF PeerOrNone, NoJob
  <2>. HIDE DEF owner, hello
  <2>2. x \in LinkState
    BY <1>1, <2>1 DEF LinkState
  <2>3. /\ x.up = link[l].up /\ x.forgotten = link[l].forgotten /\ x.hangup = link[l].hangup
        /\ x.fromCentral = NoJob /\ x.fromPeripheral = link[l].fromPeripheral
    BY <1>1 DEF LinkState
  <2>. HIDE DEF x
  <2>4. LinkLike(x, link[l])
    BY <1>1, <2>1, <2>2, <2>3 DEF LinkLike, JobsHavePeers
  <2>5. Keeps(greeted, peer[p])
    BY <1>3, GreetedKeeps, InvTypes DEF BTInv, AllFit
  <2>. HIDE DEF greeted, p
  <2>. QED BY <1>2, <1>3, <1>4, <1>7, <2>4, <2>5, OneBecomesWithLink
<1>8. [link EXCEPT ![l].fromCentral = NoJob, ![l].retry = FALSE,
                   ![l].owner = IF job.gone THEN @ ELSE p,
                   ![l].hello = IF job.gone THEN @ ELSE NoRecord] = [link EXCEPT ![l] = x]
  BY <1>1 DEF LinkState
<1>9. [peer EXCEPT ![p] = Greeted(@)] = [peer EXCEPT ![p] = greeted]
  BY <1>3, InvTypes
<1>10. ASSUME link' = [link EXCEPT ![l].fromCentral =
                         IF job.gone THEN NoJob ELSE [job EXCEPT !.how = "thrown"]],
              peer' = [peer EXCEPT ![p].late = TRUE], scan' = scan
       PROVE  BTInv'
  <2>. DEFINE thrown == [job EXCEPT !.how = "thrown"]
              next == IF job.gone THEN NoJob ELSE thrown
              z == [link[l] EXCEPT !.fromCentral = next, !.hello = link[l].hello]
              r == [peer[p] EXCEPT !.late = TRUE]
  <2>1. thrown \in AnyJob /\ thrown.peer = p
    BY <1>1, LinkFields DEF AnyJob
  <2>2. NoJob \in AnyJob /\ NoJob.how = "none"
    BY DownTyped DEF NoJob
  <2>3. next \in AnyJob /\ (next.how # "none" => next.peer \in Peer)
    <3>. HIDE DEF thrown
    <3>. QED BY <1>3, <2>1, <2>2
  <2>4. link' = [link EXCEPT ![l] = z]
    <3>1. link' = [link EXCEPT ![l].fromCentral = next]
      BY <1>10
    <3>. HIDE DEF next
    <3>. QED BY <1>1, <3>1 DEF LinkState
  <2>. HIDE DEF next
  <2>5. LinkLike(z, link[l]) /\ z.owner = link[l].owner
    BY <1>1, <2>3, OtherJob
  <2>. HIDE DEF z
  <2>6. \A k \in Link : LinkLike(link'[k], link[k]) /\ link'[k].owner = link[k].owner
    BY <2>4, <2>5, OneLink
  <2>7. link' \in [Link -> LinkState]
    BY <2>4, <2>5, OneLink
  <2>8. /\ Keeps(r, peer[p]) /\ r.wanted = peer[p].wanted /\ r.mapped = peer[p].mapped
        /\ r.link = peer[p].link /\ r.central = peer[p].central
    BY <1>3, LateKeeps, InvTypes DEF BTInv, AllFit
  <2>9. peer' = [peer EXCEPT ![p] = r]
    BY <1>3, <1>10, InvTypes
  <2>. HIDE DEF r, p
  <2>10. \A q \in Peer : peer'[q] = IF q = p THEN r ELSE peer[q]
    BY <2>9, InvTypes
  <2>11. peer' \in [Peer -> BlePeer]
    BY <1>3, <2>8, <2>9, InvTypes DEF Keeps, Follows
  <2>12. OneMapped(peer')
    BY <2>8, <2>10, InvTypes DEF OneMapped
  <2>13. \A q \in Peer : /\ Follows(peer'[q], peer[q]) /\ peer'[q].wanted = peer[q].wanted
                         /\ peer'[q].link = peer[q].link /\ peer'[q].central = peer[q].central
    BY <2>8, <2>10, InvTypes DEF Keeps
  <2>. QED BY <1>2, <1>4, <1>10, <2>6, <2>7, <2>11, <2>12, <2>13, StayKeeps DEF LinkLike
<1>. QED BY <1>6, <1>7, <1>8, <1>9, <1>10 DEF Identified

\* A central's record is opened.
LEMMA RecordFromCentralStep ==
  ASSUME BTInv, NEW l \in Link, RecordFromCentral(l)
  PROVE  BTInv'
<1>. DEFINE job == link[l].fromCentral
            x == [link[l] EXCEPT !.fromCentral = NoJob, !.hello = link[l].hello]
            r == AfterRecord(job.peer, job.rec)
<1>1. /\ link \in [Link -> LinkState] /\ link[l] \in LinkState /\ JobsHavePeers(link[l])
      /\ link[l].hello \in AnyRecord
  BY LinkFields
<1>2. /\ job.how = "record" /\ UNCHANGED <<on, opening, closed, bid, wire, probe, seen, troubles>>
      /\ BecomeAll([peer EXCEPT ![job.peer] = r], [link EXCEPT ![l].fromCentral = NoJob], scan)
  BY DEF RecordFromCentral
<1>3. job.peer \in Peer
  BY <1>1, <1>2 DEF JobsHavePeers
<1>4. Keeps(r, peer[job.peer])
  BY <1>3, RecordKeeps, InvTypes DEF BTInv
<1>5. NoJob \in AnyJob /\ NoJob.how = "none"
  BY DownTyped DEF NoJob
<1>6. LinkLike(x, link[l])
  BY <1>1, <1>5, OtherJob
<1>7. [link EXCEPT ![l].fromCentral = NoJob] = [link EXCEPT ![l] = x]
  BY <1>1 DEF LinkState
<1>8. PlainTyped'
  BY <1>2, PlainStays
<1>. HIDE DEF x, r, job
<1>. QED BY <1>2, <1>3, <1>4, <1>6, <1>7, <1>8, OneBecomesWithLink

\* The central takes up what the peripheral notified.
LEMMA FromPeripheralStep ==
  ASSUME BTInv, NEW l \in Link, FromPeripheral(l)
  PROVE  BTInv'
<1>. DEFINE rec == Head(link[l].toCentral)
            p == link[l].handler
            y == [link[l] EXCEPT !.toCentral = Tail(@)]
            rest == [link EXCEPT ![l].toCentral = Tail(@)]
            job == [NoJob EXCEPT !.how = "record", !.rec = rec, !.peer = p]
<1>1. /\ rec \in AnyRecord /\ LinkLike(y, link[l]) /\ y.owner = link[l].owner
      /\ y \in LinkState /\ JobsHavePeers(y)
  BY FirstTaken DEF FromPeripheral, LinkLike
<1>2. p \in PeerOrNone /\ link \in [Link -> LinkState]
  BY LinkFields
<1>3. rest = [link EXCEPT ![l] = y] /\ rest[l] = y
  BY <1>2
<1>4. UNCHANGED <<on, opening, closed, bid, wire, peer, scan, probe, seen, troubles>> /\ PlainTyped'
  BY PlainStays DEF FromPeripheral
<1>5. CASE link' = rest
  <2>. HIDE DEF y, rest
  <2>. QED BY <1>1, <1>3, <1>4, <1>5, OneLinkStays
<1>6. ASSUME p # NoPeer, link' = [rest EXCEPT ![l].fromPeripheral = job] PROVE BTInv'
  <2>. DEFINE x == [y EXCEPT !.fromPeripheral = job]
  <2>1. p \in Peer
    BY <1>2, <1>6 DEF PeerOrNone
  <2>2. job \in AnyJob /\ job.peer \in Peer
    <3>. HIDE DEF rec, p
    <3>. QED BY <1>1, <2>1, RecordJob
  <2>3. y.hello \in AnyRecord
    BY <1>1 DEF LinkState
  <2>. HIDE DEF job, y, rest
  <2>4. link' = [link EXCEPT ![l] = x]
    BY <1>1, <1>2, <1>3, <1>6 DEF LinkState
  <2>5. LinkLike(x, y) /\ x.owner = y.owner
    BY <1>1, <2>2, <2>3, OtherJob
  <2>6. LinkLike(x, link[l])
    BY <1>1, <2>5 DEF LinkLike
  <2>. HIDE DEF x
  <2>. QED BY <1>1, <1>4, <2>4, <2>5, <2>6, OneLinkStays
<1>. QED BY <1>5, <1>6 DEF FromPeripheral

\* A peripheral's record is opened.
LEMMA RecordFromPeripheralStep ==
  ASSUME BTInv, NEW l \in Link, RecordFromPeripheral(l)
  PROVE  BTInv'
<1>. DEFINE job == link[l].fromPeripheral
            x == [link[l] EXCEPT !.fromPeripheral = NoJob]
            r == AfterRecord(job.peer, job.rec)
<1>1. /\ link \in [Link -> LinkState] /\ link[l] \in LinkState /\ JobsHavePeers(link[l])
      /\ link[l].hello \in AnyRecord
  BY LinkFields
<1>2. /\ job.how = "record" /\ UNCHANGED <<on, opening, closed, bid, wire, probe, seen, troubles>>
      /\ BecomeAll([peer EXCEPT ![job.peer] = r], [link EXCEPT ![l].fromPeripheral = NoJob], scan)
  BY DEF RecordFromPeripheral
<1>3. job.peer \in Peer
  BY <1>1, <1>2 DEF JobsHavePeers
<1>4. Keeps(r, peer[job.peer])
  BY <1>3, RecordKeeps, InvTypes DEF BTInv
<1>5. NoJob \in AnyJob /\ NoJob.how = "none"
  BY DownTyped DEF NoJob
<1>6. LinkLike(x, link[l])
  BY <1>1, <1>5, OtherJob
<1>7. [link EXCEPT ![l].fromPeripheral = NoJob] = [link EXCEPT ![l] = x]
  BY <1>1 DEF LinkState
<1>8. PlainTyped'
  BY <1>2, PlainStays
<1>. HIDE DEF x, r, job
<1>. QED BY <1>2, <1>3, <1>4, <1>6, <1>7, <1>8, OneBecomesWithLink

----
\* Ends.

\* A peer changes, with what follows of it.
LEMMA BecomeStep ==
  ASSUME BTInv, PlainTyped', NEW p \in Peer, NEW r, Keeps(r, peer[p]), Become(p, r),
         UNCHANGED <<on, opening, closed, probe>>
  PROVE  BTInv'
<1>1. BecomeAll([peer EXCEPT ![p] = r], link, scan)
  BY DEF Become
<1>. QED BY <1>1, InvTypes, OneBecomes

\* A negotiation's timer strikes.
LEMMA TimeoutStep ==
  ASSUME BTInv, NEW p \in Peer, Timeout(p)
  PROVE  BTInv'
<1>. DEFINE r == [peer[p] EXCEPT !.timer = FALSE]
<1>1. peer[p] \in BlePeer /\ Fit(peer[p])
  BY InvTypes DEF BTInv, AllFit
<1>2. peer[p].timer /\ Trouble /\ UNCHANGED <<on, opening, closed, bid, wire, probe, seen>>
  BY DEF Timeout
<1>3. PlainTyped'
  BY <1>2, PlainStays
<1>4. CASE peer[p].state = "open"
  <2>1. Become(p, r)
    BY <1>4 DEF Timeout
  <2>2. r \in BlePeer
    BY <1>1 DEF BlePeer
  <2>3. /\ r.state = "open" /\ r.mapped = peer[p].mapped /\ r.wanted = peer[p].wanted
        /\ r.link = peer[p].link
    BY <1>1, <1>4 DEF BlePeer
  <2>. HIDE DEF r
  <2>4. Keeps(r, peer[p])
    BY <1>1, <1>4, <2>2, <2>3 DEF Keeps, Follows, Fit
  <2>. QED BY <1>2, <1>3, <2>1, <2>4, BecomeStep
<1>5. CASE peer[p].state # "open"
  <2>1. r.state = peer[p].state /\ peer[p].state # "closed"
    BY <1>1, <1>2 DEF BlePeer, Fit
  <2>2. Release(r) = Release(peer[p])
    BY <1>1 DEF Release, BlePeer
  <2>3. Fail(r) = Fail(peer[p])
    BY <2>1, <2>2 DEF Fail
  <2>4. Become(p, Fail(peer[p]))
    BY <1>5, <2>3 DEF Timeout
  <2>. QED BY <1>1, <1>2, <1>3, <2>4, FailKeeps, BecomeStep
<1>. QED BY <1>4, <1>5

\* What failed is forgotten after a while.
LEMMA RestOverStep ==
  ASSUME BTInv, NEW p \in Peer, RestOver(p)
  PROVE  BTInv'
<1>. DEFINE r == [peer[p] EXCEPT !.resting = FALSE]
<1>1. peer \in [Peer -> BlePeer] /\ peer[p] \in BlePeer /\ Fit(peer[p])
  BY InvTypes DEF BTInv, AllFit
<1>2. /\ peer' = [peer EXCEPT ![p] = r]
      /\ UNCHANGED <<on, opening, closed, bid, wire, scan, probe, seen, link, troubles>>
  BY <1>1 DEF RestOver
<1>3. PlainTyped'
  BY <1>2, PlainStays
<1>4. r \in BlePeer
  BY <1>1 DEF BlePeer
<1>5. /\ r.state = peer[p].state /\ r.mapped = peer[p].mapped /\ r.wanted = peer[p].wanted
      /\ r.link = peer[p].link /\ r.central = peer[p].central /\ r.timer = peer[p].timer
      /\ r.making = peer[p].making /\ r.deriving = peer[p].deriving
  BY <1>1 DEF BlePeer
<1>. HIDE DEF r
<1>6. Keeps(r, peer[p])
  BY <1>1, <1>4, <1>5 DEF Keeps, Follows, Fit
<1>. QED BY <1>2, <1>3, <1>5, <1>6, OnePeerStays

\* A peer is closed by the application.
LEMMA ClosePeerStep ==
  ASSUME BTInv, NEW p \in Peer, ClosePeer(p)
  PROVE  BTInv'
<1>1. peer[p] \in BlePeer /\ Fit(peer[p])
  BY InvTypes DEF BTInv, AllFit
<1>2. /\ Become(p, Closed(peer[p])) /\ Trouble
      /\ UNCHANGED <<on, opening, closed, bid, wire, probe, seen>>
  BY DEF ClosePeer
<1>3. PlainTyped'
  BY <1>2, PlainStays
<1>. QED BY <1>1, <1>2, <1>3, CloseKeeps, BecomeStep

\* A peer that has been told that its link is gone.
LEMMA ToldGives ==
  ASSUME NEW r \in BlePeer, Fit(r), NEW s, s = [Closed(r) EXCEPT !.link = "none"]
  PROVE  /\ s \in BlePeer /\ Fit(s) /\ s.wanted \subseteq r.wanted
         /\ s.state = "closed" /\ (s.mapped => r.mapped) /\ s.link = "none"
<1>. DEFINE c == Closed(r)
<1>1. /\ c \in BlePeer /\ Fit(c) /\ c.state = "closed" /\ c.wanted \subseteq r.wanted
      /\ (c.mapped => r.mapped)
  BY CloseKeeps DEF Keeps, Follows
<1>2. s = [c EXCEPT !.link = "none"]
  OBVIOUS
<1>. HIDE DEF c
<1>3. s \in BlePeer
  BY <1>1, <1>2 DEF BlePeer
<1>4. /\ s.state = c.state /\ s.wanted = c.wanted /\ s.mapped = c.mapped /\ s.link = "none"
      /\ s.timer = c.timer /\ s.central = c.central
  BY <1>1, <1>2 DEF BlePeer
<1>. QED BY <1>1, <1>3, <1>4 DEF Fit

\* A shared link is given up at this side only.
LEMMA SharedClosedStep ==
  ASSUME BTInv, NEW p \in Peer, SharedClosed(p)
  PROVE  BTInv'
<1>. DEFINE l == LinkOf(p)
            r == [Closed(peer[p]) EXCEPT !.link = "none"]
            x == [link[l] EXCEPT !.handler = NoPeer]
<1>1. /\ peer \in [Peer -> BlePeer] /\ peer[p] \in BlePeer /\ Fit(peer[p]) /\ l \in Link
  BY InvTypes, PeerFacts DEF BTInv, AllFit
<1>2. link \in [Link -> LinkState] /\ link[l] \in LinkState /\ JobsHavePeers(link[l])
  BY <1>1, LinkFields
<1>3. /\ peer[p].link = "sharedClosing"
      /\ UNCHANGED <<on, opening, closed, bid, wire, probe, seen, troubles>>
  BY DEF SharedClosed
<1>4. BecomeAll([peer EXCEPT ![p] = r], [link EXCEPT ![l] = x], scan)
  <2>1. [peer EXCEPT ![p] = [Closed(@) EXCEPT !.link = "none"]] = [peer EXCEPT ![p] = r]
    BY <1>1
  <2>2. [link EXCEPT ![l].handler = NoPeer] = [link EXCEPT ![l] = x]
    BY <1>1, <1>2
  <2>. QED BY <2>1, <2>2 DEF SharedClosed
<1>5. PlainTyped'
  BY <1>3, PlainStays
<1>6. Keeps(r, peer[p])
  <2>1. /\ r \in BlePeer /\ Fit(r) /\ r.wanted \subseteq peer[p].wanted
        /\ r.state = "closed" /\ (r.mapped => peer[p].mapped)
    BY <1>1, ToldGives
  <2>. HIDE DEF r
  <2>. QED BY <1>3, <2>1 DEF Keeps, Follows
<1>7. LinkLike(x, link[l])
  <2>1. x \in LinkState
    BY <1>2 DEF LinkState, PeerOrNone
  <2>2. /\ x.up = link[l].up /\ x.forgotten = link[l].forgotten /\ x.hangup = link[l].hangup
        /\ x.fromCentral = link[l].fromCentral /\ x.fromPeripheral = link[l].fromPeripheral
    BY <1>2 DEF LinkState
  <2>. HIDE DEF x
  <2>. QED BY <1>2, <2>1, <2>2 DEF LinkLike, JobsHavePeers
<1>. HIDE DEF l, r, x
<1>. QED BY <1>1, <1>3, <1>4, <1>5, <1>6, <1>7, OneBecomesWithLink

\* The link as its end leaves it.
LeftOf(k) ==
  [Down EXCEPT !.fromCentral = IF k.fromCentral.how \in {"none", "thrown"} THEN NoJob
                               ELSE [k.fromCentral EXCEPT !.gone = TRUE],
               !.fromPeripheral = k.fromPeripheral]

\* It is a link that is down.
LEMMA GoneLink ==
  ASSUME BTInv, NEW l \in Link, NEW x, x = LeftOf(link[l])
  PROVE  x \in LinkState /\ JobsHavePeers(x) /\ ~x.up /\ x.owner = NoPeer
<1>. DEFINE job == link[l].fromCentral
            job1 == [job EXCEPT !.gone = TRUE]
            job2 == IF job.how \in {"none", "thrown"} THEN NoJob ELSE job1
<1>1. /\ job \in AnyJob /\ link[l].fromPeripheral \in AnyJob /\ JobsHavePeers(link[l])
      /\ NoJob \in AnyJob /\ Down \in LinkState /\ NoJob.how = "none"
  BY LinkFields, DownTyped DEF NoJob
<1>2. job1 \in AnyJob /\ job1.how = job.how /\ job1.peer = job.peer
  <2>. HIDE DEF job
  <2>. QED BY <1>1 DEF AnyJob
<1>3. job2 \in AnyJob /\ (job2.how # "none" => job2.peer \in Peer)
  <2>1. job.how # "none" => job.peer \in Peer
    BY <1>1 DEF JobsHavePeers
  <2>. HIDE DEF job, job1
  <2>. QED BY <1>1, <1>2, <2>1
<1>4. x = [Down EXCEPT !.fromCentral = job2, !.fromPeripheral = link[l].fromPeripheral]
  BY DEF LeftOf
<1>. HIDE DEF job2
<1>5. x \in LinkState
  BY <1>1, <1>3, <1>4 DEF LinkState
<1>6. /\ x.fromCentral = job2 /\ x.fromPeripheral = link[l].fromPeripheral
      /\ x.up = Down.up /\ x.owner = Down.owner
  BY <1>1, <1>4 DEF LinkState
<1>7. ~Down.up /\ Down.owner = NoPeer
  BY DEF Down
<1>. QED BY <1>1, <1>3, <1>5, <1>6, <1>7 DEF JobsHavePeers

\* A link goes down: its peers fail, and what was on it is lost.
LEMMA GoneStep ==
  ASSUME BTInv, NEW l \in Link, Gone(l), Trouble \/ UNCHANGED troubles,
         UNCHANGED <<on, opening, closed, bid, wire, probe, seen>>
  PROVE  BTInv'
<1>. DEFINE told(p) == LinkOf(p) = l /\ (peer[p].link # "none" \/ link[l].owner = p)
            peers == [p \in Peer |-> IF told(p) THEN [Closed(peer[p]) EXCEPT !.link = "none"] ELSE peer[p]]
            x == LeftOf(link[l])
            links == [link EXCEPT ![l] = x]
<1>1. /\ PlainTyped /\ peer \in [Peer -> BlePeer] /\ OneMapped(peer) /\ AllFit
      /\ link \in [Link -> LinkState] /\ \A k \in Link : JobsHavePeers(link[k])
      /\ scan \in [Node -> ScanState] /\ probe \in [Node -> ProbeState]
      /\ ScanHasSearcher /\ on \in [Node -> BOOLEAN]
  BY InvTypes DEF BTInv, PlainTyped
<1>2. peer' = peers /\ link' = Hung(peers, links) /\ scan' = Rested(peers, scan)
  BY DEF Gone, BecomeAll, LeftOf
<1>3. x \in LinkState /\ JobsHavePeers(x) /\ ~x.up /\ x.owner = NoPeer
  BY GoneLink
<1>. HIDE DEF x
<1>4. \A k \in Link : links[k] = IF k = l THEN x ELSE link[k]
  BY <1>1
<1>5. links \in [Link -> LinkState] /\ \A k \in Link : JobsHavePeers(links[k])
  BY <1>1, <1>3, <1>4
<1>6. ASSUME NEW p \in Peer
      PROVE  /\ peers[p] \in BlePeer /\ Fit(peers[p]) /\ peers[p].wanted \subseteq peer[p].wanted
             /\ (peers[p].mapped => peer[p].mapped)
             /\ peers[p].state = "keyed" => peer[p].state = "keyed"
             /\ peers[p] # peer[p] => LinkOf(p) = l
  <2>1. peer[p] \in BlePeer /\ Fit(peer[p])
    BY <1>1 DEF AllFit
  <2>2. CASE told(p)
    <3>1. peers[p] = [Closed(peer[p]) EXCEPT !.link = "none"]
      BY <2>2
    <3>2. /\ peers[p] \in BlePeer /\ Fit(peers[p]) /\ peers[p].wanted \subseteq peer[p].wanted
          /\ (peers[p].mapped => peer[p].mapped) /\ peers[p].state = "closed"
      BY <2>1, <3>1, ToldGives
    <3>. QED BY <2>2, <3>2
  <2>3. CASE ~told(p)
    <3>1. peers[p] = peer[p]
      BY <2>3
    <3>. QED BY <2>1, <3>1
  <2>. QED BY <2>2, <2>3
<1>7. peers \in [Peer -> BlePeer]
  <2>1. \A p \in Peer : peers[p] \in BlePeer
    BY <1>6
  <2>. QED BY <2>1
<1>. HIDE DEF peers, links
<1>8. OneMapped(peers)
  BY <1>1, <1>6 DEF OneMapped
<1>9. /\ link' \in [Link -> LinkState]
      /\ \A k \in Link : /\ JobsHavePeers(link'[k])
                         /\ link'[k].up = links[k].up /\ link'[k].forgotten = links[k].forgotten
                         /\ links[k].hangup \/ (links[k].up /\ LetsGo(k, peers)) => link'[k].hangup
                         /\ link'[k].owner # NoPeer => peers[link'[k].owner].central
  BY <1>1, <1>2, <1>5, <1>7, HungGives
<1>10. \A k \in Link : /\ link'[k].up => k # l /\ link[k].up
                       /\ link'[k].up /\ link[k].hangup => link'[k].hangup
                       /\ link'[k].up /\ link[k].forgotten => link'[k].forgotten
                       /\ link'[k].up /\ LetsGo(k, peers) => link'[k].hangup
                       /\ link'[k].owner # NoPeer => peers[link'[k].owner].central
  BY <1>3, <1>4, <1>9
<1>11. \A k \in Link : LetsGo(k, peer') = LetsGo(k, peers)
  BY <1>2
<1>12. \A p \in Peer : peer[p].link = "own" /\ InUse(LinkOf(p))' => peers[p].link \in {"own", "ownClosing"}
  <2>1. SUFFICES ASSUME NEW p \in Peer, peer[p].link = "own", InUse(LinkOf(p))'
                 PROVE  peers[p].link = "own"
    OBVIOUS
  <2>2. LinkOf(p) \in Link /\ link'[LinkOf(p)].up
    BY <2>1, PeerFacts DEF InUse, LinkOf, IsCentral
  <2>3. LinkOf(p) # l
    BY <2>2, <1>10
  <2>. QED BY <2>1, <2>3, <1>6
<1>13. /\ AllFit' /\ CentralsWant' /\ OwnerIsCentral' /\ SwitchedOff' /\ OffIsHung'
       /\ ProbesInHand' /\ LinkHasOwner'
  BY <1>2, <1>6, <1>10, <1>11, <1>12, Stays
<1>14. scan' \in [Node -> ScanState] /\ ScanHasSearcher'
  BY <1>1, <1>2, <1>6, RestedKeeps
<1>15. PlainTyped'
  BY PlainStays
<1>16. TypeOK' /\ LinksTyped' /\ ProbesTyped'
  BY <1>1, <1>2, <1>7, <1>8, <1>9, <1>14, <1>15, TypePartsNext DEF LinksTyped, ProbesTyped,
     JobsHavePeers
<1>. QED BY <1>13, <1>14, <1>16 DEF BTInv

\* Steps of a client's switching on and off that leave peers and links alone.
LEMMA SwitchStays ==
  ASSUME BTInv, PlainTyped', SwitchedOff', \A n \in Node : on[n] => on'[n],
         UNCHANGED <<peer, scan, probe, link>>
  PROVE  BTInv'
<1>1. TypeOK' /\ LinksTyped' /\ ProbesTyped'
  BY InvTypes, TypePartsNext DEF LinksTyped, ProbesTyped, JobsHavePeers
<1>2. AllFit' /\ CentralsWant' /\ OwnerIsCentral' /\ ScanHasSearcher'
  BY DEF BTInv, AllFit, Fit, CentralsWant, IsCentral, OwnerIsCentral, ScanHasSearcher, Searching
<1>3. OffIsHung'
  BY LinkFacts DEF BTInv, OffIsHung
<1>4. ProbesInHand'
  BY DEF BTInv, ProbesInHand, ProbeInHand, Probed, LinkOf, IsCentral, InUse
<1>5. LinkHasOwner'
  BY DEF BTInv, LinkHasOwner, LinkOf, IsCentral
<1>. QED BY <1>1, <1>2, <1>3, <1>4, <1>5 DEF BTInv

\* A link that is to be cut keeps the rest.
LEMMA CutGives ==
  ASSUME NEW h \in LinkState, NEW c \in BOOLEAN, NEW y, y = [h EXCEPT !.hangup = c]
  PROVE  /\ y \in LinkState /\ y.up = h.up /\ y.forgotten = h.forgotten /\ y.hangup = c
         /\ y.owner = h.owner /\ y.fromCentral = h.fromCentral /\ y.fromPeripheral = h.fromPeripheral
BY DEF LinkState

\* stop(): the peers in the map are closed, every link of the device is to be
\* cut.
LEMMA StopStep ==
  ASSUME BTInv, NEW n \in Node, Stop(n)
  PROVE  BTInv'
<1>. DEFINE peers == [p \in Peer |-> IF p[1] = n /\ peer[p].mapped THEN Closed(peer[p]) ELSE peer[p]]
            hung == Hung(peers, link)
            rested == Rested(peers, scan)
            cut(k) == hung[k].hangup \/ (link[k].up /\ n \in {k[1], k[2]})
<1>1. /\ PlainTyped /\ peer \in [Peer -> BlePeer] /\ OneMapped(peer) /\ AllFit
      /\ link \in [Link -> LinkState] /\ \A k \in Link : JobsHavePeers(link[k])
      /\ scan \in [Node -> ScanState] /\ probe \in [Node -> ProbeState]
      /\ ScanHasSearcher /\ on \in [Node -> BOOLEAN] /\ closed \in [Node -> BOOLEAN]
  BY InvTypes DEF BTInv, PlainTyped
<1>2. /\ closed' = [closed EXCEPT ![n] = TRUE] /\ UNCHANGED <<opening, bid, wire, probe, seen>>
      /\ Trouble \/ UNCHANGED troubles
  BY DEF Stop
<1>3. CASE ~on[n] /\ UNCHANGED <<on, peer, link, scan, troubles>>
  <2>1. SwitchedOff'
    BY <1>1, <1>2, <1>3 DEF BTInv, SwitchedOff
  <2>2. PlainTyped'
    BY <1>1, <1>2, <1>3 DEF PlainTyped
  <2>. QED BY <1>2, <1>3, <2>1, <2>2, SwitchStays
<1>4. ASSUME on[n], on' = [on EXCEPT ![n] = FALSE], peer' = peers,
             link' = [k \in Link |-> [hung[k] EXCEPT !.hangup = @ \/ (link[k].up /\ n \in {k[1], k[2]})]],
             scan' = [rested EXCEPT ![n] = IF @ = "on" THEN "off" ELSE @]
      PROVE  BTInv'
  <2>1. \A m \in Node : on'[m] = (on[m] /\ m # n)
    BY <1>1, <1>4
  <2>2. SwitchedOff' /\ PlainTyped'
    BY <1>1, <1>2, <1>4, TroubleTyped DEF BTInv, SwitchedOff, PlainTyped
  <2>3. \A p \in Peer : /\ Keeps(peers[p], peer[p])
                        /\ p[1] # n => peers[p] = peer[p]
                        /\ p[1] = n /\ peers[p].mapped => peers[p].state = "closed"
    BY <1>1, CloseKeeps, ItselfKeeps DEF AllFit, Keeps
  <2>4. peers \in [Peer -> BlePeer]
    BY <2>3 DEF Keeps, Follows
  <2>. HIDE DEF peers
  <2>5. OneMapped(peers)
    BY <1>1, <2>3 DEF OneMapped, Keeps
  <2>6. /\ hung \in [Link -> LinkState]
        /\ \A k \in Link : /\ JobsHavePeers(hung[k])
                           /\ hung[k].up = link[k].up /\ hung[k].forgotten = link[k].forgotten
                           /\ link[k].hangup \/ (link[k].up /\ LetsGo(k, peers)) => hung[k].hangup
                           /\ hung[k].owner # NoPeer => peers[hung[k].owner].central
    BY <1>1, <2>4, HungGives
  <2>. HIDE DEF hung
  <2>7. \A k \in Link : cut(k) \in BOOLEAN /\ link'[k] = [hung[k] EXCEPT !.hangup = cut(k)]
    <3>1. \A k \in Link : hung[k].hangup \in BOOLEAN /\ link[k].up \in BOOLEAN
      BY <1>1, <2>6 DEF LinkState
    <3>. QED BY <1>4, <2>6, <3>1
  <2>. HIDE DEF cut
  <2>8. ASSUME NEW k \in Link
        PROVE  /\ link'[k] \in LinkState
               /\ link'[k].up = hung[k].up /\ link'[k].forgotten = hung[k].forgotten
               /\ link'[k].hangup = cut(k) /\ link'[k].owner = hung[k].owner
               /\ link'[k].fromCentral = hung[k].fromCentral
               /\ link'[k].fromPeripheral = hung[k].fromPeripheral
    <3>. DEFINE h == hung[k]
                c == cut(k)
                y == link'[k]
    <3>1. h \in LinkState /\ c \in BOOLEAN /\ y = [h EXCEPT !.hangup = c]
      BY <2>6, <2>7
    <3>. HIDE DEF h, c, y
    <3>2. /\ y \in LinkState /\ y.up = h.up /\ y.forgotten = h.forgotten /\ y.hangup = c
          /\ y.owner = h.owner /\ y.fromCentral = h.fromCentral /\ y.fromPeripheral = h.fromPeripheral
      BY <3>1, CutGives
    <3>. QED BY <3>2 DEF h, c, y
  <2>9. link' \in [Link -> LinkState]
    BY <1>4, <2>8
  <2>11. \A k \in Link : /\ JobsHavePeers(link'[k])
                         /\ link'[k].up = link[k].up /\ link'[k].forgotten = link[k].forgotten
                         /\ link[k].hangup => link'[k].hangup
                         /\ link'[k].up /\ LetsGo(k, peers) => link'[k].hangup
                         /\ link'[k].up /\ (k[1] = n \/ k[2] = n) => link'[k].hangup
                         /\ link'[k].owner # NoPeer => peers[link'[k].owner].central
    <3>1. \A k \in Link : JobsHavePeers(link'[k])
      BY <2>6, <2>8 DEF JobsHavePeers
    <3>2. ASSUME NEW k \in Link
          PROVE  /\ link'[k].up = link[k].up /\ link'[k].forgotten = link[k].forgotten
                 /\ link'[k].hangup = (hung[k].hangup \/ (link[k].up /\ n \in {k[1], k[2]}))
                 /\ link'[k].owner = hung[k].owner
      BY <2>6, <2>8 DEF cut
    <3>. QED BY <2>6, <3>1, <3>2
  <2>12. AllFit' /\ OwnerIsCentral'
    BY <1>4, <2>3, <2>11 DEF AllFit, OwnerIsCentral, Keeps, Follows
  <2>13. CentralsWant'
    BY <1>4, <2>3 DEF BTInv, CentralsWant, IsCentral, Keeps, Follows
  <2>14. OffIsHung'
    BY <2>1, <2>11, LinkFacts DEF BTInv, OffIsHung
  <2>15. ASSUME NEW k \in Link, InUse(k)' PROVE InUse(k) /\ k[1] # n /\ k[2] # n
    BY <2>11, <2>15 DEF InUse
  <2>16. \A p \in Peer : InUse(LinkOf(p))' => peers[p] = peer[p]
    <3>1. SUFFICES ASSUME NEW p \in Peer, InUse(LinkOf(p))' PROVE peers[p] = peer[p]
      OBVIOUS
    <3>2. LinkOf(p) \in Link /\ (p[1] = LinkOf(p)[1] \/ p[1] = LinkOf(p)[2])
      BY PeerFacts
    <3>3. link'[LinkOf(p)].up /\ ~link'[LinkOf(p)].hangup
      BY <3>1 DEF InUse, LinkOf, IsCentral
    <3>. QED BY <2>3, <2>11, <3>2, <3>3
  <2>17. ProbesInHand'
    <3>1. SUFFICES ASSUME NEW m \in Node PROVE ProbeInHand(m)'
      BY DEF ProbesInHand
    <3>2. ProbeInHand(m) /\ Probed(m)' = Probed(m) /\ probe' = probe
      BY <1>2 DEF BTInv, ProbesInHand, Probed
    <3>3. probe[m].step = "subscribe" => Probed(m) \in Link
      BY <3>2 DEF ProbeInHand
    <3>4. InUse(Probed(m))' => InUse(LinkOf(probe[m].peer))' \/ probe[m].step # "subscribe"
      BY <3>2 DEF ProbeInHand
    <3>5. InUse(Probed(m))' /\ probe[m].step = "subscribe" => InUse(Probed(m))
      BY <2>11, <3>2, <3>3 DEF InUse
    <3>. QED BY <1>4, <2>16, <3>2, <3>3, <3>4, <3>5 DEF ProbeInHand, LinkOf, IsCentral
  <2>18. LinkHasOwner'
    <3>1. SUFFICES ASSUME NEW k \in Link, InUse(k)'
                   PROVE \/ \E p \in Peer : LinkOf(p) = k /\ Holds(p)'
                         \/ probe'[k[1]].dev = k[2] /\ probe'[k[1]].own /\ probe'[k[1]].step # "close"
      BY LinkHasOwnerIsNext
    <3>2. \/ \E p \in Peer : LinkOf(p) = k /\ Holds(p)
          \/ probe[k[1]].dev = k[2] /\ probe[k[1]].own /\ probe[k[1]].step # "close"
      BY <2>15, <3>1, LinkHasOwnerIs DEF BTInv
    <3>. QED BY <1>2, <1>4, <2>16, <3>1, <3>2 DEF Holds
  <2>20. \A m \in Node : m # n => (Searching(m, peer) <=> Searching(m, peers))
    BY <2>3 DEF Searching
  <2>21. /\ rested \in [Node -> ScanState]
         /\ \A m \in Node : m # n => rested[m] = scan[m]
    BY <1>1, <2>20 DEF Rested, ScanState
  <2>. HIDE DEF rested
  <2>22. /\ scan' \in [Node -> ScanState]
         /\ \A m \in Node : m # n => scan'[m] = scan[m]
         /\ scan'[n] # "on"
    BY <1>4, <2>21 DEF ScanState
  <2>23. ScanHasSearcher'
    <3>1. ASSUME NEW m \in Node, scan'[m] = "on" PROVE Searching(m, peers)
      BY <3>1, <1>1, <2>20, <2>22 DEF ScanHasSearcher
    <3>2. ASSUME NEW m \in Node, NEW q \in Peer, q[1] = m, peers[q].mapped, peers[q].state = "keyed",
                 peers[q].wanted # {}
          PROVE  scan'[m] \in {"starting", "failing", "on", "restarting"}
      <4>1. m # n /\ peers[q] = peer[q]
        BY <3>2, <2>3
      <4>. QED BY <3>2, <4>1, <1>1, <2>22 DEF ScanHasSearcher
    <3>. QED BY <3>1, <3>2, <1>4 DEF ScanHasSearcher
  <2>24. TypeOK' /\ LinksTyped' /\ ProbesTyped'
    BY <1>1, <1>2, <1>4, <2>2, <2>4, <2>5, <2>9, <2>11, <2>22, TypePartsNext
    DEF LinksTyped, ProbesTyped, JobsHavePeers
  <2>. QED BY <2>2, <2>12, <2>13, <2>14, <2>17, <2>18, <2>23, <2>24 DEF BTInv
<1>. QED BY <1>3, <1>4 DEF Stop

\* A start that goes on makes one more bid.
BidToCome == \A n \in Node : opening[n] = "bus" => bid[n] < MaxBid[n]

\* Starting, with connect() and close() in between.
LEMMA SwitchSteps ==
  ASSUME BTInv, BidToCome, NEW n \in Node,
         Connect(n) \/ BusOpened(n) \/ Started(n) \/ StartFails(n)
  PROVE  BTInv'
<1>1. /\ PlainTyped /\ SwitchedOff
      /\ on \in [Node -> BOOLEAN] /\ closed \in [Node -> BOOLEAN]
      /\ opening \in [Node -> {"no", "bus", "service"}] /\ bid \in [Node -> Nat]
      /\ \A m \in Node : bid[m] <= MaxBid[m]
  BY InvTypes DEF BTInv, PlainTyped
<1>2. CASE Connect(n)
  <2>1. PlainTyped'
    BY <1>1, <1>2 DEF Connect, PlainTyped
  <2>2. SwitchedOff'
    BY <1>1, <1>2 DEF Connect, SwitchedOff
  <2>. QED BY <1>2, <2>1, <2>2, SwitchStays DEF Connect
<1>3. CASE BusOpened(n)
  <2>1. CASE closed[n]
    <3>1. PlainTyped' /\ SwitchedOff'
      BY <1>1, <1>3, <2>1 DEF BusOpened, PlainTyped, SwitchedOff
    <3>. QED BY <1>3, <3>1, SwitchStays DEF BusOpened
  <2>2. CASE ~closed[n]
    <3>1. opening' = [opening EXCEPT ![n] = "service"] /\ UNCHANGED <<on, closed>>
      BY <1>3, <2>2 DEF BusOpened
    <3>2. SwitchedOff'
      BY <1>1, <1>3, <3>1 DEF BusOpened, SwitchedOff
    <3>3. bid' \in [Node -> Nat] /\ \A m \in Node : bid'[m] <= MaxBid[m]
      <4>1. bid' = [bid EXCEPT ![n] = bid[n] + 1] /\ bid[n] < MaxBid[n] /\ MaxBid[n] \in Nat
        BY <1>1, <1>3, <2>2, BluetoothAssumptions DEF BusOpened, BidToCome, BluetoothAssumptions
      <4>. QED BY <1>1, <4>1
    <3>4. opening' \in [Node -> {"no", "bus", "service"}]
      BY <1>1, <3>1
    <3>5. PlainTyped'
      BY <1>1, <1>3, <3>3, <3>4 DEF BusOpened, PlainTyped
    <3>. QED BY <1>3, <3>2, <3>5, SwitchStays DEF BusOpened
  <2>. QED BY <2>1, <2>2
<1>4. CASE Started(n)
  <2>1. PlainTyped'
    BY <1>1, <1>4 DEF Started, PlainTyped
  <2>2. SwitchedOff' /\ \A m \in Node : on[m] => on'[m]
    BY <1>1, <1>4 DEF Started, SwitchedOff
  <2>. QED BY <1>4, <2>1, <2>2, SwitchStays DEF Started
<1>5. CASE StartFails(n)
  <2>1. PlainTyped' /\ SwitchedOff'
    BY <1>1, <1>5 DEF StartFails, PlainTyped, SwitchedOff
  <2>. QED BY <1>5, <2>1, SwitchStays DEF StartFails
<1>. QED BY <1>2, <1>3, <1>4, <1>5

\* A new bid, and a signal that the proxy loses.
LEMMA RotateStep ==
  ASSUME BTInv, NEW n \in Node, Rotate(n) \/ LoseSignal(n)
  PROVE  BTInv'
<1>1. /\ PlainTyped /\ wire \in [Node -> Seq(Frame)] /\ bid \in [Node -> Nat]
      /\ \A m \in Node : bid[m] <= MaxBid[m] /\ MaxBid[m] \in Nat
  BY InvTypes, BluetoothAssumptions DEF BTInv, PlainTyped, BluetoothAssumptions
<1>2. CASE Rotate(n)
  <2>1. bid' \in [Node -> Nat] /\ \A m \in Node : bid'[m] <= MaxBid[m]
    BY <1>1, <1>2 DEF Rotate
  <2>2. PlainTyped'
    BY <1>1, <1>2, <2>1, TroubleTyped DEF Rotate, PlainTyped
  <2>. QED BY <1>2, <2>2, NothingMoves DEF Rotate
<1>3. CASE LoseSignal(n)
  <2>1. wire' \in [Node -> Seq(Frame)]
    BY <1>1, <1>3, TailTyped DEF LoseSignal
  <2>2. PlainTyped'
    BY <1>1, <1>3, <2>1, TroubleTyped DEF LoseSignal, PlainTyped
  <2>. QED BY <1>3, <2>2, NothingMoves DEF LoseSignal
<1>. QED BY <1>2, <1>3

----
\* The invariant, and what follows.

\* Nobody has begun anything.
LEMMA BTInit == Init => BTInv
<1>1. SUFFICES ASSUME Init PROVE BTInv
  OBVIOUS
<1>2. PlainTyped
  BY <1>1, BluetoothAssumptions DEF Init, PlainTyped, BluetoothAssumptions
<1>3. /\ \A p \in Peer : peer[p] = Unused
      /\ \A l \in Link : link[l] = Down
      /\ peer \in [Peer -> BlePeer] /\ link \in [Link -> LinkState]
  BY <1>1, UnusedFit, DownTyped DEF Init
<1>4. /\ Unused.state = "unused" /\ ~Unused.mapped /\ Unused.wanted = {}
      /\ ~Down.up /\ Down.owner = NoPeer
  BY DEF Unused, Down
<1>5. TypeOK
  <2>1. scan \in [Node -> ScanState] /\ OneMapped(peer)
    BY <1>1, <1>3, <1>4 DEF Init, ScanState, OneMapped
  <2>. QED BY <1>2, <1>3, <2>1, TypeParts
<1>6. LinksTyped /\ ProbesTyped
  BY <1>1, <1>3, DownTyped, NoProbeTyped DEF Init, LinksTyped, ProbesTyped
<1>7. AllFit /\ CentralsWant /\ OwnerIsCentral /\ OffIsHung /\ LinkHasOwner
  BY <1>3, <1>4, UnusedFit DEF AllFit, CentralsWant, OwnerIsCentral, OffIsHung, LinkHasOwner
<1>8. SwitchedOff /\ ScanHasSearcher
  BY <1>1, <1>3, <1>4 DEF Init, SwitchedOff, ScanHasSearcher
<1>9. ProbesInHand
  BY <1>1 DEF Init, ProbesInHand, ProbeInHand, NoProbe
<1>. QED BY <1>5, <1>6, <1>7, <1>8, <1>9 DEF BTInv

\* A start that goes on has a bid left for it.
LEMMA BidToComeStep == BTInv /\ BidToCome /\ [Next]_vars => BidToCome'
<1>1. SUFFICES ASSUME BTInv, BidToCome, [Next]_vars PROVE BidToCome'
  OBVIOUS
<1>2. /\ on \in [Node -> BOOLEAN] /\ closed \in [Node -> BOOLEAN] /\ SwitchedOff
      /\ opening \in [Node -> {"no", "bus", "service"}] /\ bid \in [Node -> Nat]
  BY <1>1, InvTypes DEF BTInv, PlainTyped
<1>3. CASE UNCHANGED <<opening, bid>>
  BY <1>1, <1>3 DEF BidToCome
<1>4. ASSUME NEW n \in Node, Connect(n) PROVE BidToCome'
  BY <1>1, <1>2, <1>4 DEF Connect, BidToCome
<1>5. ASSUME NEW n \in Node, BusOpened(n) PROVE BidToCome'
  BY <1>1, <1>2, <1>5 DEF BusOpened, BidToCome
<1>6. ASSUME NEW n \in Node, Started(n) \/ StartFails(n) PROVE BidToCome'
  BY <1>1, <1>2, <1>6 DEF Started, StartFails, BidToCome
<1>7. ASSUME NEW n \in Node, Rotate(n) PROVE BidToCome'
  BY SMTT(30), <1>1, <1>2, <1>7 DEF Rotate, BidToCome, SwitchedOff
<1>8. ASSUME NEW n \in Node,
             \/ Proceeds(n) \/ ScanFails(n) \/ ProbeFails(n) \/ Stop(n) \/ LoseSignal(n)
             \/ \E t \in Node \ {n} : Upgrade(n, t)
      PROVE  UNCHANGED <<opening, bid>>
  BY <1>8 DEF Proceeds, Receive, ScanStarts, ScanStopped, Connected, HelloRead, Subscribed,
     ProbeClosed,
              ScanFails, ProbeFails, Stop, LoseSignal, Upgrade
<1>9. ASSUME NEW p \in Peer,
             PeerProceeds(p) \/ TrySend(p) \/ Timeout(p) \/ RestOver(p) \/ ClosePeer(p)
      PROVE  UNCHANGED <<opening, bid>>
  BY <1>9 DEF PeerProceeds, OfferReady, AnswerReady, Write, SharedClosed, Derived, TrySend,
     Timeout,
              RestOver, ClosePeer
<1>10. ASSUME NEW l \in Link, LinkProceeds(l) \/ SeenExpires(l) \/ OutOfReach(l)
       PROVE  UNCHANGED <<opening, bid>>
  BY <1>10 DEF LinkProceeds, Found, HungUp, RetryHello, FromCentral, Identified,
     RecordFromCentral,
               FromPeripheral, RecordFromPeripheral, SeenExpires, OutOfReach
<1>. QED BY <1>1, <1>3, <1>4, <1>5, <1>6, <1>7, <1>8, <1>9, <1>10 DEF Next, vars

\* Every step keeps the invariant.
LEMMA BTStep == BTInv /\ BidToCome /\ [Next]_vars => BTInv'
<1>1. SUFFICES ASSUME BTInv, BidToCome, [Next]_vars PROVE BTInv'
  OBVIOUS
<1>2. CASE UNCHANGED vars
  <2>1. UNCHANGED <<on, opening, closed, bid, wire, peer, scan, probe, seen, link, troubles>>
    BY <1>2 DEF vars
  <2>2. PlainTyped'
    BY <1>1, <2>1, PlainStays
  <2>. QED BY <1>1, <2>1, <2>2, NothingMoves
<1>3. ASSUME NEW n \in Node, Proceeds(n) PROVE BTInv'
  BY <1>1, <1>3, ReceiveStep, ScanStartsStep, ScanStoppedStep, ConnectedStep, HelloReadStep,
     SubscribedStep, ProbeClosedStep DEF Proceeds
<1>4. ASSUME NEW n \in Node,
             \/ ScanFails(n) \/ ProbeFails(n) \/ Stop(n) \/ Connect(n) \/ BusOpened(n)
             \/ Started(n) \/ StartFails(n) \/ Rotate(n) \/ LoseSignal(n)
      PROVE  BTInv'
  BY <1>1, <1>4, ScanFailsStep, ProbeFailsStep, StopStep, SwitchSteps, RotateStep
<1>5. ASSUME NEW n \in Node, NEW t \in Node \ {n}, Upgrade(n, t) PROVE BTInv'
  BY <1>1, <1>5, UpgradeStep
<1>6. ASSUME NEW p \in Peer, PeerProceeds(p) PROVE BTInv'
  <2>1. CASE \E h \in peer[p].deriving : Derived(p, h)
    BY <1>1, <2>1, DerivedStep
  <2>. QED BY <1>1, <1>6, <2>1, OfferReadyStep, AnswerReadyStep, WriteStep, SharedClosedStep
       DEF PeerProceeds
<1>7. ASSUME NEW p \in Peer, TrySend(p) \/ Timeout(p) \/ RestOver(p) \/ ClosePeer(p) PROVE BTInv'
  BY <1>1, <1>7, TrySendStep, TimeoutStep, RestOverStep, ClosePeerStep
<1>8. ASSUME NEW l \in Link, LinkProceeds(l) PROVE BTInv'
  <2>1. CASE HungUp(l)
    BY <1>1, <2>1, GoneStep DEF HungUp
  <2>. QED BY <1>1, <1>8, <2>1, FoundStep, RetryHelloStep, FromCentralStep, IdentifiedStep,
         RecordFromCentralStep, FromPeripheralStep, RecordFromPeripheralStep DEF LinkProceeds
<1>9. ASSUME NEW l \in Link, SeenExpires(l) PROVE BTInv'
  BY <1>1, <1>9, SeenExpiresStep
<1>10. ASSUME NEW l \in Link, OutOfReach(l) PROVE BTInv'
  BY <1>1, <1>10, GoneStep DEF OutOfReach
<1>. QED BY <1>1, <1>2, <1>3, <1>4, <1>5, <1>6, <1>7, <1>8, <1>9, <1>10 DEF Next

\* The invariant holds always: what a peer, a link, a search and a probe hold fits
\* what the others hold, between any two callbacks of ble/manager.js.
THEOREM BTInvHolds == Spec => []BTInv
<1>1. Init => BidToCome
  BY DEF Init, BidToCome
<1>. QED BY <1>1, BTInit, BTStep, BidToComeStep, PTL DEF Spec

\* What TypeOK names keeps its type (links and probes do too: LinksTyped,
\* ProbesTyped), and of a device's peers for another one, one at most is in the
\* map of its manager (_newPeer drops the one before).
THEOREM BluetoothTypeCorrect == Spec => []TypeOK
<1>1. BTInv => TypeOK
  BY DEF BTInv
<1>. QED BY <1>1, BTInvHolds, PTL

\* Whatever signals cross, whatever is dropped while WebCrypto works, a
\* negotiation that waits has the timer that ends it.
THEOREM NobodyWaitsForEverHolds == Spec => []NobodyWaitsForEver
<1>1. BTInv => NobodyWaitsForEver
  BY DEF BTInv, AllFit, Fit, NobodyWaitsForEver
<1>. QED BY <1>1, BTInvHolds, PTL

\* What a negotiation or a channel, failed, closed or dropped, had is given
\* back: timer, central, link; the search goes on only if somebody looks for
\* somebody, and whoever does and is in the map has it; no link that is up is kept for nobody; and a client that was
\* closed is off the air, however its start and its close were mixed.
THEOREM NothingKeptForNobodyHolds == Spec => []NothingKeptForNobody
<1>1. BTInv => Released
  <2>1. SUFFICES ASSUME BTInv PROVE Released
    OBVIOUS
  <2>2. ASSUME NEW p \in Peer, peer[p].state \in {"unused", "failed", "closed"}
        PROVE  /\ ~peer[p].timer /\ ~peer[p].central /\ peer[p].link \notin {"own", "shared"}
               /\ \A l \in Link : link[l].owner # p
    BY <2>1, <2>2, PeerFacts DEF BTInv, AllFit, Fit, OwnerIsCentral
  <2>3. \A n \in Node : closed[n] => ~on[n]
    BY <2>1 DEF BTInv, SwitchedOff
  <2>. QED BY <2>2, <2>3 DEF Released
<1>2. BTInv => NothingKeptForNobody
  BY <1>1 DEF BTInv, NothingKeptForNobody
<1>. QED BY <1>2, BTInvHolds, PTL

----
\* Records on a queue.

\* A record of q for p.
IsFor(rec, q, p) == rec.by = q /\ rec.to = p

\* None of the queue is.
NoneFrom(Q, q, p) == \A i \in 1 .. Len(Q) : ~IsFor(Q[i], q, p)

\* Those of q for p are in the order they were sealed in ...
Rising(Q, q, p) ==
  \A i, j \in 1 .. Len(Q) : i < j /\ IsFor(Q[i], q, p) /\ IsFor(Q[j], q, p) => Q[i].ctr < Q[j].ctr

\* One of q for p has counter c.
Has(Q, q, p, c) == \E k \in 1 .. Len(Q) : IsFor(Q[k], q, p) /\ Q[k].ctr = c

\* ... with every counter from b to the last of them, and to `top` if q still
\* seals for p.
RunFrom(Q, q, p, b, top, going) ==
  /\ b \in Nat /\ b <= top
  /\ \A i \in 1 .. Len(Q) : IsFor(Q[i], q, p) =>
       /\ b <= Q[i].ctr /\ Q[i].ctr < top
       /\ \A c \in b .. Q[i].ctr : Has(Q, q, p, c)
  /\ going => \A c \in b .. (top - 1) : Has(Q, q, p, c)

\* The entries of a queue whose first was taken.
LEMMA TailEntries ==
  ASSUME NEW Q \in Seq(AnyRecord), Q # <<>>
  PROVE  /\ Tail(Q) \in Seq(AnyRecord) /\ Len(Tail(Q)) = Len(Q) - 1 /\ Len(Q) \in Nat \ {0}
         /\ Head(Q) = Q[1] /\ Head(Q) \in AnyRecord
         /\ \A i \in 1 .. Len(Tail(Q)) : Tail(Q)[i] = Q[i + 1]
OBVIOUS

\* ... and of one that got another.
LEMMA AppendEntries ==
  ASSUME NEW Q \in Seq(AnyRecord), NEW rec \in AnyRecord
  PROVE  /\ Append(Q, rec) \in Seq(AnyRecord) /\ Len(Append(Q, rec)) = Len(Q) + 1 /\ Len(Q) \in Nat
         /\ \A i \in 1 .. Len(Q) : Append(Q, rec)[i] = Q[i]
         /\ Append(Q, rec)[Len(Q) + 1] = rec
OBVIOUS

\* Counters are numbers.
LEMMA Counters ==
  ASSUME NEW Q \in Seq(AnyRecord)
  PROVE  Len(Q) \in Nat /\ \A i \in 1 .. Len(Q) : Q[i] \in AnyRecord /\ Q[i].ctr \in Nat
<1>1. Len(Q) \in Nat /\ \A i \in 1 .. Len(Q) : Q[i] \in AnyRecord
  OBVIOUS
<1>. QED BY <1>1 DEF AnyRecord

\* Taking the first record keeps the others' order.
LEMMA RisingTail ==
  ASSUME NEW Q \in Seq(AnyRecord), Q # <<>>, NEW q, NEW p, Rising(Q, q, p)
  PROVE  /\ Rising(Tail(Q), q, p)
         /\ IsFor(Head(Q), q, p) =>
              \A i \in 1 .. Len(Tail(Q)) : IsFor(Tail(Q)[i], q, p) => Head(Q).ctr < Tail(Q)[i].ctr
<1>1. /\ Len(Tail(Q)) = Len(Q) - 1 /\ Len(Q) \in Nat \ {0} /\ Head(Q) = Q[1]
      /\ \A i \in 1 .. Len(Tail(Q)) : Tail(Q)[i] = Q[i + 1] /\ i + 1 \in 1 .. Len(Q) /\ 1 < i + 1
  BY TailEntries
<1>2. 1 \in 1 .. Len(Q)
  BY <1>1
<1>3. ASSUME NEW i \in 1 .. Len(Tail(Q)), NEW j \in 1 .. Len(Tail(Q)), i < j,
             IsFor(Tail(Q)[i], q, p), IsFor(Tail(Q)[j], q, p)
      PROVE  Tail(Q)[i].ctr < Tail(Q)[j].ctr
  <2>1. i + 1 < j + 1 /\ i + 1 \in 1 .. Len(Q) /\ j + 1 \in 1 .. Len(Q)
    BY <1>1, <1>3
  <2>2. Q[i + 1] = Tail(Q)[i] /\ Q[j + 1] = Tail(Q)[j]
    BY <1>1
  <2>. QED BY <1>3, <2>1, <2>2 DEF Rising
<1>4. ASSUME IsFor(Head(Q), q, p), NEW i \in 1 .. Len(Tail(Q)), IsFor(Tail(Q)[i], q, p)
      PROVE  Head(Q).ctr < Tail(Q)[i].ctr
  BY <1>1, <1>2, <1>4 DEF Rising
<1>. QED BY <1>3, <1>4 DEF Rising

\* Who is not the first is still there when the first was taken.
LEMMA HasTail ==
  ASSUME NEW Q \in Seq(AnyRecord), Q # <<>>, NEW q, NEW p, NEW c, Has(Q, q, p, c),
         ~(IsFor(Head(Q), q, p) /\ Head(Q).ctr = c)
  PROVE  Has(Tail(Q), q, p, c)
<1>1. /\ Len(Tail(Q)) = Len(Q) - 1 /\ Len(Q) \in Nat \ {0} /\ Head(Q) = Q[1]
      /\ \A i \in 1 .. Len(Tail(Q)) : Tail(Q)[i] = Q[i + 1]
  BY TailEntries
<1>2. PICK k \in 1 .. Len(Q) : IsFor(Q[k], q, p) /\ Q[k].ctr = c
  BY DEF Has
<1>3. k # 1
  BY <1>1, <1>2
<1>4. k - 1 \in 1 .. Len(Tail(Q)) /\ Tail(Q)[k - 1] = Q[k]
  BY <1>1, <1>3
<1>. QED BY <1>2, <1>4 DEF Has

\* The first record is the one the run starts with; without it, the run starts
\* with the next.
LEMMA RunTailMine ==
  ASSUME NEW Q \in Seq(AnyRecord), Q # <<>>, NEW q, NEW p, NEW b, NEW top \in Nat, NEW going \in BOOLEAN,
         Rising(Q, q, p), RunFrom(Q, q, p, b, top, going), IsFor(Head(Q), q, p)
  PROVE  Head(Q).ctr = b /\ RunFrom(Tail(Q), q, p, b + 1, top, going)
<1>1. /\ Tail(Q) \in Seq(AnyRecord) /\ Len(Tail(Q)) = Len(Q) - 1 /\ Len(Q) \in Nat \ {0} /\ Head(Q) = Q[1]
      /\ \A i \in 1 .. Len(Tail(Q)) : Tail(Q)[i] = Q[i + 1]
  BY TailEntries
<1>2. 1 \in 1 .. Len(Q) /\ b \in Nat /\ \A i \in 1 .. Len(Q) : Q[i].ctr \in Nat
  BY <1>1, Counters DEF RunFrom
<1>3. Q[1].ctr = b
  <2>1. b <= Q[1].ctr /\ b \in b .. Q[1].ctr
    BY <1>1, <1>2 DEF RunFrom
  <2>2. Has(Q, q, p, b)
    BY <1>1, <1>2, <2>1 DEF RunFrom
  <2>3. PICK k \in 1 .. Len(Q) : IsFor(Q[k], q, p) /\ Q[k].ctr = b
    BY <2>2 DEF Has
  <2>4. k # 1 => Q[1].ctr < Q[k].ctr
    BY <1>1, <1>2, <2>3 DEF Rising
  <2>. QED BY <1>2, <2>1, <2>3, <2>4
<1>4. b + 1 \in Nat /\ b + 1 <= top
  BY <1>1, <1>2, <1>3 DEF RunFrom
<1>5. ASSUME NEW i \in 1 .. Len(Tail(Q)), IsFor(Tail(Q)[i], q, p)
      PROVE  /\ b + 1 <= Tail(Q)[i].ctr /\ Tail(Q)[i].ctr < top
             /\ \A c \in (b + 1) .. Tail(Q)[i].ctr : Has(Tail(Q), q, p, c)
  <2>1. i + 1 \in 1 .. Len(Q) /\ Q[i + 1] = Tail(Q)[i]
    BY <1>1
  <2>2. /\ Tail(Q)[i].ctr \in Nat /\ Tail(Q)[i].ctr < top
        /\ \A c \in b .. Tail(Q)[i].ctr : Has(Q, q, p, c)
    BY <1>2, <1>5, <2>1 DEF RunFrom
  <2>3. b < Tail(Q)[i].ctr
    BY <1>1, <1>3, <1>5, RisingTail
  <2>4. ASSUME NEW c \in (b + 1) .. Tail(Q)[i].ctr PROVE Has(Tail(Q), q, p, c)
    <3>1. c \in b .. Tail(Q)[i].ctr /\ c # b
      BY <1>2, <2>2
    <3>. QED BY <1>1, <1>3, <2>2, <3>1, HasTail
  <2>. QED BY <1>2, <2>2, <2>3, <2>4
<1>6. ASSUME going, NEW c \in (b + 1) .. (top - 1) PROVE Has(Tail(Q), q, p, c)
  <2>1. c \in b .. (top - 1) /\ c # b
    BY <1>2
  <2>2. Has(Q, q, p, c)
    BY <1>6, <2>1 DEF RunFrom
  <2>. QED BY <1>1, <1>3, <2>1, <2>2, HasTail
<1>. QED BY <1>1, <1>3, <1>4, <1>5, <1>6 DEF RunFrom

\* A record of others changes nothing in the run.
LEMMA RunTailOther ==
  ASSUME NEW Q \in Seq(AnyRecord), Q # <<>>, NEW q, NEW p, NEW b, NEW top \in Nat, NEW going \in BOOLEAN,
         RunFrom(Q, q, p, b, top, going), ~IsFor(Head(Q), q, p)
  PROVE  RunFrom(Tail(Q), q, p, b, top, going)
<1>1. /\ Len(Tail(Q)) = Len(Q) - 1 /\ Len(Q) \in Nat \ {0}
      /\ \A i \in 1 .. Len(Tail(Q)) : Tail(Q)[i] = Q[i + 1] /\ i + 1 \in 1 .. Len(Q)
  BY TailEntries
<1>2. ASSUME NEW i \in 1 .. Len(Tail(Q)), IsFor(Tail(Q)[i], q, p)
      PROVE  /\ b <= Tail(Q)[i].ctr /\ Tail(Q)[i].ctr < top
             /\ \A c \in b .. Tail(Q)[i].ctr : Has(Tail(Q), q, p, c)
  <2>1. i + 1 \in 1 .. Len(Q) /\ Q[i + 1] = Tail(Q)[i]
    BY <1>1
  <2>2. /\ b <= Tail(Q)[i].ctr /\ Tail(Q)[i].ctr < top
        /\ \A c \in b .. Tail(Q)[i].ctr : Has(Q, q, p, c)
    BY <1>2, <2>1 DEF RunFrom
  <2>. QED BY <2>2, HasTail
<1>3. ASSUME going, NEW c \in b .. (top - 1) PROVE Has(Tail(Q), q, p, c)
  <2>1. Has(Q, q, p, c)
    BY <1>3 DEF RunFrom
  <2>. QED BY <2>1, HasTail
<1>4. b \in Nat /\ b <= top
  BY DEF RunFrom
<1>. QED BY <1>2, <1>3, <1>4 DEF RunFrom

\* What a queue has it has with one more.
LEMMA HasAppend ==
  ASSUME NEW Q \in Seq(AnyRecord), NEW rec \in AnyRecord, NEW q, NEW p, NEW c
  PROVE  /\ Has(Q, q, p, c) => Has(Append(Q, rec), q, p, c)
         /\ IsFor(rec, q, p) /\ rec.ctr = c => Has(Append(Q, rec), q, p, c)
<1>1. /\ Len(Append(Q, rec)) = Len(Q) + 1 /\ Len(Q) \in Nat
      /\ \A i \in 1 .. Len(Q) : Append(Q, rec)[i] = Q[i] /\ i \in 1 .. Len(Append(Q, rec))
      /\ Append(Q, rec)[Len(Q) + 1] = rec /\ Len(Q) + 1 \in 1 .. Len(Append(Q, rec))
  BY AppendEntries
<1>. QED BY <1>1 DEF Has

\* The next record of q for p: the run goes on.
LEMMA RunAppendMine ==
  ASSUME NEW Q \in Seq(AnyRecord), NEW rec \in AnyRecord, NEW q, NEW p, NEW b, NEW top \in Nat,
         Rising(Q, q, p), RunFrom(Q, q, p, b, top, TRUE), IsFor(rec, q, p), rec.ctr = top
  PROVE  Rising(Append(Q, rec), q, p) /\ RunFrom(Append(Q, rec), q, p, b, top + 1, TRUE)
<1>. DEFINE A == Append(Q, rec)
<1>1. /\ Len(A) = Len(Q) + 1 /\ Len(Q) \in Nat
      /\ \A i \in 1 .. Len(Q) : A[i] = Q[i]
      /\ A[Len(Q) + 1] = rec
  BY AppendEntries
<1>2. /\ b \in Nat /\ b <= top /\ \A i \in 1 .. Len(Q) : Q[i].ctr \in Nat
      /\ \A i \in 1 .. Len(Q) : IsFor(Q[i], q, p) => b <= Q[i].ctr /\ Q[i].ctr < top
  BY Counters DEF RunFrom
<1>3. \A c \in b .. top : Has(A, q, p, c)
  <2>1. ASSUME NEW c \in b .. top PROVE Has(A, q, p, c)
    <3>1. c = top \/ c \in b .. (top - 1)
      BY <1>2
    <3>2. c \in b .. (top - 1) => Has(Q, q, p, c)
      BY DEF RunFrom
    <3>. QED BY <3>1, <3>2, HasAppend
  <2>. QED BY <2>1
<1>4. \A i \in 1 .. Len(A) : i \in 1 .. Len(Q) \/ i = Len(Q) + 1
  BY <1>1
<1>. HIDE DEF A
<1>5. ASSUME NEW i \in 1 .. Len(A), IsFor(A[i], q, p)
      PROVE  b <= A[i].ctr /\ A[i].ctr < top + 1 /\ \A c \in b .. A[i].ctr : Has(A, q, p, c)
  <2>1. b <= A[i].ctr /\ A[i].ctr <= top /\ A[i].ctr \in Nat
    BY <1>1, <1>2, <1>4, <1>5
  <2>2. \A c \in b .. A[i].ctr : c \in b .. top
    BY <1>2, <2>1
  <2>. QED BY <1>3, <2>1, <2>2
<1>6. Rising(A, q, p)
  <2>1. ASSUME NEW i \in 1 .. Len(A), NEW j \in 1 .. Len(A), i < j, IsFor(A[i], q, p), IsFor(A[j], q, p)
        PROVE  A[i].ctr < A[j].ctr
    <3>1. i \in 1 .. Len(Q)
      BY <1>1, <2>1
    <3>2. A[i] = Q[i] /\ Q[i].ctr < top
      BY <1>1, <1>2, <2>1, <3>1
    <3>3. CASE j \in 1 .. Len(Q)
      BY <1>1, <2>1, <3>1, <3>3 DEF Rising
    <3>4. CASE j = Len(Q) + 1
      BY <1>1, <3>2, <3>4
    <3>. QED BY <1>4, <3>3, <3>4
  <2>. QED BY <2>1 DEF Rising
<1>7. (top + 1) - 1 = top /\ b <= top + 1
  BY <1>2
<1>8. RunFrom(A, q, p, b, top + 1, TRUE)
  BY <1>2, <1>3, <1>5, <1>7 DEF RunFrom
<1>. QED BY <1>6, <1>8 DEF A

\* A record of others at the end changes nothing.
LEMMA RunAppendOther ==
  ASSUME NEW Q \in Seq(AnyRecord), NEW rec \in AnyRecord, NEW q, NEW p, NEW b, NEW top \in Nat,
         NEW going \in BOOLEAN, ~IsFor(rec, q, p)
  PROVE  /\ Rising(Q, q, p) => Rising(Append(Q, rec), q, p)
         /\ RunFrom(Q, q, p, b, top, going) => RunFrom(Append(Q, rec), q, p, b, top, going)
<1>. DEFINE A == Append(Q, rec)
<1>1. /\ Len(A) = Len(Q) + 1 /\ Len(Q) \in Nat
      /\ \A i \in 1 .. Len(Q) : A[i] = Q[i]
      /\ A[Len(Q) + 1] = rec
  BY AppendEntries
<1>2. \A i \in 1 .. Len(A) : IsFor(A[i], q, p) => i \in 1 .. Len(Q) /\ A[i] = Q[i]
  BY <1>1
<1>3. \A c : Has(Q, q, p, c) => Has(A, q, p, c)
  BY HasAppend
<1>. HIDE DEF A
<1>4. Rising(Q, q, p) => Rising(A, q, p)
  BY <1>2 DEF Rising
<1>5. ASSUME RunFrom(Q, q, p, b, top, going) PROVE RunFrom(A, q, p, b, top, going)
  <2>1. b \in Nat /\ b <= top
    BY <1>5 DEF RunFrom
  <2>2. ASSUME NEW i \in 1 .. Len(A), IsFor(A[i], q, p)
        PROVE  b <= A[i].ctr /\ A[i].ctr < top /\ \A c \in b .. A[i].ctr : Has(A, q, p, c)
    BY <1>2, <1>3, <1>5, <2>2 DEF RunFrom
  <2>3. going => \A c \in b .. (top - 1) : Has(A, q, p, c)
    BY <1>3, <1>5 DEF RunFrom
  <2>. QED BY <2>1, <2>2, <2>3 DEF RunFrom
<1>. QED BY <1>4, <1>5 DEF A

\* With nothing of q for p on the queue, the run is to begin with what q seals next.
LEMMA RunOfNone ==
  ASSUME NEW Q, NEW q, NEW p, NEW top \in Nat, NEW going, NoneFrom(Q, q, p)
  PROVE  Rising(Q, q, p) /\ RunFrom(Q, q, p, top, top, going)
<1>1. \A c \in top .. (top - 1) : FALSE
  OBVIOUS
<1>. QED BY <1>1 DEF NoneFrom, Rising, RunFrom

\* A run is one for less.
LEMMA RunWeaker ==
  ASSUME NEW Q \in Seq(AnyRecord), NEW q, NEW p, NEW b, NEW top \in Nat, NEW later \in Nat, top <= later, NEW going,
         RunFrom(Q, q, p, b, top, going)
  PROVE  RunFrom(Q, q, p, b, later, FALSE)
<1>1. b \in Nat /\ b <= later
  BY DEF RunFrom
<1>2. \A i \in 1 .. Len(Q) : Q[i].ctr \in Nat
  BY Counters
<1>3. \A i \in 1 .. Len(Q) : IsFor(Q[i], q, p) =>
        b <= Q[i].ctr /\ Q[i].ctr < top /\ \A c \in b .. Q[i].ctr : Has(Q, q, p, c)
  BY DEF RunFrom
<1>. HIDE DEF Has
<1>4. \A i \in 1 .. Len(Q) : IsFor(Q[i], q, p) => Q[i].ctr < later
  BY <1>2, <1>3
<1>. QED BY <1>1, <1>3, <1>4 DEF RunFrom

----
\* What holds between the peers P, the links K and the wires W.

\* Peers, links and wires have their types, and a job of a link has its peer.
ChannelTyped(P, K, W) ==
  /\ P \in [Peer -> BlePeer] /\ K \in [Link -> LinkState] /\ W \in [Node -> Seq(Frame)]
  /\ \A l \in Link : JobsHavePeers(K[l])

\* Each is of a device for the device of the other.
Pairs(x, y) == x[1] = y[2] /\ x[2] = y[1]

\* This half is what the peer r has sent, and all it will send.
Tied(r, h) == r.making = "no" /\ r.myBid = h.bid

\* A record is being opened that this peer's key may open, if the peer is over
\* or not.
OpensFor(job, r, p) ==
  job.how # "none" /\ job.peer = p /\ job.rec.to = p /\ job.rec.by = r.half.by

\* The peer is not over, or a record is being opened that its key opens.
Live(P, K, p) ==
  \/ ~Idle(P[p])
  \/ OpensFor(K[LinkOf(p)].fromCentral, P[p], p)
  \/ OpensFor(K[LinkOf(p)].fromPeripheral, P[p], p)

\* A signal on a wire is for its device, and is all that its peer will send.
SignalsTied(P, W) ==
  \A n \in Node : \A i \in 1 .. Len(W[n]) :
    W[n][i].half.by[2] = n /\ Tied(P[W[n][i].half.by], W[n][i].half)

\* So is the half that a key is being made from, which is of a peer for this one.
HalvesTied(P) ==
  \A p \in Peer : \A h \in P[p].deriving : Pairs(h.by, p) /\ Tied(P[h.by], h)

\* And so is the half of a key, while the key is of use.
KeysTied(P, K) ==
  \A p \in Peer : P[p].half # NoHalf =>
    /\ Pairs(P[p].half.by, p)
    /\ Live(P, K, p) => Tied(P[P[p].half.by], P[p].half)

\* A peer whose signal is not yet sent, or not yet answered, has no key; without
\* one it has neither link nor central and wants nobody; and with one it gets
\* another only if it is `rekeyed`.
Early(r) ==
  /\ r.making # "no" \/ r.state \in {"unused", "new", "offered"} => r.half = NoHalf
  /\ r.half = NoHalf => r.state # "open" /\ r.wanted = {} /\ r.link = "none" /\ ~r.central
  /\ r.half # NoHalf /\ r.deriving # {} => r.rekeyed
  /\ \A h, k \in r.deriving : h = k \/ r.rekeyed
  /\ r.half \notin r.deriving
  /\ ~r.rekeyed => r.wanted \subseteq {r.half.bid}

\* Every peer is so.
AllEarly(P) == \A p \in Peer : Early(P[p])

\* The peer r has sealed for p, or may have.
Wrote(r, p) ==
  /\ r.half # NoHalf
  /\ r.half.by = p \/ r.rekeyed
  /\ \A h \in r.deriving : h.by # p

\* A record is of a peer for one that made its key for it, with its tag.
RecordOK(P, l, rec) ==
  /\ rec.by \in Peer /\ rec.to \in Peer /\ Pairs(rec.by, rec.to) /\ LinkOf(rec.to) = l
  /\ Wrote(P[rec.by], rec.to)
  /\ IsCentral(rec.to) => rec.tag = P[rec.to].myBid /\ P[rec.to].making = "no"

\* The records of a link that go to its central ...
CentralRecords(k) ==
  {k.toCentral[i] : i \in 1 .. Len(k.toCentral)}
    \cup (IF k.fromPeripheral.how = "none" THEN {} ELSE {k.fromPeripheral.rec})

\* ... and those that go to its peripheral, the hello that is kept with them.
PeripheralRecords(k) ==
  {k.toPeripheral[i] : i \in 1 .. Len(k.toPeripheral)}
    \cup (IF k.hello = NoRecord THEN {} ELSE {k.hello})
    \cup (IF k.fromCentral.how = "none" THEN {} ELSE {k.fromCentral.rec})

\* The records of a link are for the peers at its ends.
LinkRecordsOK(P, l, k) ==
  /\ \A rec \in CentralRecords(k) : RecordOK(P, l, rec) /\ IsCentral(rec.to)
  /\ \A rec \in PeripheralRecords(k) : RecordOK(P, l, rec) /\ ~IsCentral(rec.to)

\* Those of every link are.
RecordsOK(P, K) == \A l \in Link : LinkRecordsOK(P, l, K[l])

\* Who gets a central's records is known, or a hello is looked into, not both.
LinkFit(l, k) ==
  /\ k.fromCentral.how = "identify" => k.owner = NoPeer /\ (k.fromCentral.gone => k.hello = NoRecord)
  /\ k.fromCentral.how = "record" =>
       k.owner \in {k.fromCentral.peer, NoPeer} /\ LinkOf(k.fromCentral.peer) = l
  /\ k.fromCentral.how # "none" => ~IsCentral(k.fromCentral.peer)
  /\ k.fromPeripheral.how # "identify"
  /\ k.fromPeripheral.how # "none" =>
       LinkOf(k.fromPeripheral.peer) = l /\ IsCentral(k.fromPeripheral.peer)
  /\ k.owner # NoPeer => k.hello = NoRecord /\ LinkOf(k.owner) = l /\ ~IsCentral(k.owner)
  /\ k.retry => k.hello # NoRecord
  /\ k.handler # NoPeer => LinkOf(k.handler) = l /\ IsCentral(k.handler)

\* Every link fits.
AllLinksFit(K) == \A l \in Link : LinkFit(l, K[l])

\* A central that has not found its device gets no notifications; a channel of a
\* peripheral has its central.
Attached(P, K) ==
  \A p \in Peer :
    /\ (P[p].wanted # {} /\ ~P[p].rekeyed) \/ P[p].half = NoHalf =>
         K[LinkOf(p)].handler # p /\ K[LinkOf(p)].fromPeripheral.peer # p
    /\ ~IsCentral(p) /\ P[p].state = "open" => P[p].central

\* The records on their way to p.
QueueTo(k, p) == IF IsCentral(p) THEN k.toCentral ELSE k.toPeripheral

\* The records of q for p on their way begin with counter b.
Run(P, K, q, p, b) ==
  RunFrom(QueueTo(K[LinkOf(p)], p), q, p, b, P[q].sendCtr, P[q].half.by = p)

\* From any peer to any other, the records on their way are a run.
AllRun(P, K) ==
  \A q, p \in Peer : Pairs(q, p) =>
    Rising(QueueTo(K[LinkOf(p)], p), q, p) /\ \E b \in 0 .. P[q].sendCtr : Run(P, K, q, p, b)

\* The central r writes no more for p.
Silent(r, p) == r.half.by # p \/ (r.state # "keyed" /\ r.link \notin {"own", "shared"})

\* ... or has a link, and is to be told when that is gone.
Speaks(P, rec) == Silent(P[rec.by], rec.to) \/ P[rec.by].link # "none"

\* The central q writes no more for p, and nothing it wrote is on its way.
Nothing(P, K, q, p) == Silent(P[q], p) /\ NoneFrom(K[LinkOf(p)].toPeripheral, q, p)

\* It is being found out whose hello this is, and the link is still up.
Identifies(job) == job.how = "identify" /\ ~job.gone

\* Whose record is not opened yet is silent, or has a link; and whose link was lost
\* while its hello was looked into is silent for good.
LinkSpeaks(P, K, l) ==
  /\ \A i \in 1 .. Len(K[l].toPeripheral) : Speaks(P, K[l].toPeripheral[i])
  /\ K[l].hello # NoRecord => Speaks(P, K[l].hello)
  /\ Identifies(K[l].fromCentral) => Speaks(P, K[l].fromCentral.rec)
  /\ K[l].fromCentral.how = "identify" /\ K[l].fromCentral.gone =>
       Nothing(P, K, K[l].fromCentral.rec.by, K[l].fromCentral.rec.to)

\* That goes for every link.
Speakers(P, K) == \A l \in Link : LinkSpeaks(P, K, l)

\* Behind a record that was taken from its queue comes the next one.
RunAfter(P, K, rec) == Run(P, K, rec.by, rec.to, rec.ctr + 1)

\* Behind the hello that is kept or looked into, and behind the record that is being
\* opened for whoever still gets the others, comes the next one.
LinkTaken(P, K, l) ==
  LET k == K[l] IN
  /\ Identifies(k.fromCentral) => RunAfter(P, K, k.fromCentral.rec)
  /\ k.hello # NoRecord /\ k.fromCentral.how # "thrown"
     /\ ~(Identifies(k.fromCentral) /\ IsFor(k.fromCentral.rec, k.hello.by, k.hello.to))
       => RunAfter(P, K, k.hello)
  /\ k.fromCentral.how = "record" /\ k.owner = k.fromCentral.peer => RunAfter(P, K, k.fromCentral.rec)
  /\ k.fromPeripheral.how = "record" /\ k.handler = k.fromPeripheral.peer /\ ~P[k.handler].rekeyed
       => RunAfter(P, K, k.fromPeripheral.rec)

\* That goes for every link.
Taken(P, K) == \A l \in Link : LinkTaken(P, K, l)

\* What is being done with a record for p; whether p gets the records of its link;
\* and whether the record is one of q for p.
JobAt(k, p) == IF IsCentral(p) THEN k.fromPeripheral ELSE k.fromCentral
Hearing(k, p) == IF IsCentral(p) THEN k.handler = p ELSE k.owner = p
Opening(job, q, p) == job.how = "record" /\ job.peer = p /\ IsFor(job.rec, q, p)

\* What is being opened, or comes next, has the counter that p is at; and if a
\* peripheral does not get its central's records, there are none any more.
Expects(P, K, p) ==
  LET q == P[p].half.by
      k == K[LinkOf(p)]
  IN /\ Wrote(P[q], p)
     /\ Hearing(k, p) /\ Opening(JobAt(k, p), q, p) => JobAt(k, p).rec.ctr = P[p].recvCtr
     /\ Hearing(k, p) /\ ~Opening(JobAt(k, p), q, p) => Run(P, K, q, p, P[p].recvCtr)
     /\ ~IsCentral(p) /\ k.owner # p =>
          ~(k.fromCentral.how = "record" /\ k.fromCentral.peer = p) /\ Nothing(P, K, q, p)

\* Every open peer expects what comes.
AllExpect(P, K) == \A p \in Peer : P[p].state = "open" /\ ~P[p].rekeyed => Expects(P, K, p)

\* The inductive invariant of the channels.
ChannelInv(P, K, W) ==
  /\ ChannelTyped(P, K, W)
  /\ SignalsTied(P, W) /\ HalvesTied(P) /\ KeysTied(P, K) /\ AllEarly(P)
  /\ RecordsOK(P, K) /\ AllLinksFit(K) /\ Attached(P, K)
  /\ AllRun(P, K) /\ Speakers(P, K) /\ Taken(P, K) /\ AllExpect(P, K)

\* The two ends of a pair.
LEMMA PairFacts ==
  ASSUME NEW x \in Peer, NEW y \in Peer, Pairs(x, y)
  PROVE  Pairs(y, x) /\ LinkOf(x) = LinkOf(y) /\ (IsCentral(x) <=> ~IsCentral(y)) /\ x # y
<1>1. x[1] \in Node /\ x[2] \in Node /\ x[1] # x[2] /\ y[1] = x[2] /\ y[2] = x[1]
  BY PeerFacts DEF Pairs
<1>2. Rank[x[1]] \in Nat /\ Rank[x[2]] \in Nat /\ Rank[x[1]] # Rank[x[2]]
  BY <1>1, BluetoothAssumptions DEF BluetoothAssumptions
<1>. QED BY <1>1, <1>2 DEF Pairs, LinkOf, IsCentral

\* A key is of a peer.
LEMMA KeyOfPeer ==
  ASSUME NEW r \in BlePeer
  PROVE  /\ r.half # NoHalf => r.half \in Half /\ r.half.by \in Peer
         /\ r.half = NoHalf => r.half.by = NoPeer
         /\ r.half.by \in Peer => r.half # NoHalf
         /\ \A h \in r.deriving : h \in Half /\ h.by \in Peer
         /\ r.sendCtr \in Nat /\ r.recvCtr \in Nat
<1>1. r.half \in Half \cup {NoHalf} /\ r.deriving \in SUBSET Half /\ r.sendCtr \in Nat /\ r.recvCtr \in Nat
  BY DEF BlePeer
<1>2. NoHalf.by = NoPeer /\ NoPeer \notin Peer
  BY PeerFacts DEF NoHalf
<1>. QED BY <1>1, <1>2 DEF Half

----
\* Peers that only fall silent.

\* Nothing of a key changes, no state but to an end; links, wishes and centrals
\* are only given up.
Quieter(s, r) ==
  /\ s.making = r.making /\ s.deriving = r.deriving /\ s.half = r.half /\ s.myBid = r.myBid
  /\ s.rekeyed = r.rekeyed /\ s.sendCtr = r.sendCtr
  /\ s.wanted \subseteq r.wanted /\ (s.mapped => r.mapped) /\ (s.timer => r.timer)
  /\ s.state = r.state \/ s.state \in {"failed", "closed"}
  /\ s.state = "open" => s.recvCtr = r.recvCtr
  /\ \/ s.link = r.link
     \/ r.link # "none" /\ s.link \in {"ownClosing", "sharedClosing"}
     \/ s.link = "none" /\ s.state \in {"failed", "closed"}
  /\ s.central = r.central \/ (~s.central /\ s.state \in {"failed", "closed"})

\* Records are as they were; a peer that gets none any more has no central.
QuietLink(k2, k, P2) ==
  /\ k2.toCentral = k.toCentral /\ k2.toPeripheral = k.toPeripheral
  /\ k2.fromCentral = k.fromCentral /\ k2.fromPeripheral = k.fromPeripheral /\ k2.hello = k.hello
  /\ k2.retry => k.retry \/ k.hello # NoRecord
  /\ k2.owner = k.owner \/ (k2.owner = NoPeer /\ ~P2[k.owner].central)
  /\ k2.handler \in {k.handler, NoPeer}

\* What is idle stays idle, and what is silent stays silent.
LEMMA QuieterKeeps ==
  ASSUME NEW r \in BlePeer, NEW s \in BlePeer, Quieter(s, r)
  PROVE  /\ Idle(r) => Idle(s)
         /\ Early(r) => Early(s)
         /\ \A h : Tied(r, h) => Tied(s, h)
         /\ \A p : Wrote(r, p) => Wrote(s, p)
         /\ \A p : Silent(r, p) => Silent(s, p)
         /\ \A job, p : OpensFor(job, s, p) => OpensFor(job, r, p)
<1>1. Idle(r) => Idle(s)
  BY DEF Quieter, Idle
<1>2. Early(r) => Early(s)
  BY DEF Quieter, Early
<1>3. \A h : Tied(r, h) => Tied(s, h)
  BY DEF Quieter, Tied
<1>4. \A p : Wrote(r, p) => Wrote(s, p)
  BY DEF Quieter, Wrote
<1>5. \A p : Silent(r, p) => Silent(s, p)
  BY DEF Quieter, Silent
<1>6. \A job, p : OpensFor(job, s, p) => OpensFor(job, r, p)
  BY DEF Quieter, OpensFor
<1>. QED BY <1>1, <1>2, <1>3, <1>4, <1>5, <1>6

\* Peers that fall silent, and links that are let go of, keep the invariant.
LEMMA QuietStep ==
  ASSUME NEW P, NEW K, NEW W, NEW P2, NEW K2, ChannelInv(P, K, W), ChannelTyped(P2, K2, W),
         \A p \in Peer : Quieter(P2[p], P[p]),
         \A l \in Link : QuietLink(K2[l], K[l], P2)
  PROVE  ChannelInv(P2, K2, W)
<1>1. /\ P \in [Peer -> BlePeer] /\ K \in [Link -> LinkState] /\ W \in [Node -> Seq(Frame)]
      /\ P2 \in [Peer -> BlePeer] /\ K2 \in [Link -> LinkState]
      /\ \A p \in Peer : P[p] \in BlePeer /\ P2[p] \in BlePeer
  BY DEF ChannelInv, ChannelTyped
<1>2. \A p \in Peer :
        /\ P2[p].making = P[p].making /\ P2[p].deriving = P[p].deriving /\ P2[p].half = P[p].half
        /\ P2[p].myBid = P[p].myBid /\ P2[p].rekeyed = P[p].rekeyed /\ P2[p].sendCtr = P[p].sendCtr
        /\ P2[p].wanted \subseteq P[p].wanted
        /\ P2[p].state = "open" => P[p].state = "open" /\ P2[p].recvCtr = P[p].recvCtr
                                   /\ P2[p].central = P[p].central
        /\ P2[p].link = "none" => P[p].link = "none" \/ P2[p].state \in {"failed", "closed"}
  BY DEF Quieter
<1>3. \A p \in Peer :
         /\ Idle(P[p]) => Idle(P2[p])
         /\ Early(P[p]) => Early(P2[p])
         /\ \A h : Tied(P[p], h) => Tied(P2[p], h)
         /\ \A q : Wrote(P[p], q) => Wrote(P2[p], q)
         /\ \A q : Silent(P[p], q) => Silent(P2[p], q)
         /\ \A job, q : OpensFor(job, P2[p], q) => OpensFor(job, P[p], q)
  BY <1>1, QuieterKeeps
<1>4. \A l \in Link :
         /\ K2[l].toCentral = K[l].toCentral /\ K2[l].toPeripheral = K[l].toPeripheral
         /\ K2[l].fromCentral = K[l].fromCentral /\ K2[l].fromPeripheral = K[l].fromPeripheral
         /\ K2[l].hello = K[l].hello
         /\ K2[l].retry => K[l].retry \/ K[l].hello # NoRecord
         /\ K2[l].owner = K[l].owner \/ (K2[l].owner = NoPeer /\ ~P2[K[l].owner].central)
         /\ K2[l].handler \in {K[l].handler, NoPeer}
  BY DEF QuietLink
<1>. HIDE DEF Quieter, QuietLink
<1>5. \A p \in Peer : LinkOf(p) \in Link
  BY PeerFacts
<1>6. SignalsTied(P2, W)
  <2>1. ASSUME NEW n \in Node, NEW i \in 1 .. Len(W[n])
        PROVE  W[n][i].half.by[2] = n /\ Tied(P2[W[n][i].half.by], W[n][i].half)
    <3>1. W[n][i] \in Frame
      BY <1>1
    <3>2. W[n][i].half.by \in Peer
      BY <3>1 DEF Frame, Half
    <3>. QED BY <3>2, <1>3 DEF ChannelInv, SignalsTied
  <2>. QED BY <2>1 DEF SignalsTied
<1>7. HalvesTied(P2)
  <2>1. ASSUME NEW p \in Peer, NEW h \in P2[p].deriving PROVE Pairs(h.by, p) /\ Tied(P2[h.by], h)
    <3>1. h \in P[p].deriving /\ h.by \in Peer
      BY <1>1, <1>2, KeyOfPeer
    <3>. QED BY <3>1, <1>3 DEF ChannelInv, HalvesTied
  <2>. QED BY <2>1 DEF HalvesTied
<1>8. KeysTied(P2, K2)
  <2>1. ASSUME NEW p \in Peer, P2[p].half # NoHalf
        PROVE  Pairs(P2[p].half.by, p) /\ (Live(P2, K2, p) => Tied(P2[P2[p].half.by], P2[p].half))
    <3>1. P2[p].half = P[p].half /\ P[p].half # NoHalf /\ P[p].half.by \in Peer
      BY <2>1, <1>1, <1>2, KeyOfPeer
    <3>2. Pairs(P[p].half.by, p) /\ (Live(P, K, p) => Tied(P[P[p].half.by], P[p].half))
      BY <3>1 DEF ChannelInv, KeysTied
    <3>3. Live(P2, K2, p) => Live(P, K, p)
      BY <1>3, <1>4, <1>5 DEF Live
    <3>. QED BY <3>1, <3>2, <3>3, <1>3
  <2>. QED BY <2>1 DEF KeysTied
<1>9. AllEarly(P2)
  BY <1>3 DEF ChannelInv, AllEarly
<1>10. RecordsOK(P2, K2)
  <2>1. ASSUME NEW l \in Link, NEW rec, RecordOK(P, l, rec) PROVE RecordOK(P2, l, rec)
    BY <2>1, <1>2, <1>3 DEF RecordOK
  <2>2. \A l \in Link : CentralRecords(K2[l]) = CentralRecords(K[l])
                        /\ PeripheralRecords(K2[l]) = PeripheralRecords(K[l])
    BY <1>4 DEF CentralRecords, PeripheralRecords
  <2>. QED BY <2>1, <2>2 DEF ChannelInv, RecordsOK, LinkRecordsOK
<1>11. AllLinksFit(K2)
  <2>1. ASSUME NEW l \in Link PROVE LinkFit(l, K2[l])
    <3>1. LinkFit(l, K[l])
      BY DEF ChannelInv, AllLinksFit
    <3>. QED BY <3>1, <1>4 DEF LinkFit
  <2>. QED BY <2>1 DEF AllLinksFit
<1>12. Attached(P2, K2)
  <2>1. ASSUME NEW p \in Peer
        PROVE  /\ (P2[p].wanted # {} /\ ~P2[p].rekeyed) \/ P2[p].half = NoHalf =>
                    K2[LinkOf(p)].handler # p /\ K2[LinkOf(p)].fromPeripheral.peer # p
               /\ ~IsCentral(p) /\ P2[p].state = "open" => P2[p].central
    <3>1. /\ (P[p].wanted # {} /\ ~P[p].rekeyed) \/ P[p].half = NoHalf =>
               K[LinkOf(p)].handler # p /\ K[LinkOf(p)].fromPeripheral.peer # p
          /\ ~IsCentral(p) /\ P[p].state = "open" => P[p].central
      BY DEF ChannelInv, Attached
    <3>2. p # NoPeer
      BY PeerFacts
    <3>. QED BY <3>1, <3>2, <1>2, <1>4, <1>5
  <2>. QED BY <2>1 DEF Attached
<1>13. \A q, p \in Peer : \A b : Run(P, K, q, p, b) => Run(P2, K2, q, p, b)
  BY <1>2, <1>4, <1>5 DEF Run, QueueTo
<1>14. AllRun(P2, K2)
  <2>1. \A p \in Peer : QueueTo(K2[LinkOf(p)], p) = QueueTo(K[LinkOf(p)], p)
    BY <1>4, <1>5 DEF QueueTo
  <2>. QED BY <2>1, <1>2, <1>13 DEF ChannelInv, AllRun
<1>15. Speakers(P2, K2)
  <2>1. \A rec : rec.by \in Peer /\ Speaks(P, rec) => Speaks(P2, rec)
    <3>1. \A p \in Peer : \A q : P[p].link # "none" => P2[p].link # "none" \/ Silent(P2[p], q)
      BY <1>2 DEF Silent
    <3>. QED BY <3>1, <1>3 DEF Speaks
  <2>2. ASSUME NEW q \in Peer, NEW p \in Peer, Nothing(P, K, q, p) PROVE Nothing(P2, K2, q, p)
    BY <2>2, <1>3, <1>4, <1>5 DEF Nothing
  <2>3. ASSUME NEW l \in Link PROVE LinkSpeaks(P2, K2, l)
    <3>1. LinkSpeaks(P, K, l)
      BY DEF ChannelInv, Speakers
    <3>2. \A rec \in PeripheralRecords(K[l]) : rec.by \in Peer /\ rec.to \in Peer
      BY DEF ChannelInv, RecordsOK, LinkRecordsOK, RecordOK
    <3>3. /\ \A i \in 1 .. Len(K[l].toPeripheral) : K[l].toPeripheral[i] \in PeripheralRecords(K[l])
          /\ K[l].hello # NoRecord => K[l].hello \in PeripheralRecords(K[l])
          /\ K[l].fromCentral.how # "none" => K[l].fromCentral.rec \in PeripheralRecords(K[l])
      BY DEF PeripheralRecords
    <3>4. /\ \A i \in 1 .. Len(K[l].toPeripheral) : Speaks(P2, K[l].toPeripheral[i])
          /\ K[l].hello # NoRecord => Speaks(P2, K[l].hello)
          /\ Identifies(K[l].fromCentral) => Speaks(P2, K[l].fromCentral.rec)
      BY <2>1, <3>1, <3>2, <3>3 DEF LinkSpeaks, Identifies
    <3>5. K[l].fromCentral.how = "identify" /\ K[l].fromCentral.gone =>
            Nothing(P2, K2, K[l].fromCentral.rec.by, K[l].fromCentral.rec.to)
      BY <2>2, <3>1, <3>2, <3>3 DEF LinkSpeaks
    <3>. QED BY <3>4, <3>5, <1>4 DEF LinkSpeaks
  <2>. QED BY <2>3 DEF Speakers
<1>16. Taken(P2, K2)
  <2>1. ASSUME NEW l \in Link PROVE LinkTaken(P2, K2, l)
    <3>1. LinkTaken(P, K, l) /\ LinkFit(l, K[l])
      BY DEF ChannelInv, Taken, AllLinksFit
    <3>2. /\ \A rec \in PeripheralRecords(K[l]) \cup CentralRecords(K[l]) : rec.by \in Peer /\ rec.to \in Peer
          /\ K[l].hello # NoRecord => K[l].hello \in PeripheralRecords(K[l])
          /\ K[l].fromCentral.how # "none" => K[l].fromCentral.rec \in PeripheralRecords(K[l])
          /\ K[l].fromPeripheral.how # "none" => K[l].fromPeripheral.rec \in CentralRecords(K[l])
      BY DEF ChannelInv, RecordsOK, LinkRecordsOK, RecordOK, PeripheralRecords, CentralRecords
    <3>3. \A rec : rec.by \in Peer /\ rec.to \in Peer /\ RunAfter(P, K, rec) => RunAfter(P2, K2, rec)
      BY <1>13 DEF RunAfter
    <3>4. /\ K[l].fromCentral.how # "none" => K[l].fromCentral.peer \in Peer
          /\ K[l].fromPeripheral.how # "none" => K[l].fromPeripheral.peer \in Peer
      BY DEF ChannelInv, ChannelTyped, JobsHavePeers
    <3>. QED BY <3>1, <3>2, <3>3, <3>4, <1>2, <1>4, PeerFacts DEF LinkTaken, Identifies
  <2>. QED BY <2>1 DEF Taken
<1>17. AllExpect(P2, K2)
  <2>1. ASSUME NEW p \in Peer, P2[p].state = "open", ~P2[p].rekeyed PROVE Expects(P2, K2, p)
    <3>. DEFINE q == P[p].half.by
                l == LinkOf(p)
    <3>1. P[p].state = "open" /\ ~P[p].rekeyed /\ P2[p].half = P[p].half /\ P2[p].recvCtr = P[p].recvCtr
      BY <2>1, <1>2
    <3>2. Expects(P, K, p)
      BY <3>1 DEF ChannelInv, AllExpect
    <3>3. q \in Peer
      <4>1. P[p].half # NoHalf
        BY <3>1 DEF ChannelInv, AllEarly, Early
      <4>. QED BY <4>1, <1>1, KeyOfPeer
    <3>4. l \in Link /\ (K2[l].owner = K[l].owner \/ K[l].owner # p)
      <4>1. ~IsCentral(p) => P2[p].central
        BY <2>1, <1>12 DEF Attached
      <4>2. IsCentral(p) => K[l].owner # p
        <5>1. LinkFit(l, K[l])
          BY <1>5 DEF ChannelInv, AllLinksFit
        <5>. QED BY <5>1, PeerFacts DEF LinkFit
      <4>. QED BY <4>1, <4>2, <1>4, <1>5
    <3>5. Wrote(P2[q], p) /\ (Nothing(P, K, q, p) => Nothing(P2, K2, q, p))
      BY <3>2, <3>3, <1>3, <1>4, <1>5 DEF Expects, Nothing
    <3>6. /\ JobAt(K2[l], p) = JobAt(K[l], p)
          /\ Hearing(K2[l], p) => Hearing(K[l], p)
          /\ ~IsCentral(p) /\ K2[l].owner # p => K[l].owner # p
      BY <3>4, <1>4, <1>5, PeerFacts DEF JobAt, Hearing
    <3>7. Run(P, K, q, p, P[p].recvCtr) => Run(P2, K2, q, p, P[p].recvCtr)
      BY <3>3, <1>13
    <3>8. K2[l].fromCentral = K[l].fromCentral
      BY <1>4, <1>5
    <3>. QED BY <3>1, <3>2, <3>5, <3>6, <3>7, <3>8 DEF Expects
  <2>. QED BY <2>1 DEF AllExpect
<1>. QED BY <1>6, <1>7, <1>8, <1>9, <1>10, <1>11, <1>12, <1>14, <1>15, <1>16, <1>17 DEF ChannelInv

\* What is on a link or being opened at its ends.
LEMMA RecordFacts ==
  ASSUME NEW P, NEW K, NEW W, ChannelInv(P, K, W), NEW l \in Link
  PROVE  /\ \A rec \in CentralRecords(K[l]) : RecordOK(P, l, rec) /\ IsCentral(rec.to)
         /\ \A rec \in PeripheralRecords(K[l]) : RecordOK(P, l, rec) /\ ~IsCentral(rec.to)
         /\ \A i \in 1 .. Len(K[l].toCentral) : K[l].toCentral[i] \in CentralRecords(K[l])
         /\ \A i \in 1 .. Len(K[l].toPeripheral) : K[l].toPeripheral[i] \in PeripheralRecords(K[l])
         /\ K[l].hello # NoRecord => K[l].hello \in PeripheralRecords(K[l])
         /\ K[l].fromCentral.how # "none" =>
              K[l].fromCentral.rec \in PeripheralRecords(K[l]) /\ K[l].fromCentral.peer \in Peer
         /\ K[l].fromPeripheral.how # "none" =>
              K[l].fromPeripheral.rec \in CentralRecords(K[l]) /\ K[l].fromPeripheral.peer \in Peer
<1>1. LinkRecordsOK(P, l, K[l]) /\ JobsHavePeers(K[l])
  BY DEF ChannelInv, RecordsOK, ChannelTyped
<1>. QED BY <1>1 DEF LinkRecordsOK, JobsHavePeers, CentralRecords, PeripheralRecords

\* Who never sealed for p has nothing on the way to it.
LEMMA NoneOnTheWay ==
  ASSUME NEW P, NEW K, NEW W, ChannelInv(P, K, W), NEW q \in Peer, NEW p \in Peer, ~Wrote(P[q], p)
  PROVE  NoneFrom(QueueTo(K[LinkOf(p)], p), q, p)
<1>1. LinkOf(p) \in Link
  BY PeerFacts
<1>2. ASSUME NEW i \in 1 .. Len(QueueTo(K[LinkOf(p)], p)), IsFor(QueueTo(K[LinkOf(p)], p)[i], q, p)
      PROVE  FALSE
  <2>1. RecordOK(P, LinkOf(p), QueueTo(K[LinkOf(p)], p)[i])
    BY <1>1, RecordFacts DEF QueueTo
  <2>. QED BY <1>2, <2>1 DEF RecordOK, IsFor
<1>. QED BY <1>2 DEF NoneFrom

\* A signal less.
LEMMA FewerSignals ==
  ASSUME NEW P, NEW K, NEW W, NEW W2, ChannelInv(P, K, W), W2 \in [Node -> Seq(Frame)], SignalsTied(P, W2)
  PROVE  ChannelInv(P, K, W2)
BY DEF ChannelInv, ChannelTyped

\* The first signal of a wire is read: it is for this device, and of a peer that
\* sends no other.
LEMMA SignalTaken ==
  ASSUME NEW P, NEW K, NEW W, NEW n \in Node, ChannelInv(P, K, W), W[n] # <<>>
  PROVE  /\ ChannelInv(P, K, [W EXCEPT ![n] = Tail(@)])
         /\ Head(W[n]) \in Frame /\ Head(W[n]).half \in Half /\ Head(W[n]).half.by \in Peer
         /\ Head(W[n]).half.by[2] = n /\ Tied(P[Head(W[n]).half.by], Head(W[n]).half)
<1>. DEFINE W2 == [W EXCEPT ![n] = Tail(@)]
<1>1. W \in [Node -> Seq(Frame)] /\ W[n] \in Seq(Frame)
  BY DEF ChannelInv, ChannelTyped
<1>2. /\ Tail(W[n]) \in Seq(Frame) /\ Len(Tail(W[n])) = Len(W[n]) - 1 /\ Len(W[n]) \in Nat \ {0}
      /\ Head(W[n]) = W[n][1] /\ Head(W[n]) \in Frame
      /\ \A i \in 1 .. Len(Tail(W[n])) : Tail(W[n])[i] = W[n][i + 1]
  BY <1>1
<1>3. W2 \in [Node -> Seq(Frame)] /\ W2[n] = Tail(W[n]) /\ \A m \in Node : m # n => W2[m] = W[m]
  BY <1>1, <1>2
<1>. HIDE DEF W2
<1>4. SignalsTied(P, W2)
  <2>1. ASSUME NEW m \in Node, NEW i \in 1 .. Len(W2[m])
        PROVE  \E j \in 1 .. Len(W[m]) : W2[m][i] = W[m][j]
    <3>1. CASE m = n
      <4>1. i + 1 \in 1 .. Len(W[n]) /\ W2[n][i] = W[n][i + 1]
        BY <1>2, <1>3, <2>1, <3>1
      <4>. QED BY <3>1, <4>1
    <3>2. CASE m # n
      BY <1>3, <2>1, <3>2
    <3>. QED BY <3>1, <3>2
  <2>. QED BY <2>1 DEF ChannelInv, SignalsTied
<1>5. ChannelInv(P, K, W2)
  BY <1>3, <1>4, FewerSignals
<1>6. 1 \in 1 .. Len(W[n])
  BY <1>2
<1>7. Head(W[n]).half.by[2] = n /\ Tied(P[Head(W[n]).half.by], Head(W[n]).half)
  BY <1>2, <1>6 DEF ChannelInv, SignalsTied
<1>8. Head(W[n]).half \in Half /\ Head(W[n]).half.by \in Peer
  BY <1>2 DEF Frame, Half
<1>. QED BY <1>2, <1>5, <1>7, <1>8 DEF W2

----
\* A peer that does not open.

\* What was sent of it stays true, what it may have sealed it may have sealed
\* still, and it seals for nobody again whom it had sealed for before another.
Turns(s, r) ==
  /\ r.making = "no" => s.making = "no" /\ s.myBid = r.myBid
  /\ s.sendCtr = r.sendCtr /\ s.link = r.link /\ (r.rekeyed => s.rekeyed) /\ s.state # "open"
  /\ \A x : Wrote(r, x) => /\ Wrote(s, x)
                           /\ s.half.by = x => r.half.by = x
                           /\ Silent(r, x) => Silent(s, x)
  /\ (s.wanted # {} /\ ~s.rekeyed) \/ s.half = NoHalf => (r.wanted # {} /\ ~r.rekeyed) \/ r.half = NoHalf

\* A peer that turns keeps the invariant, if what it has and derives is of a pair.
LEMMA TurnStep ==
  ASSUME NEW P, NEW K, NEW W, NEW W2, NEW P2, ChannelInv(P, K, W), ChannelTyped(P2, K, W2),
         NEW p \in Peer, NEW s, P2 = [P EXCEPT ![p] = s], Turns(s, P[p]), Early(s),
         SignalsTied(P2, W2),
         \A h \in s.deriving : Pairs(h.by, p) /\ Tied(P[h.by], h),
         s.half # NoHalf => Pairs(s.half.by, p) /\ Tied(P[s.half.by], s.half)
  PROVE  ChannelInv(P2, K, W2)
<1>1. /\ P \in [Peer -> BlePeer] /\ K \in [Link -> LinkState]
      /\ P2[p] = s /\ \A q \in Peer : q # p => P2[q] = P[q]
      /\ \A q \in Peer : P[q] \in BlePeer /\ P2[q] \in BlePeer /\ LinkOf(q) \in Link
  BY PeerFacts DEF ChannelInv, ChannelTyped
<1>. DEFINE r == P[p]
<1>2. \A h : Tied(r, h) => Tied(s, h)
  BY DEF Turns, Tied
<1>3. \A q \in Peer : \A h : Tied(P[q], h) => Tied(P2[q], h)
  BY <1>1, <1>2
<1>4. \A q \in Peer : \A x : Wrote(P[q], x) =>
        /\ Wrote(P2[q], x)
        /\ P2[q].half.by = x => P[q].half.by = x
        /\ Silent(P[q], x) => Silent(P2[q], x)
  BY <1>1 DEF Turns
<1>5. /\ \A q \in Peer : /\ P2[q].sendCtr = P[q].sendCtr /\ P2[q].link = P[q].link
                         /\ P[q].rekeyed => P2[q].rekeyed
                         /\ P[q].making = "no" => P2[q].making = "no" /\ P2[q].myBid = P[q].myBid
      /\ \A q \in Peer : P2[q].state = "open" => q # p
  BY <1>1 DEF Turns
<1>6. \A q \in Peer :
        (P2[q].wanted # {} /\ ~P2[q].rekeyed) \/ P2[q].half = NoHalf =>
          (P[q].wanted # {} /\ ~P[q].rekeyed) \/ P[q].half = NoHalf
  BY <1>1 DEF Turns
<1>. HIDE DEF Turns, r
<1>7. HalvesTied(P2)
  <2>1. ASSUME NEW q \in Peer, NEW h \in P2[q].deriving PROVE Pairs(h.by, q) /\ Tied(P2[h.by], h)
    <3>1. h.by \in Peer
      BY <1>1, KeyOfPeer
    <3>2. Pairs(h.by, q) /\ Tied(P[h.by], h)
      BY <1>1 DEF ChannelInv, HalvesTied
    <3>. QED BY <3>1, <3>2, <1>3
  <2>. QED BY <2>1 DEF HalvesTied
<1>8. KeysTied(P2, K)
  <2>1. ASSUME NEW q \in Peer, P2[q].half # NoHalf
        PROVE  Pairs(P2[q].half.by, q) /\ (Live(P2, K, q) => Tied(P2[P2[q].half.by], P2[q].half))
    <3>1. P2[q].half.by \in Peer
      BY <2>1, <1>1, KeyOfPeer
    <3>2. CASE q = p
      BY <3>1, <3>2, <2>1, <1>1, <1>3
    <3>3. CASE q # p
      <4>1. P2[q] = P[q] /\ (Live(P2, K, q) <=> Live(P, K, q))
        BY <3>3, <1>1 DEF Live
      <4>. QED BY <4>1, <3>1, <2>1, <1>3 DEF ChannelInv, KeysTied
    <3>. QED BY <3>2, <3>3
  <2>. QED BY <2>1 DEF KeysTied
<1>9. AllEarly(P2)
  BY <1>1 DEF ChannelInv, AllEarly
<1>10. RecordsOK(P2, K)
  <2>1. ASSUME NEW l \in Link, NEW rec, RecordOK(P, l, rec) PROVE RecordOK(P2, l, rec)
    <3>1. rec.by \in Peer /\ rec.to \in Peer
      BY <2>1 DEF RecordOK
    <3>2. Wrote(P2[rec.by], rec.to)
      BY <2>1, <3>1, <1>4 DEF RecordOK
    <3>. QED BY <2>1, <3>1, <3>2, <1>5 DEF RecordOK
  <2>. QED BY <2>1 DEF ChannelInv, RecordsOK, LinkRecordsOK
<1>11. Attached(P2, K)
  <2>1. \A q \in Peer : ~IsCentral(q) /\ P2[q].state = "open" => P2[q].central
    BY <1>1, <1>5 DEF ChannelInv, Attached
  <2>. QED BY <2>1, <1>6 DEF ChannelInv, Attached
<1>12. ASSUME NEW q \in Peer, NEW x \in Peer, NEW b, Wrote(P[q], x), Run(P, K, q, x, b)
       PROVE  Run(P2, K, q, x, b)
  <2>. DEFINE Q == QueueTo(K[LinkOf(x)], x)
              top == P[q].sendCtr
  <2>1. Q \in Seq(AnyRecord) /\ top \in Nat
    <3>1. K[LinkOf(x)] \in LinkState
      BY <1>1
    <3>. QED BY <3>1, <1>1, KeyOfPeer DEF QueueTo, LinkState
  <2>2. RunFrom(Q, q, x, b, top, P[q].half.by = x) /\ P2[q].sendCtr = top
    BY <1>12, <1>5 DEF Run
  <2>5. ASSUME NEW g, RunFrom(Q, q, x, b, top, g) PROVE RunFrom(Q, q, x, b, top, FALSE)
    <3>. HIDE DEF Q, top
    <3>1. top <= top
      BY <2>1
    <3>. QED BY <2>1, <2>5, <3>1, RunWeaker
  <2>. HIDE DEF Q, top
  <2>3. CASE P2[q].half.by = x
    <3>1. (P2[q].half.by = x) = (P[q].half.by = x)
      BY <2>3, <1>4, <1>12
    <3>. QED BY <2>2, <3>1 DEF Run, Q
  <2>4. CASE P2[q].half.by # x
    <3>1. RunFrom(Q, q, x, b, top, FALSE)
      BY <2>2, <2>5
    <3>. QED BY <2>2, <2>4, <3>1 DEF Run, Q
  <2>. QED BY <2>3, <2>4
<1>13. AllRun(P2, K)
  <2>1. ASSUME NEW q \in Peer, NEW x \in Peer, Pairs(q, x)
        PROVE  Rising(QueueTo(K[LinkOf(x)], x), q, x) /\ \E b \in 0 .. P2[q].sendCtr : Run(P2, K, q, x, b)
    <3>1. Rising(QueueTo(K[LinkOf(x)], x), q, x) /\ \E b \in 0 .. P[q].sendCtr : Run(P, K, q, x, b)
      BY <2>1 DEF ChannelInv, AllRun
    <3>2. CASE Wrote(P[q], x)
      BY <3>1, <3>2, <1>5, <1>12
    <3>3. CASE ~Wrote(P[q], x)
      <4>1. NoneFrom(QueueTo(K[LinkOf(x)], x), q, x)
        BY <3>3, NoneOnTheWay
      <4>2. P2[q].sendCtr \in Nat
        BY <1>1, KeyOfPeer
      <4>3. Run(P2, K, q, x, P2[q].sendCtr)
        BY <4>1, <4>2, RunOfNone DEF Run
      <4>4. P2[q].sendCtr \in 0 .. P2[q].sendCtr
        BY <4>2
      <4>. QED BY <3>1, <4>3, <4>4
    <3>. QED BY <3>2, <3>3
  <2>. QED BY <2>1 DEF AllRun
<1>14. Speakers(P2, K)
  <2>1. ASSUME NEW l \in Link PROVE LinkSpeaks(P2, K, l)
    <3>1. LinkSpeaks(P, K, l)
      BY DEF ChannelInv, Speakers
    <3>2. \A rec \in PeripheralRecords(K[l]) :
             /\ Speaks(P, rec) => Speaks(P2, rec)
             /\ Nothing(P, K, rec.by, rec.to) => Nothing(P2, K, rec.by, rec.to)
      <4>1. \A rec \in PeripheralRecords(K[l]) : rec.by \in Peer /\ Wrote(P[rec.by], rec.to)
        BY RecordFacts DEF RecordOK
      <4>. QED BY <4>1, <1>4, <1>5 DEF Speaks, Nothing
    <3>. QED BY <3>1, <3>2, RecordFacts DEF LinkSpeaks, Identifies
  <2>. QED BY <2>1 DEF Speakers
<1>15. Taken(P2, K)
  <2>1. ASSUME NEW l \in Link PROVE LinkTaken(P2, K, l)
    <3>1. LinkTaken(P, K, l)
      BY DEF ChannelInv, Taken
    <3>2. \A rec \in PeripheralRecords(K[l]) \cup CentralRecords(K[l]) :
             RunAfter(P, K, rec) => RunAfter(P2, K, rec)
      <4>1. \A rec \in PeripheralRecords(K[l]) \cup CentralRecords(K[l]) :
               rec.by \in Peer /\ rec.to \in Peer /\ Wrote(P[rec.by], rec.to)
        BY RecordFacts DEF RecordOK
      <4>. QED BY <4>1, <1>12 DEF RunAfter
    <3>. QED BY <3>1, <3>2, <1>5, RecordFacts DEF LinkTaken, Identifies
  <2>. QED BY <2>1 DEF Taken
<1>16. AllExpect(P2, K)
  <2>1. ASSUME NEW x \in Peer, P2[x].state = "open", ~P2[x].rekeyed PROVE Expects(P2, K, x)
    <3>1. x # p /\ P2[x] = P[x]
      BY <2>1, <1>1, <1>5
    <3>. DEFINE q == P[x].half.by
    <3>2. Expects(P, K, x)
      BY <2>1, <3>1 DEF ChannelInv, AllExpect
    <3>3. q \in Peer
      <4>1. P[x].half # NoHalf
        BY <2>1, <3>1 DEF ChannelInv, AllEarly, Early
      <4>. QED BY <4>1, <1>1, KeyOfPeer
    <3>4. Wrote(P[q], x)
      BY <3>2 DEF Expects
    <3>5. Wrote(P2[q], x) /\ (Nothing(P, K, q, x) => Nothing(P2, K, q, x))
      BY <3>3, <3>4, <1>4 DEF Nothing
    <3>6. Run(P, K, q, x, P[x].recvCtr) => Run(P2, K, q, x, P[x].recvCtr)
      BY <3>3, <3>4, <1>12
    <3>. QED BY <3>1, <3>2, <3>5, <3>6 DEF Expects
  <2>. QED BY <2>1 DEF AllExpect
<1>. QED BY <1>7, <1>8, <1>9, <1>10, <1>11, <1>13, <1>14, <1>15, <1>16 DEF ChannelInv

\* A peer's signal is sent: from now on its half is this one.
LEMMA SignStep ==
  ASSUME NEW P, NEW K, NEW W, ChannelInv(P, K, W), NEW p \in Peer, P[p].making # "no",
         NEW s \in BlePeer, s.making = "no", s.half = P[p].half, s.deriving = P[p].deriving,
         s.rekeyed = P[p].rekeyed, s.wanted = P[p].wanted, s.link = P[p].link, s.central = P[p].central,
         s.sendCtr = P[p].sendCtr, s.state \in {P[p].state, "offered"},
         NEW f \in Frame, f.half.by = p, f.half.bid = s.myBid
  PROVE  ChannelInv([P EXCEPT ![p] = s], K, [W EXCEPT ![p[2]] = Append(@, f)])
<1>. DEFINE P2 == [P EXCEPT ![p] = s]
            W2 == [W EXCEPT ![p[2]] = Append(@, f)]
<1>1. /\ P \in [Peer -> BlePeer] /\ K \in [Link -> LinkState] /\ W \in [Node -> Seq(Frame)]
      /\ p[2] \in Node /\ W[p[2]] \in Seq(Frame)
      /\ \A l \in Link : JobsHavePeers(K[l])
  BY PeerFacts DEF ChannelInv, ChannelTyped
<1>2. /\ Append(W[p[2]], f) \in Seq(Frame) /\ Len(W[p[2]]) \in Nat
      /\ Len(Append(W[p[2]], f)) = Len(W[p[2]]) + 1
      /\ \A i \in 1 .. Len(W[p[2]]) : Append(W[p[2]], f)[i] = W[p[2]][i]
      /\ Append(W[p[2]], f)[Len(W[p[2]]) + 1] = f
  BY <1>1
<1>3. /\ W2 \in [Node -> Seq(Frame)] /\ W2[p[2]] = Append(W[p[2]], f)
      /\ \A n \in Node : n # p[2] => W2[n] = W[n]
  BY <1>1, <1>2
<1>4. P2 \in [Peer -> BlePeer] /\ P2[p] = s /\ \A q \in Peer : q # p => P2[q] = P[q]
  BY <1>1
<1>5. ChannelTyped(P2, K, W2)
  BY <1>1, <1>3, <1>4 DEF ChannelTyped
<1>6. Early(P[p]) /\ P[p].half = NoHalf
  BY DEF ChannelInv, AllEarly, Early
<1>7. Early(s)
  BY <1>6 DEF Early
<1>8. \A x : ~Wrote(P[p], x)
  BY <1>6 DEF Wrote
<1>9. Turns(s, P[p])
  BY <1>6, <1>8 DEF Turns, Early
<1>10. \A q \in Peer : \A h : Tied(P[q], h) => Tied(P2[q], h)
  BY <1>4 DEF Tied
<1>. HIDE DEF P2, W2
<1>11. SignalsTied(P2, W2)
  <2>1. ASSUME NEW n \in Node, NEW i \in 1 .. Len(W2[n])
        PROVE  W2[n][i].half.by[2] = n /\ Tied(P2[W2[n][i].half.by], W2[n][i].half)
    <3>1. CASE n = p[2] /\ i = Len(W[n]) + 1
      <4>1. W2[n][i] = f
        BY <1>2, <1>3, <3>1
      <4>. QED BY <4>1, <1>4, <3>1 DEF Tied
    <3>2. CASE ~(n = p[2] /\ i = Len(W[n]) + 1)
      <4>1. i \in 1 .. Len(W[n]) /\ W2[n][i] = W[n][i]
        BY <1>2, <1>3, <2>1, <3>2
      <4>2. W[n][i].half.by \in Peer
        <5>1. W[n][i] \in Frame
          BY <1>1, <4>1
        <5>. QED BY <5>1 DEF Frame, Half
      <4>3. W[n][i].half.by[2] = n /\ Tied(P[W[n][i].half.by], W[n][i].half)
        BY <4>1 DEF ChannelInv, SignalsTied
      <4>. QED BY <4>1, <4>2, <4>3, <1>10
    <3>. QED BY <3>1, <3>2
  <2>. QED BY <2>1 DEF SignalsTied
<1>12. \A h \in s.deriving : Pairs(h.by, p) /\ Tied(P[h.by], h)
  BY DEF ChannelInv, HalvesTied
<1>13. P2 = [P EXCEPT ![p] = s]
  BY DEF P2
<1>14. s.half = NoHalf
  BY <1>6
<1>15. ChannelInv(P2, K, W2)
  BY <1>5, <1>7, <1>9, <1>11, <1>12, <1>13, <1>14, TurnStep
<1>. QED BY <1>15 DEF P2, W2

\* An offered peer begins to derive a key.
LEMMA AnsweredStep ==
  ASSUME NEW P, NEW K, NEW W, ChannelInv(P, K, W), NEW p \in Peer, P[p].state = "offered",
         NEW h \in Half, Pairs(h.by, p), Tied(P[h.by], h)
  PROVE  ChannelInv([P EXCEPT ![p].rekeyed = @ \/ P[p].deriving # {}, ![p].deriving = @ \cup {h}], K, W)
<1>. DEFINE r == P[p]
            s == [r EXCEPT !.rekeyed = @ \/ r.deriving # {}, !.deriving = @ \cup {h}]
            P2 == [P EXCEPT ![p] = s]
<1>1. /\ P \in [Peer -> BlePeer] /\ K \in [Link -> LinkState] /\ W \in [Node -> Seq(Frame)]
      /\ \A l \in Link : JobsHavePeers(K[l]) /\ r \in BlePeer
  BY DEF ChannelInv, ChannelTyped
<1>2. [P EXCEPT ![p].rekeyed = @ \/ P[p].deriving # {}, ![p].deriving = @ \cup {h}] = P2
  BY <1>1 DEF BlePeer
<1>3. Early(r) /\ r.half = NoHalf /\ r.half.by = NoPeer /\ h.by \in Peer
  BY <1>1, KeyOfPeer DEF ChannelInv, AllEarly, Early, Half
<1>4. /\ s \in BlePeer /\ s.rekeyed = (r.rekeyed \/ r.deriving # {}) /\ s.deriving = r.deriving \cup {h}
      /\ s.making = r.making /\ s.myBid = r.myBid /\ s.sendCtr = r.sendCtr /\ s.link = r.link
      /\ s.half = r.half /\ s.wanted = r.wanted /\ s.state = "offered" /\ s.central = r.central
  BY <1>1 DEF BlePeer
<1>. HIDE DEF s
<1>5. P2 \in [Peer -> BlePeer] /\ P2[p] = s /\ \A q \in Peer : q # p => P2[q] = P[q]
  BY <1>1, <1>4
<1>6. ChannelTyped(P2, K, W)
  BY <1>1, <1>5 DEF ChannelTyped
<1>7. Early(s)
  BY <1>3, <1>4, PeerFacts DEF Early
<1>8. Turns(s, r)
  BY <1>3, <1>4 DEF Turns, Wrote
<1>9. \A q \in Peer : \A k : Tied(P[q], k) => Tied(P2[q], k)
  BY <1>4, <1>5 DEF Tied
<1>10. SignalsTied(P2, W)
  <2>1. \A n \in Node : \A i \in 1 .. Len(W[n]) : W[n][i] \in Frame
    BY <1>1
  <2>. QED BY <2>1, <1>9 DEF ChannelInv, SignalsTied, Frame, Half
<1>11. \A k \in s.deriving : Pairs(k.by, p) /\ Tied(P[k.by], k)
  BY <1>4 DEF ChannelInv, HalvesTied
<1>. HIDE DEF P2
<1>12. P2 = [P EXCEPT ![p] = s] /\ s.half = NoHalf
  BY <1>3, <1>4 DEF P2
<1>13. ChannelInv(P2, K, W)
  BY <1>6, <1>7, <1>8, <1>10, <1>11, <1>12, TurnStep
<1>. QED BY <1>2, <1>13

\* A peer gets its key.
LEMMA KeyedStep ==
  ASSUME NEW P, NEW K, NEW W, ChannelInv(P, K, W), NEW p \in Peer, P[p].making = "no",
         NEW h \in P[p].deriving, NEW s \in BlePeer,
         s.deriving = P[p].deriving \ {h}, s.half = h, s.state = "keyed",
         s.wanted \subseteq P[p].wanted \cup {h.bid},
         s.making = P[p].making, s.myBid = P[p].myBid, s.rekeyed = P[p].rekeyed,
         s.sendCtr = P[p].sendCtr, s.link = P[p].link
  PROVE  ChannelInv([P EXCEPT ![p] = s], K, W)
<1>. DEFINE r == P[p]
            P2 == [P EXCEPT ![p] = s]
<1>1. /\ P \in [Peer -> BlePeer] /\ K \in [Link -> LinkState] /\ W \in [Node -> Seq(Frame)]
      /\ \A l \in Link : JobsHavePeers(K[l]) /\ r \in BlePeer
  BY DEF ChannelInv, ChannelTyped
<1>2. /\ Early(r) /\ h \in Half /\ h.by \in Peer /\ h # NoHalf /\ Pairs(h.by, p) /\ Tied(P[h.by], h)
      /\ \A k \in r.deriving : k \in Half /\ Pairs(k.by, p) /\ Tied(P[k.by], k)
  <2>1. h \in Half /\ h.by \in Peer /\ \A k \in r.deriving : k \in Half
    BY <1>1, KeyOfPeer
  <2>2. NoHalf.by = NoPeer
    BY DEF NoHalf
  <2>. QED BY <2>1, <2>2, PeerFacts DEF ChannelInv, AllEarly, HalvesTied
<1>3. P2 \in [Peer -> BlePeer] /\ P2[p] = s /\ \A q \in Peer : q # p => P2[q] = P[q]
  BY <1>1
<1>4. ChannelTyped(P2, K, W)
  BY <1>1, <1>3 DEF ChannelTyped
<1>5. r.half # NoHalf => r.rekeyed
  BY <1>2 DEF Early
<1>6. Early(s)
  BY <1>2, <1>5 DEF Early
<1>7. Turns(s, r)
  <2>1. \A x : Wrote(r, x) => h.by # x /\ r.half # NoHalf /\ r.rekeyed
    BY <1>5 DEF Wrote
  <2>2. \A x : Wrote(r, x) => Wrote(s, x)
    BY <1>2, <2>1 DEF Wrote
  <2>3. \A x : Wrote(r, x) => s.half.by # x /\ Silent(s, x)
    BY <2>1 DEF Silent
  <2>4. (s.wanted # {} /\ ~s.rekeyed) \/ s.half = NoHalf => r.half = NoHalf
    BY <1>2, <1>5
  <2>. QED BY <2>2, <2>3, <2>4 DEF Turns
<1>8. \A q \in Peer : \A k : Tied(P[q], k) => Tied(P2[q], k)
  BY <1>3 DEF Tied
<1>9. SignalsTied(P2, W)
  <2>1. \A n \in Node : \A i \in 1 .. Len(W[n]) : W[n][i] \in Frame
    BY <1>1
  <2>. QED BY <2>1, <1>8 DEF ChannelInv, SignalsTied, Frame, Half
<1>10. \A k \in s.deriving : Pairs(k.by, p) /\ Tied(P[k.by], k)
  BY <1>2
<1>. HIDE DEF P2
<1>11. P2 = [P EXCEPT ![p] = s] /\ Pairs(s.half.by, p) /\ Tied(P[s.half.by], s.half)
  BY <1>2 DEF P2
<1>12. ChannelInv(P2, K, W)
  BY <1>4, <1>6, <1>7, <1>9, <1>10, <1>11, TurnStep
<1>. QED BY <1>12 DEF P2

----
\* A peer that begins.

\* Nothing refers to a peer that is over.
Unreferred(P, K, W, p) ==
  /\ Idle(P[p])
  /\ \A n \in Node : \A i \in 1 .. Len(W[n]) : W[n][i].half.by # p
  /\ \A q \in Peer : Idle(P[q]) \/ (P[q].half.by # p /\ \A h \in P[q].deriving : h.by # p)
  /\ \A l \in Link :
       /\ p \notin {K[l].owner, K[l].handler, K[l].fromCentral.peer, K[l].fromPeripheral.peer}
       /\ \A rec \in CentralRecords(K[l]) \cup PeripheralRecords(K[l]) : rec.by # p /\ rec.to # p

\* So a new one may take its place.
LEMMA BegunStep ==
  ASSUME NEW P, NEW K, NEW W, ChannelInv(P, K, W), NEW p \in Peer, Unreferred(P, K, W, p),
         NEW s \in BlePeer, s.state = "new", s.making # "no", s.half = NoHalf, ~s.rekeyed,
         s.wanted = {}, s.link = "none", ~s.central,
         \A h \in s.deriving : Pairs(h.by, p) /\ Tied(P[h.by], h) /\ \A k \in s.deriving : h = k
  PROVE  ChannelInv([P EXCEPT ![p] = s], K, W)
<1>. DEFINE P2 == [P EXCEPT ![p] = s]
<1>1. /\ P \in [Peer -> BlePeer] /\ K \in [Link -> LinkState] /\ W \in [Node -> Seq(Frame)]
      /\ \A l \in Link : JobsHavePeers(K[l])
      /\ P2 \in [Peer -> BlePeer] /\ P2[p] = s /\ \A q \in Peer : q # p => P2[q] = P[q]
      /\ \A q \in Peer : LinkOf(q) \in Link /\ P[q] \in BlePeer
  BY PeerFacts DEF ChannelInv, ChannelTyped
<1>. HIDE DEF P2
<1>2. ChannelTyped(P2, K, W)
  BY <1>1 DEF ChannelTyped
<1>3. /\ \A n \in Node : \A i \in 1 .. Len(W[n]) : W[n][i].half.by # p
      /\ \A q \in Peer : Idle(P[q]) \/ (P[q].half.by # p /\ \A h \in P[q].deriving : h.by # p)
      /\ \A l \in Link : /\ p \notin {K[l].owner, K[l].handler, K[l].fromCentral.peer, K[l].fromPeripheral.peer}
                         /\ \A rec \in CentralRecords(K[l]) \cup PeripheralRecords(K[l]) : rec.by # p /\ rec.to # p
  BY DEF Unreferred
<1>4. SignalsTied(P2, W)
  <2>1. ASSUME NEW n \in Node, NEW i \in 1 .. Len(W[n])
        PROVE  W[n][i].half.by[2] = n /\ Tied(P2[W[n][i].half.by], W[n][i].half)
    <3>1. W[n][i] \in Frame
      BY <1>1
    <3>2. W[n][i].half.by \in Peer
      BY <3>1 DEF Frame, Half
    <3>. QED BY <3>2, <1>1, <1>3 DEF ChannelInv, SignalsTied
  <2>. QED BY <2>1 DEF SignalsTied
<1>5. HalvesTied(P2)
  <2>1. ASSUME NEW q \in Peer, NEW h \in P2[q].deriving PROVE Pairs(h.by, q) /\ Tied(P2[h.by], h)
    <3>1. P2[q] \in BlePeer /\ h.by \in Peer
      BY <1>1, KeyOfPeer
    <3>2. CASE q = p
      <4>1. Pairs(h.by, p) /\ Tied(P[h.by], h)
        BY <3>2, <2>1, <1>1
      <4>2. h.by # p
        BY <3>1, <4>1, PairFacts
      <4>. QED BY <3>1, <3>2, <4>1, <4>2, <1>1
    <3>3. CASE q # p
      <4>1. h \in P[q].deriving /\ ~Idle(P[q])
        BY <2>1, <3>3, <1>1 DEF Idle
      <4>2. h.by # p
        BY <4>1, <1>3
      <4>. QED BY <3>1, <4>1, <4>2, <1>1 DEF ChannelInv, HalvesTied
    <3>. QED BY <3>2, <3>3
  <2>. QED BY <2>1 DEF HalvesTied
<1>6. KeysTied(P2, K)
  <2>1. ASSUME NEW q \in Peer, P2[q].half # NoHalf
        PROVE  Pairs(P2[q].half.by, q) /\ (Live(P2, K, q) => Tied(P2[P2[q].half.by], P2[q].half))
    <3>1. q # p /\ P2[q] = P[q] /\ P[q].half.by \in Peer
      BY <2>1, <1>1, KeyOfPeer
    <3>2. Pairs(P[q].half.by, q) /\ (Live(P, K, q) => Tied(P[P[q].half.by], P[q].half))
      BY <2>1, <3>1 DEF ChannelInv, KeysTied
    <3>3. Live(P2, K, q) => Live(P, K, q)
      BY <3>1 DEF Live
    <3>4. ASSUME Live(P, K, q) PROVE P[q].half.by # p
      <4>1. CASE ~Idle(P[q])
        BY <4>1, <1>3
      <4>2. CASE OpensFor(K[LinkOf(q)].fromCentral, P[q], q)
        <5>1. K[LinkOf(q)].fromCentral.rec \in PeripheralRecords(K[LinkOf(q)])
          BY <4>2 DEF OpensFor, PeripheralRecords
        <5>. QED BY <5>1, <4>2, <1>1, <1>3 DEF OpensFor
      <4>3. CASE OpensFor(K[LinkOf(q)].fromPeripheral, P[q], q)
        <5>1. K[LinkOf(q)].fromPeripheral.rec \in CentralRecords(K[LinkOf(q)])
          BY <4>3 DEF OpensFor, CentralRecords
        <5>. QED BY <5>1, <4>3, <1>1, <1>3 DEF OpensFor
      <4>. QED BY <3>4, <4>1, <4>2, <4>3 DEF Live
    <3>. QED BY <3>1, <3>2, <3>3, <3>4, <1>1
  <2>. QED BY <2>1 DEF KeysTied
<1>7. AllEarly(P2)
  <2>1. Early(s)
    <3>1. \A h \in s.deriving : h # NoHalf
      <4>1. \A h \in s.deriving : h.by \in Peer
        BY KeyOfPeer
      <4>. QED BY <4>1, PeerFacts DEF NoHalf
    <3>. QED BY <3>1 DEF Early
  <2>. QED BY <2>1, <1>1 DEF ChannelInv, AllEarly
<1>8. RecordsOK(P2, K)
  <2>1. ASSUME NEW l \in Link, NEW rec, RecordOK(P, l, rec), rec.by # p, rec.to # p
        PROVE  RecordOK(P2, l, rec)
    BY <2>1, <1>1 DEF RecordOK
  <2>. QED BY <2>1, <1>3 DEF ChannelInv, RecordsOK, LinkRecordsOK
<1>9. Attached(P2, K)
  <2>1. K[LinkOf(p)].handler # p /\ K[LinkOf(p)].fromPeripheral.peer # p
    BY <1>1, <1>3
  <2>. QED BY <2>1, <1>1 DEF ChannelInv, Attached
<1>10. \A q, x \in Peer : \A b : q # p /\ Run(P, K, q, x, b) => Run(P2, K, q, x, b)
  BY <1>1 DEF Run
<1>11. \A q \in Peer, x \in Peer : q = p \/ x = p => NoneFrom(QueueTo(K[LinkOf(x)], x), q, x)
  <2>1. ASSUME NEW q \in Peer, NEW x \in Peer, q = p \/ x = p,
               NEW i \in 1 .. Len(QueueTo(K[LinkOf(x)], x)), IsFor(QueueTo(K[LinkOf(x)], x)[i], q, x)
        PROVE  FALSE
    <3>1. QueueTo(K[LinkOf(x)], x)[i] \in CentralRecords(K[LinkOf(x)]) \cup PeripheralRecords(K[LinkOf(x)])
      BY <1>1, RecordFacts DEF QueueTo
    <3>. QED BY <2>1, <3>1, <1>1, <1>3 DEF IsFor
  <2>. QED BY <2>1 DEF NoneFrom
<1>12. AllRun(P2, K)
  <2>1. ASSUME NEW q \in Peer, NEW x \in Peer, Pairs(q, x)
        PROVE  Rising(QueueTo(K[LinkOf(x)], x), q, x) /\ \E b \in 0 .. P2[q].sendCtr : Run(P2, K, q, x, b)
    <3>1. Rising(QueueTo(K[LinkOf(x)], x), q, x) /\ \E b \in 0 .. P[q].sendCtr : Run(P, K, q, x, b)
      BY <2>1 DEF ChannelInv, AllRun
    <3>2. CASE q # p
      BY <3>1, <3>2, <1>1, <1>10
    <3>3. CASE q = p
      <4>1. P2[q].sendCtr \in Nat /\ P2[q].sendCtr \in 0 .. P2[q].sendCtr
        <5>1. P2[q].sendCtr \in Nat
          BY <1>1, KeyOfPeer
        <5>. QED BY <5>1
      <4>2. Run(P2, K, q, x, P2[q].sendCtr)
        BY <4>1, <3>3, <1>11, RunOfNone DEF Run
      <4>. QED BY <3>1, <4>1, <4>2
    <3>. QED BY <3>2, <3>3
  <2>. QED BY <2>1 DEF AllRun
<1>13. Speakers(P2, K)
  <2>1. ASSUME NEW l \in Link PROVE LinkSpeaks(P2, K, l)
    <3>1. LinkSpeaks(P, K, l)
      BY DEF ChannelInv, Speakers
    <3>2. \A rec \in PeripheralRecords(K[l]) : P2[rec.by] = P[rec.by]
      <4>1. \A rec \in PeripheralRecords(K[l]) : rec.by \in Peer /\ rec.by # p
        BY <1>3, RecordFacts DEF RecordOK
      <4>. QED BY <4>1, <1>1
    <3>. QED BY <3>1, <3>2, RecordFacts DEF LinkSpeaks, Identifies, Speaks, Nothing
  <2>. QED BY <2>1 DEF Speakers
<1>14. Taken(P2, K)
  <2>1. ASSUME NEW l \in Link PROVE LinkTaken(P2, K, l)
    <3>1. LinkTaken(P, K, l)
      BY DEF ChannelInv, Taken
    <3>2. \A rec \in PeripheralRecords(K[l]) \cup CentralRecords(K[l]) :
             RunAfter(P, K, rec) => RunAfter(P2, K, rec)
      <4>1. \A rec \in PeripheralRecords(K[l]) \cup CentralRecords(K[l]) :
               rec.by \in Peer /\ rec.to \in Peer /\ rec.by # p
        BY <1>3, RecordFacts DEF RecordOK
      <4>. QED BY <4>1, <1>10 DEF RunAfter
    <3>3. K[l].fromPeripheral.how # "none" => P2[K[l].fromPeripheral.peer] = P[K[l].fromPeripheral.peer]
      BY <1>1, <1>3, RecordFacts
    <3>. QED BY <3>1, <3>2, <3>3, RecordFacts DEF LinkTaken, Identifies
  <2>. QED BY <2>1 DEF Taken
<1>15. AllExpect(P2, K)
  <2>1. ASSUME NEW x \in Peer, P2[x].state = "open", ~P2[x].rekeyed PROVE Expects(P2, K, x)
    <3>1. x # p /\ P2[x] = P[x]
      BY <2>1, <1>1
    <3>. DEFINE q == P[x].half.by
    <3>2. Expects(P, K, x)
      BY <2>1, <3>1 DEF ChannelInv, AllExpect
    <3>3. q \in Peer /\ q # p
      <4>1. P[x].half # NoHalf
        BY <2>1, <3>1 DEF ChannelInv, AllEarly, Early
      <4>2. ~Idle(P[x])
        BY <2>1, <3>1 DEF Idle
      <4>. QED BY <4>1, <4>2, <1>1, <1>3, KeyOfPeer
    <3>4. P2[q] = P[q]
      BY <3>3, <1>1
    <3>5. Run(P, K, q, x, P[x].recvCtr) => Run(P2, K, q, x, P[x].recvCtr)
      BY <3>3, <1>10
    <3>. QED BY <3>1, <3>2, <3>4, <3>5 DEF Expects, Nothing
  <2>. QED BY <2>1 DEF AllExpect
<1>16. ChannelInv(P2, K, W)
  BY <1>2, <1>4, <1>5, <1>6, <1>7, <1>8, <1>9, <1>12, <1>13, <1>14, <1>15 DEF ChannelInv
<1>. QED BY <1>16 DEF P2

----
\* A link whose records go on.

\* The queue to a peer, and what its records are numbered from.
LEMMA QueueTyped ==
  ASSUME NEW P, NEW K, NEW W, ChannelTyped(P, K, W), NEW q \in Peer, NEW x \in Peer
  PROVE  /\ QueueTo(K[LinkOf(x)], x) \in Seq(AnyRecord)
         /\ P[q].sendCtr \in Nat /\ P[q].recvCtr \in Nat
         /\ \A b : Run(P, K, q, x, b) => b \in Nat /\ b \in 0 .. P[q].sendCtr
<1>1. P[q] \in BlePeer /\ K[LinkOf(x)] \in LinkState
  BY PeerFacts DEF ChannelTyped
<1>2. P[q].sendCtr \in Nat /\ P[q].recvCtr \in Nat
  BY <1>1, KeyOfPeer
<1>3. QueueTo(K[LinkOf(x)], x) \in Seq(AnyRecord)
  BY <1>1 DEF QueueTo, LinkState
<1>. QED BY <1>2, <1>3 DEF Run, RunFrom

\* The first record on its way to x.
FirstTo(K, x) == Head(QueueTo(K[LinkOf(x)], x))

\* The first record on its way to x was taken.
FirstGone(K2, K, x) ==
  QueueTo(K[LinkOf(x)], x) # <<>> /\ QueueTo(K2[LinkOf(x)], x) = Tail(QueueTo(K[LinkOf(x)], x))

\* The first record of a queue is taken.
LEMMA RunTaken ==
  ASSUME NEW P, NEW K, NEW W, NEW K2, ChannelInv(P, K, W), NEW q \in Peer, NEW x \in Peer, Pairs(q, x),
         FirstGone(K2, K, x)
  PROVE  /\ Rising(QueueTo(K2[LinkOf(x)], x), q, x)
         /\ \E b \in 0 .. P[q].sendCtr : Run(P, K2, q, x, b)
         /\ \A b : Run(P, K, q, x, b) =>
              /\ IsFor(FirstTo(K, x), q, x) => FirstTo(K, x).ctr = b /\ Run(P, K2, q, x, b + 1)
              /\ ~IsFor(FirstTo(K, x), q, x) => Run(P, K2, q, x, b)
         /\ IsFor(FirstTo(K, x), q, x) => Run(P, K2, q, x, FirstTo(K, x).ctr + 1)
<1>. DEFINE Q == QueueTo(K[LinkOf(x)], x)
            top == P[q].sendCtr
            going == P[q].half.by = x
<1>1. Q \in Seq(AnyRecord) /\ top \in Nat /\ \A b : Run(P, K, q, x, b) => b \in Nat
  BY QueueTyped DEF ChannelInv
<1>12. Q # <<>> /\ QueueTo(K2[LinkOf(x)], x) = Tail(Q) /\ FirstTo(K, x) = Head(Q)
  BY DEF FirstGone, FirstTo
<1>2. Rising(Q, q, x) /\ \E b \in 0 .. top : Run(P, K, q, x, b)
  BY DEF ChannelInv, AllRun
<1>3. Rising(Tail(Q), q, x)
  BY <1>1, <1>2, <1>12, RisingTail
<1>4. \A b : Run(P, K, q, x, b) <=> RunFrom(Q, q, x, b, top, going)
  BY DEF Run
<1>5. \A b : Run(P, K2, q, x, b) <=> RunFrom(Tail(Q), q, x, b, top, going)
  BY <1>12 DEF Run
<1>6. going \in BOOLEAN
  OBVIOUS
<1>. HIDE DEF top, going, Q
<1>7. ASSUME NEW b, Run(P, K, q, x, b)
      PROVE  /\ IsFor(Head(Q), q, x) => Head(Q).ctr = b /\ Run(P, K2, q, x, b + 1)
             /\ ~IsFor(Head(Q), q, x) => Run(P, K2, q, x, b)
  BY <1>1, <1>2, <1>4, <1>5, <1>6, <1>7, <1>12, RunTailMine, RunTailOther
<1>8. PICK b \in 0 .. top : Run(P, K, q, x, b)
  BY <1>2
<1>9. \E c : Run(P, K2, q, x, c)
  BY <1>7, <1>8
<1>10. \E c \in 0 .. top : Run(P, K2, q, x, c)
  <2>1. PICK c : Run(P, K2, q, x, c)
    BY <1>9
  <2>2. c \in Nat /\ c <= top
    BY <2>1, <1>5 DEF RunFrom
  <2>. QED BY <2>1, <2>2, <1>1
<1>11. IsFor(Head(Q), q, x) => Run(P, K2, q, x, Head(Q).ctr + 1)
  BY <1>7, <1>8
<1>. QED BY <1>3, <1>7, <1>10, <1>11, <1>12 DEF top

\* One link goes on; what is new there is to hold, the others are as they were.
LEMMA LinkStep ==
  ASSUME NEW P, NEW K, NEW W, NEW K2, ChannelInv(P, K, W), NEW l \in Link, NEW k2 \in LinkState,
         JobsHavePeers(k2), K2 = [K EXCEPT ![l] = k2], LinkFit(l, k2),
         CentralRecords(k2) \subseteq CentralRecords(K[l]),
         PeripheralRecords(k2) \subseteq PeripheralRecords(K[l]),
         k2.handler = K[l].handler,
         k2.fromPeripheral.peer \in {K[l].fromPeripheral.peer, K[l].handler, NoPeer},
         \A x \in Peer : OpensFor(k2.fromCentral, P[x], x) \/ OpensFor(k2.fromPeripheral, P[x], x)
                           => Live(P, K, x),
         \A x \in Peer, q \in Peer : LinkOf(x) = l /\ Pairs(q, x) =>
           Rising(QueueTo(k2, x), q, x) /\ \E b \in 0 .. P[q].sendCtr : Run(P, K2, q, x, b),
         LinkSpeaks(P, K2, l), LinkTaken(P, K2, l),
         \A x \in Peer : LinkOf(x) = l /\ P[x].state = "open" /\ ~P[x].rekeyed => Expects(P, K2, x)
  PROVE  ChannelInv(P, K2, W)
<1>1. /\ K \in [Link -> LinkState] /\ \A m \in Link : JobsHavePeers(K[m])
      /\ K2 \in [Link -> LinkState] /\ K2[l] = k2 /\ \A m \in Link : m # l => K2[m] = K[m]
      /\ \A x \in Peer : LinkOf(x) \in Link
  BY PeerFacts DEF ChannelInv, ChannelTyped
<1>2. ChannelTyped(P, K2, W)
  BY <1>1 DEF ChannelInv, ChannelTyped
<1>3. KeysTied(P, K2)
  <2>1. ASSUME NEW x \in Peer, Live(P, K2, x) PROVE Live(P, K, x)
    <3>1. CASE LinkOf(x) = l
      BY <2>1, <3>1, <1>1 DEF Live
    <3>2. CASE LinkOf(x) # l
      BY <2>1, <3>2, <1>1 DEF Live
    <3>. QED BY <3>1, <3>2
  <2>. QED BY <2>1 DEF ChannelInv, KeysTied
<1>4. RecordsOK(P, K2)
  BY <1>1 DEF ChannelInv, RecordsOK, LinkRecordsOK
<1>5. AllLinksFit(K2)
  BY <1>1 DEF ChannelInv, AllLinksFit
<1>6. Attached(P, K2)
  <2>1. \A x \in Peer : K[LinkOf(x)].handler # x /\ K[LinkOf(x)].fromPeripheral.peer # x =>
                        K2[LinkOf(x)].handler # x /\ K2[LinkOf(x)].fromPeripheral.peer # x
    BY <1>1, PeerFacts
  <2>. QED BY <2>1 DEF ChannelInv, Attached
<1>7. \A q, x \in Peer : \A b : LinkOf(x) # l /\ Run(P, K, q, x, b) => Run(P, K2, q, x, b)
  BY <1>1 DEF Run
<1>8. AllRun(P, K2)
  <2>1. ASSUME NEW q \in Peer, NEW x \in Peer, Pairs(q, x)
        PROVE  Rising(QueueTo(K2[LinkOf(x)], x), q, x) /\ \E b \in 0 .. P[q].sendCtr : Run(P, K2, q, x, b)
    <3>1. CASE LinkOf(x) = l
      BY <2>1, <3>1, <1>1
    <3>2. CASE LinkOf(x) # l
      BY <2>1, <3>2, <1>1, <1>7 DEF ChannelInv, AllRun
    <3>. QED BY <3>1, <3>2
  <2>. QED BY <2>1 DEF AllRun
<1>9. Speakers(P, K2)
  <2>1. ASSUME NEW m \in Link, m # l PROVE LinkSpeaks(P, K2, m)
    <3>1. LinkSpeaks(P, K, m) /\ K2[m] = K[m]
      BY <2>1, <1>1 DEF ChannelInv, Speakers
    <3>2. \A rec \in PeripheralRecords(K[m]) : LinkOf(rec.to) = m
      BY RecordFacts DEF RecordOK
    <3>. QED BY <3>1, <3>2, RecordFacts DEF LinkSpeaks, Nothing
  <2>. QED BY <2>1 DEF Speakers
<1>10. Taken(P, K2)
  <2>1. ASSUME NEW m \in Link, m # l PROVE LinkTaken(P, K2, m)
    <3>1. LinkTaken(P, K, m) /\ K2[m] = K[m]
      BY <2>1, <1>1 DEF ChannelInv, Taken
    <3>2. \A rec \in PeripheralRecords(K[m]) \cup CentralRecords(K[m]) :
             RunAfter(P, K, rec) => RunAfter(P, K2, rec)
      <4>1. \A rec \in PeripheralRecords(K[m]) \cup CentralRecords(K[m]) :
               rec.by \in Peer /\ rec.to \in Peer /\ LinkOf(rec.to) = m
        BY RecordFacts DEF RecordOK
      <4>. QED BY <4>1, <2>1, <1>7 DEF RunAfter
    <3>. QED BY <3>1, <3>2, RecordFacts DEF LinkTaken, Identifies
  <2>. QED BY <2>1 DEF Taken
<1>11. AllExpect(P, K2)
  <2>1. ASSUME NEW x \in Peer, P[x].state = "open", ~P[x].rekeyed PROVE Expects(P, K2, x)
    <3>1. CASE LinkOf(x) = l
      BY <2>1, <3>1
    <3>2. CASE LinkOf(x) # l
      <4>. DEFINE q == P[x].half.by
      <4>1. Expects(P, K, x) /\ K2[LinkOf(x)] = K[LinkOf(x)]
        BY <2>1, <3>2, <1>1 DEF ChannelInv, AllExpect
      <4>2. q \in Peer
        <5>1. P[x].half # NoHalf /\ P[x] \in BlePeer
          BY <2>1 DEF ChannelInv, AllEarly, Early, ChannelTyped
        <5>. QED BY <5>1, KeyOfPeer
      <4>3. Run(P, K, q, x, P[x].recvCtr) => Run(P, K2, q, x, P[x].recvCtr)
        BY <4>2, <3>2, <1>7
      <4>. QED BY <4>1, <4>3 DEF Expects, Nothing
    <3>. QED BY <3>1, <3>2
  <2>. QED BY <2>1 DEF AllExpect
<1>. QED BY <1>2, <1>3, <1>4, <1>5, <1>6, <1>8, <1>9, <1>10, <1>11 DEF ChannelInv

\* A link's entries, and what is known of it.
LEMMA LinkKnown ==
  ASSUME NEW P, NEW K, NEW W, ChannelInv(P, K, W), NEW l \in Link
  PROVE  /\ K[l] \in LinkState /\ JobsHavePeers(K[l]) /\ LinkFit(l, K[l])
         /\ LinkSpeaks(P, K, l) /\ LinkTaken(P, K, l)
         /\ K[l].toCentral \in Seq(AnyRecord) /\ K[l].toPeripheral \in Seq(AnyRecord)
         /\ K[l].fromCentral.gone \in BOOLEAN
<1>1. K[l] \in LinkState
  BY DEF ChannelInv, ChannelTyped
<1>2. K[l].fromCentral \in AnyJob
  BY <1>1 DEF LinkState
<1>3. K[l].fromCentral.gone \in BOOLEAN
  BY <1>2 DEF AnyJob
<1>. QED BY <1>1, <1>3 DEF ChannelInv, ChannelTyped, AllLinksFit, Speakers, Taken, LinkState

\* An open peer at a link, and its partner.
LEMMA OpenKnown ==
  ASSUME NEW P, NEW K, NEW W, ChannelInv(P, K, W), NEW x \in Peer, P[x].state = "open", ~P[x].rekeyed
  PROVE  /\ Expects(P, K, x) /\ P[x].half.by \in Peer /\ Pairs(P[x].half.by, x)
         /\ P[x].recvCtr \in Nat
<1>1. P[x] \in BlePeer
  BY DEF ChannelInv, ChannelTyped
<1>2. P[x].half # NoHalf
  BY DEF ChannelInv, AllEarly, Early
<1>3. P[x].half.by \in Peer /\ Pairs(P[x].half.by, x) /\ P[x].recvCtr \in Nat
  BY <1>1, <1>2, KeyOfPeer DEF ChannelInv, KeysTied
<1>. QED BY <1>3 DEF ChannelInv, AllExpect

\* A hello is taken up: from the queue, to be tried again, or still being tried ...
TakenUp(k, k2, rec, gone) ==
  \/ /\ k.fromCentral = NoJob /\ ~gone
     /\ k.toPeripheral # <<>> /\ rec = Head(k.toPeripheral) /\ k2.toPeripheral = Tail(k.toPeripheral)
  \/ /\ k.fromCentral = NoJob /\ ~gone
     /\ rec = k.hello /\ rec # NoRecord /\ k2.toPeripheral = k.toPeripheral
  \/ /\ k.fromCentral.how = "identify" /\ gone = k.fromCentral.gone
     /\ rec = k.fromCentral.rec /\ k2.toPeripheral = k.toPeripheral

\* ... and kept, or tried on a peer.
KeptOrTried(P, k, k2, rec, gone) ==
  \/ k2.fromCentral = NoJob /\ k2.hello = IF gone THEN k.hello ELSE rec
  \/ /\ k2.fromCentral.how = "identify" /\ k2.fromCentral.rec = rec /\ k2.fromCentral.gone = gone
     /\ k2.hello = k.hello
     /\ ~Idle(P[k2.fromCentral.peer]) /\ ~IsCentral(k2.fromCentral.peer)

\* A hello that is looked into keeps the invariant.
LEMMA HeldStep ==
  ASSUME NEW P, NEW K, NEW W, NEW K2, ChannelInv(P, K, W), NEW l \in Link, NEW k2 \in LinkState,
         JobsHavePeers(k2), K2 = [K EXCEPT ![l] = k2], NEW rec, NEW gone \in BOOLEAN,
         K[l].owner = NoPeer, k2.owner = NoPeer, k2.handler = K[l].handler,
         k2.toCentral = K[l].toCentral, k2.fromPeripheral = K[l].fromPeripheral, k2.retry => K[l].retry,
         TakenUp(K[l], k2, rec, gone), KeptOrTried(P, K[l], k2, rec, gone)
  PROVE  ChannelInv(P, K2, W)
<1>. DEFINE k == K[l]
<1>1. /\ k \in LinkState /\ LinkFit(l, k) /\ LinkSpeaks(P, K, l) /\ LinkTaken(P, K, l) /\ K2[l] = k2
      /\ k.toPeripheral \in Seq(AnyRecord) /\ JobsHavePeers(k)
  <2>1. K \in [Link -> LinkState]
    BY DEF ChannelInv, ChannelTyped
  <2>. QED BY <2>1, LinkKnown
<1>2. /\ k.toPeripheral # <<>> => \A i \in 1 .. Len(Tail(k.toPeripheral)) :
           \E j \in 1 .. Len(k.toPeripheral) : Tail(k.toPeripheral)[i] = k.toPeripheral[j]
      /\ k.toPeripheral # <<>> => \E j \in 1 .. Len(k.toPeripheral) : Head(k.toPeripheral) = k.toPeripheral[j]
  <2>1. ASSUME k.toPeripheral # <<>>
        PROVE  /\ \A i \in 1 .. Len(Tail(k.toPeripheral)) :
                    Tail(k.toPeripheral)[i] = k.toPeripheral[i + 1] /\ i + 1 \in 1 .. Len(k.toPeripheral)
               /\ Head(k.toPeripheral) = k.toPeripheral[1] /\ 1 \in 1 .. Len(k.toPeripheral)
    BY <1>1, <2>1, TailEntries
  <2>. QED BY <2>1
<1>3. \A i \in 1 .. Len(k2.toPeripheral) :
         \E j \in 1 .. Len(k.toPeripheral) : k2.toPeripheral[i] = k.toPeripheral[j]
  BY <1>2 DEF TakenUp
<1>4. /\ rec \in PeripheralRecords(k)
      /\ ~gone => Speaks(P, rec)
      /\ gone => k.fromCentral.how = "identify" /\ Nothing(P, K, rec.by, rec.to)
  <2>1. CASE k.toPeripheral # <<>> /\ rec = Head(k.toPeripheral) /\ ~gone
    <3>1. PICK j \in 1 .. Len(k.toPeripheral) : rec = k.toPeripheral[j]
      BY <1>2, <2>1
    <3>. QED BY <3>1, <2>1, <1>1 DEF PeripheralRecords, LinkSpeaks
  <2>2. CASE rec = k.hello /\ rec # NoRecord /\ ~gone
    BY <2>2, <1>1 DEF PeripheralRecords, LinkSpeaks
  <2>3. CASE k.fromCentral.how = "identify" /\ gone = k.fromCentral.gone /\ rec = k.fromCentral.rec
    BY <2>3, <1>1 DEF PeripheralRecords, LinkSpeaks, Identifies
  <2>. QED BY <2>1, <2>2, <2>3 DEF TakenUp
<1>5. rec.by \in Peer /\ rec.to \in Peer /\ Pairs(rec.by, rec.to) /\ LinkOf(rec.to) = l /\ ~IsCentral(rec.to)
      /\ rec # NoRecord
  BY <1>4, RecordFacts, PeerFacts DEF RecordOK, NoRecord
<1>6. \A x \in Peer : LinkOf(x) = l =>
         /\ IsCentral(x) => QueueTo(K2[LinkOf(x)], x) = QueueTo(K[LinkOf(x)], x)
         /\ ~IsCentral(x) => QueueTo(K2[LinkOf(x)], x) = k2.toPeripheral
                             /\ QueueTo(K[LinkOf(x)], x) = k.toPeripheral
  BY <1>1 DEF QueueTo
<1>7. ASSUME NEW x \in Peer, NEW q \in Peer, LinkOf(x) = l, Pairs(q, x),
             QueueTo(K2[LinkOf(x)], x) = QueueTo(K[LinkOf(x)], x)
      PROVE  /\ Rising(QueueTo(K2[LinkOf(x)], x), q, x)
             /\ \E b \in 0 .. P[q].sendCtr : Run(P, K2, q, x, b)
             /\ \A b : Run(P, K, q, x, b) => Run(P, K2, q, x, b)
  BY <1>7 DEF ChannelInv, AllRun, Run
<1>8. ASSUME NEW x \in Peer, NEW q \in Peer, LinkOf(x) = l, Pairs(q, x), ~IsCentral(x),
             k.toPeripheral # <<>>, rec = Head(k.toPeripheral), k2.toPeripheral = Tail(k.toPeripheral)
      PROVE  /\ Rising(QueueTo(K2[LinkOf(x)], x), q, x)
             /\ \E b \in 0 .. P[q].sendCtr : Run(P, K2, q, x, b)
             /\ \A b : Run(P, K, q, x, b) /\ ~IsFor(rec, q, x) => Run(P, K2, q, x, b)
             /\ IsFor(rec, q, x) => Run(P, K2, q, x, rec.ctr + 1)
  <2>1. FirstGone(K2, K, x) /\ rec = FirstTo(K, x)
    BY <1>6, <1>8 DEF FirstGone, FirstTo
  <2>2. /\ Rising(QueueTo(K2[LinkOf(x)], x), q, x)
        /\ \E b \in 0 .. P[q].sendCtr : Run(P, K2, q, x, b)
        /\ \A b : Run(P, K, q, x, b) /\ ~IsFor(FirstTo(K, x), q, x) => Run(P, K2, q, x, b)
        /\ IsFor(FirstTo(K, x), q, x) => Run(P, K2, q, x, FirstTo(K, x).ctr + 1)
    <3>1. FirstGone(K2, K, x) /\ Pairs(q, x)
      BY <1>8, <2>1
    <3>. HIDE DEF k
    <3>. QED BY ONLY <3>1, RunTaken, ChannelInv(P, K, W), x \in Peer, q \in Peer
  <2>. QED BY <2>1, <2>2
<1>9. ASSUME NEW x \in Peer, NEW q \in Peer, LinkOf(x) = l, Pairs(q, x)
      PROVE  Rising(QueueTo(k2, x), q, x) /\ \E b \in 0 .. P[q].sendCtr : Run(P, K2, q, x, b)
  <2>1. QueueTo(K2[LinkOf(x)], x) = QueueTo(k2, x)
    BY <1>1, <1>9
  <2>2. CASE IsCentral(x) \/ k2.toPeripheral = k.toPeripheral
    BY <2>1, <2>2, <1>6, <1>7, <1>9
  <2>3. CASE ~IsCentral(x) /\ k2.toPeripheral # k.toPeripheral
    <3>1. k.toPeripheral # <<>> /\ rec = Head(k.toPeripheral) /\ k2.toPeripheral = Tail(k.toPeripheral)
      BY <2>3 DEF TakenUp
    <3>. QED BY <2>1, <2>3, <3>1, <1>8, <1>9
  <2>. QED BY <2>2, <2>3
<1>10. ASSUME ~gone PROVE RunAfter(P, K2, rec)
  <2>1. IsFor(rec, rec.by, rec.to)
    BY DEF IsFor
  <2>2. CASE k.toPeripheral # <<>> /\ rec = Head(k.toPeripheral) /\ k2.toPeripheral = Tail(k.toPeripheral)
    BY <2>1, <2>2, <1>5, <1>8 DEF RunAfter
  <2>3. ASSUME k2.toPeripheral = k.toPeripheral, RunAfter(P, K, rec) PROVE RunAfter(P, K2, rec)
    <3>1. QueueTo(K2[LinkOf(rec.to)], rec.to) = QueueTo(K[LinkOf(rec.to)], rec.to)
      BY <2>3, <1>5, <1>6
    <3>. QED BY <2>3, <3>1, <1>5, <1>7 DEF RunAfter
  <2>4. CASE k2.toPeripheral = k.toPeripheral /\ rec = k.hello /\ rec # NoRecord /\ k.fromCentral = NoJob
    <3>1. RunAfter(P, K, rec)
      BY <2>4, <1>1 DEF LinkTaken, Identifies, NoJob
    <3>. QED BY <2>3, <2>4, <3>1
  <2>5. CASE /\ k2.toPeripheral = k.toPeripheral
             /\ k.fromCentral.how = "identify" /\ gone = k.fromCentral.gone /\ rec = k.fromCentral.rec
    <3>1. RunAfter(P, K, rec)
      BY <2>5, <1>1, <1>10 DEF LinkTaken, Identifies
    <3>. QED BY <2>3, <2>5, <3>1
  <2>. QED BY <2>2, <2>4, <2>5 DEF TakenUp
<1>11. ASSUME k2.hello = k.hello, k2.hello # NoRecord,
              k2.fromCentral.how = "identify", ~IsFor(rec, k2.hello.by, k2.hello.to)
       PROVE  RunAfter(P, K2, k2.hello)
  <2>. DEFINE h == k2.hello
  <2>1. h.by \in Peer /\ h.to \in Peer /\ Pairs(h.by, h.to) /\ LinkOf(h.to) = l /\ ~IsCentral(h.to)
    BY <1>11, RecordFacts DEF RecordOK
  <2>2. RunAfter(P, K, h)
    <3>1. /\ ~(Identifies(k.fromCentral) /\ IsFor(k.fromCentral.rec, h.by, h.to))
          /\ k.fromCentral.how # "thrown"
      BY <1>11 DEF TakenUp, Identifies, NoJob
    <3>. QED BY <3>1, <1>1, <1>11 DEF LinkTaken
  <2>3. CASE k2.toPeripheral = k.toPeripheral
    <3>1. QueueTo(K2[LinkOf(h.to)], h.to) = QueueTo(K[LinkOf(h.to)], h.to)
      BY <2>1, <2>3, <1>6
    <3>. QED BY <2>1, <2>2, <3>1, <1>7 DEF RunAfter
  <2>4. CASE k2.toPeripheral # k.toPeripheral
    <3>1. k.toPeripheral # <<>> /\ rec = Head(k.toPeripheral) /\ k2.toPeripheral = Tail(k.toPeripheral)
      BY <2>4 DEF TakenUp
    <3>. QED BY <2>1, <2>2, <3>1, <1>8, <1>11 DEF RunAfter
  <2>. QED BY <2>3, <2>4
<1>12. gone => k.hello = NoRecord
  BY <1>1, <1>4 DEF LinkFit, TakenUp
<1>13. LinkFit(l, k2)
  <2>1. k2.fromCentral.how \in {"none", "identify"} /\ k2.owner = NoPeer
    BY DEF KeptOrTried, NoJob
  <2>2. k2.fromCentral.how = "identify" => k2.fromCentral.gone = gone /\ k2.hello = k.hello
                                           /\ ~IsCentral(k2.fromCentral.peer)
    BY DEF KeptOrTried, NoJob
  <2>3. k2.retry => k2.hello # NoRecord
    BY <1>1, <1>5, <1>12 DEF KeptOrTried, LinkFit
  <2>. QED BY <2>1, <2>2, <2>3, <1>1, <1>12 DEF LinkFit
<1>14. CentralRecords(k2) \subseteq CentralRecords(k) /\ PeripheralRecords(k2) \subseteq PeripheralRecords(k)
  <2>1. CentralRecords(k2) = CentralRecords(k)
    BY DEF CentralRecords
  <2>2. k2.hello # NoRecord => k2.hello \in PeripheralRecords(k)
    BY <1>4 DEF KeptOrTried, PeripheralRecords
  <2>3. k2.fromCentral.how # "none" => k2.fromCentral.rec \in PeripheralRecords(k)
    BY <1>4 DEF KeptOrTried, NoJob
  <2>4. \A i \in 1 .. Len(k2.toPeripheral) : k2.toPeripheral[i] \in PeripheralRecords(k)
    BY <1>3 DEF PeripheralRecords
  <2>5. \A z \in PeripheralRecords(k2) :
          \/ \E i \in 1 .. Len(k2.toPeripheral) : z = k2.toPeripheral[i]
          \/ k2.hello # NoRecord /\ z = k2.hello
          \/ k2.fromCentral.how # "none" /\ z = k2.fromCentral.rec
    BY DEF PeripheralRecords
  <2>. QED BY <2>1, <2>2, <2>3, <2>4, <2>5
<1>15. \A x \in Peer : OpensFor(k2.fromCentral, P[x], x) \/ OpensFor(k2.fromPeripheral, P[x], x)
                         => Live(P, K, x)
  <2>1. ASSUME NEW x \in Peer, OpensFor(k2.fromCentral, P[x], x) PROVE ~Idle(P[x])
    BY <2>1 DEF OpensFor, KeptOrTried, NoJob
  <2>2. ASSUME NEW x \in Peer, OpensFor(k2.fromPeripheral, P[x], x) PROVE Live(P, K, x)
    <3>1. LinkOf(x) = l
      BY <2>2, <1>1 DEF OpensFor, LinkFit
    <3>. QED BY <2>2, <3>1 DEF Live
  <2>. QED BY <2>1, <2>2 DEF Live
<1>16. ASSUME NEW q \in Peer, NEW x \in Peer, LinkOf(x) = l, Nothing(P, K, q, x), ~IsCentral(x)
       PROVE  Nothing(P, K2, q, x)
  BY <1>1, <1>3, <1>16 DEF Nothing, NoneFrom
<1>17. LinkSpeaks(P, K2, l)
  <2>1. \A i \in 1 .. Len(k2.toPeripheral) : Speaks(P, k2.toPeripheral[i])
    BY <1>1, <1>3 DEF LinkSpeaks
  <2>2. k2.hello # NoRecord => Speaks(P, k2.hello)
    BY <1>1, <1>4, <1>12 DEF LinkSpeaks, KeptOrTried
  <2>3. Identifies(k2.fromCentral) => Speaks(P, k2.fromCentral.rec)
    BY <1>4 DEF KeptOrTried, Identifies, NoJob
  <2>4. k2.fromCentral.how = "identify" /\ k2.fromCentral.gone =>
          Nothing(P, K2, k2.fromCentral.rec.by, k2.fromCentral.rec.to)
    <3>1. SUFFICES ASSUME k2.fromCentral.how = "identify", k2.fromCentral.gone
                   PROVE  Nothing(P, K2, k2.fromCentral.rec.by, k2.fromCentral.rec.to)
      OBVIOUS
    <3>2. k2.fromCentral.rec = rec /\ gone
      <4>1. k2.fromCentral.how # "none"
        BY <3>1
      <4>2. k2.fromCentral # NoJob
        BY <4>1 DEF NoJob
      <4>3. k2.fromCentral.rec = rec /\ k2.fromCentral.gone = gone
        BY <4>2 DEF KeptOrTried
      <4>. QED BY <3>1, <4>3
    <3>3. Nothing(P, K, rec.by, rec.to)
      BY <3>2, <1>4
    <3>. QED BY <3>2, <3>3, <1>5, <1>16
  <2>. QED BY <2>1, <2>2, <2>3, <2>4, <1>1 DEF LinkSpeaks
<1>18. LinkTaken(P, K2, l)
  <2>1. Identifies(k2.fromCentral) => RunAfter(P, K2, k2.fromCentral.rec)
    BY <1>10 DEF KeptOrTried, Identifies, NoJob
  <2>2. k2.hello # NoRecord
        /\ ~(Identifies(k2.fromCentral) /\ IsFor(k2.fromCentral.rec, k2.hello.by, k2.hello.to))
          => RunAfter(P, K2, k2.hello)
    <3>1. CASE k2.fromCentral = NoJob
      BY <3>1, <1>10, <1>12 DEF KeptOrTried, NoJob
    <3>2. CASE k2.fromCentral.how = "identify"
      BY <3>2, <1>11, <1>12 DEF KeptOrTried, Identifies, NoJob
    <3>. QED BY <3>1, <3>2 DEF KeptOrTried
  <2>3. k2.fromCentral.how # "record"
    BY DEF KeptOrTried, NoJob
  <2>4. k2.fromPeripheral.how = "record" /\ k2.handler = k2.fromPeripheral.peer /\ ~P[k2.handler].rekeyed
          => RunAfter(P, K2, k2.fromPeripheral.rec)
    <3>1. SUFFICES ASSUME k.fromPeripheral.how = "record", k.handler = k.fromPeripheral.peer,
                          ~P[k.handler].rekeyed
                   PROVE  RunAfter(P, K2, k.fromPeripheral.rec)
      OBVIOUS
    <3>. DEFINE z == k.fromPeripheral.rec
    <3>2. z.by \in Peer /\ z.to \in Peer /\ Pairs(z.by, z.to) /\ LinkOf(z.to) = l /\ IsCentral(z.to)
      BY <3>1, RecordFacts DEF RecordOK
    <3>3. RunAfter(P, K, z)
      BY <3>1, <1>1 DEF LinkTaken
    <3>. QED BY <3>2, <3>3, <1>6, <1>7 DEF RunAfter
  <2>. QED BY <2>1, <2>2, <2>3, <2>4, <1>1 DEF LinkTaken
<1>19. ASSUME NEW x \in Peer, LinkOf(x) = l, P[x].state = "open", ~P[x].rekeyed PROVE Expects(P, K2, x)
  <2>. DEFINE q == P[x].half.by
  <2>1. Expects(P, K, x) /\ q \in Peer /\ Pairs(q, x)
    BY <1>19, OpenKnown
  <2>2. CASE IsCentral(x)
    <3>1. Run(P, K, q, x, P[x].recvCtr) => Run(P, K2, q, x, P[x].recvCtr)
      BY <2>1, <2>2, <1>6, <1>7, <1>19
    <3>. QED BY <2>1, <2>2, <3>1, <1>1, <1>19 DEF Expects, JobAt, Hearing
  <2>3. CASE ~IsCentral(x)
    <3>1. k.owner # x /\ k2.owner # x /\ k2.fromCentral.how # "record"
      BY PeerFacts DEF KeptOrTried, NoJob
    <3>2. Nothing(P, K, q, x)
      BY <2>1, <2>3, <3>1, <1>19 DEF Expects
    <3>. QED BY <2>1, <2>3, <3>1, <3>2, <1>1, <1>16, <1>19 DEF Expects, Hearing
  <2>. QED BY <2>2, <2>3
<1>. QED BY <1>9, <1>13, <1>14, <1>15, <1>17, <1>18, <1>19, LinkStep

\* What is on its way is as it was.
LEMMA SameQueue ==
  ASSUME NEW P, NEW K, NEW W, NEW K2, ChannelInv(P, K, W), NEW q \in Peer, NEW x \in Peer, Pairs(q, x),
         QueueTo(K2[LinkOf(x)], x) = QueueTo(K[LinkOf(x)], x)
  PROVE  /\ Rising(QueueTo(K2[LinkOf(x)], x), q, x)
         /\ \E b \in 0 .. P[q].sendCtr : Run(P, K2, q, x, b)
         /\ \A b : Run(P, K, q, x, b) => Run(P, K2, q, x, b)
BY DEF ChannelInv, AllRun, Run

\* A central's record that goes to its peer keeps the invariant.
LEMMA OwnedStep ==
  ASSUME NEW P, NEW K, NEW W, NEW K2, ChannelInv(P, K, W), NEW l \in Link, NEW k2 \in LinkState,
         JobsHavePeers(k2), K2 = [K EXCEPT ![l] = k2],
         K[l].fromCentral = NoJob, K[l].owner # NoPeer, ~Idle(P[K[l].owner]), K[l].toPeripheral # <<>>,
         k2.toPeripheral = Tail(K[l].toPeripheral),
         k2.fromCentral.how = "record", k2.fromCentral.rec = Head(K[l].toPeripheral),
         k2.fromCentral.peer = K[l].owner,
         k2.owner = K[l].owner, k2.handler = K[l].handler, k2.hello = K[l].hello, k2.retry = K[l].retry,
         k2.toCentral = K[l].toCentral, k2.fromPeripheral = K[l].fromPeripheral
  PROVE  ChannelInv(P, K2, W)
<1>. DEFINE k == K[l]
            rec == Head(k.toPeripheral)
<1>1. /\ k \in LinkState /\ LinkFit(l, k) /\ LinkSpeaks(P, K, l) /\ LinkTaken(P, K, l) /\ K2[l] = k2
      /\ k.toPeripheral \in Seq(AnyRecord) /\ JobsHavePeers(k)
  <2>1. K \in [Link -> LinkState]
    BY DEF ChannelInv, ChannelTyped
  <2>. QED BY <2>1, LinkKnown
<1>2. /\ \A i \in 1 .. Len(k2.toPeripheral) :
           k2.toPeripheral[i] = k.toPeripheral[i + 1] /\ i + 1 \in 1 .. Len(k.toPeripheral)
      /\ rec = k.toPeripheral[1] /\ 1 \in 1 .. Len(k.toPeripheral)
  BY <1>1, TailEntries
<1>3. /\ rec \in PeripheralRecords(k)
      /\ \A i \in 1 .. Len(k2.toPeripheral) : k2.toPeripheral[i] \in PeripheralRecords(k)
  BY <1>2 DEF PeripheralRecords
<1>4. rec.by \in Peer /\ rec.to \in Peer /\ Pairs(rec.by, rec.to) /\ LinkOf(rec.to) = l /\ ~IsCentral(rec.to)
  BY <1>3, RecordFacts DEF RecordOK
<1>5. /\ k.hello = NoRecord /\ LinkOf(k.owner) = l /\ ~IsCentral(k.owner) /\ k.owner \in Peer
      /\ k.fromCentral.how = "none"
  <2>1. k.owner \in PeerOrNone
    BY <1>1 DEF LinkState
  <2>. QED BY <2>1, <1>1 DEF LinkFit, PeerOrNone, NoJob
<1>6. \A x \in Peer : LinkOf(x) = l =>
         /\ IsCentral(x) => QueueTo(K2[LinkOf(x)], x) = QueueTo(K[LinkOf(x)], x)
         /\ ~IsCentral(x) => FirstGone(K2, K, x) /\ FirstTo(K, x) = rec
  BY <1>1 DEF QueueTo, FirstGone, FirstTo
<1>7. ASSUME NEW x \in Peer, NEW q \in Peer, LinkOf(x) = l, Pairs(q, x), IsCentral(x)
      PROVE  /\ Rising(QueueTo(K2[LinkOf(x)], x), q, x)
             /\ \E b \in 0 .. P[q].sendCtr : Run(P, K2, q, x, b)
             /\ \A b : Run(P, K, q, x, b) => Run(P, K2, q, x, b)
  <2>1. QueueTo(K2[LinkOf(x)], x) = QueueTo(K[LinkOf(x)], x) /\ Pairs(q, x)
    BY <1>6, <1>7
  <2>. QED BY ONLY <2>1, SameQueue, ChannelInv(P, K, W), x \in Peer, q \in Peer
<1>8. ASSUME NEW x \in Peer, NEW q \in Peer, LinkOf(x) = l, Pairs(q, x), ~IsCentral(x)
      PROVE  /\ Rising(QueueTo(K2[LinkOf(x)], x), q, x)
             /\ \E b \in 0 .. P[q].sendCtr : Run(P, K2, q, x, b)
             /\ \A b : Run(P, K, q, x, b) =>
                  /\ IsFor(rec, q, x) => rec.ctr = b
                  /\ ~IsFor(rec, q, x) => Run(P, K2, q, x, b)
             /\ IsFor(rec, q, x) => Run(P, K2, q, x, rec.ctr + 1)
  <2>1. FirstGone(K2, K, x) /\ Pairs(q, x) /\ FirstTo(K, x) = rec
    BY <1>6, <1>8
  <2>. HIDE DEF rec
  <2>. QED BY ONLY <2>1, RunTaken, ChannelInv(P, K, W), x \in Peer, q \in Peer
<1>9. ASSUME NEW x \in Peer, NEW q \in Peer, LinkOf(x) = l, Pairs(q, x)
      PROVE  Rising(QueueTo(k2, x), q, x) /\ \E b \in 0 .. P[q].sendCtr : Run(P, K2, q, x, b)
  <2>1. QueueTo(K2[LinkOf(x)], x) = QueueTo(k2, x)
    BY <1>1, <1>9
  <2>. QED BY <2>1, <1>7, <1>8, <1>9
<1>10. LinkFit(l, k2)
  BY <1>1, <1>5 DEF LinkFit
<1>11. CentralRecords(k2) \subseteq CentralRecords(k) /\ PeripheralRecords(k2) \subseteq PeripheralRecords(k)
  <2>1. CentralRecords(k2) = CentralRecords(k)
    BY DEF CentralRecords
  <2>2. \A z \in PeripheralRecords(k2) :
          \/ \E i \in 1 .. Len(k2.toPeripheral) : z = k2.toPeripheral[i]
          \/ z = rec
    BY <1>5 DEF PeripheralRecords
  <2>. QED BY <2>1, <2>2, <1>3
<1>12. \A x \in Peer : OpensFor(k2.fromCentral, P[x], x) \/ OpensFor(k2.fromPeripheral, P[x], x)
                         => Live(P, K, x)
  <2>1. ASSUME NEW x \in Peer, OpensFor(k2.fromCentral, P[x], x) PROVE ~Idle(P[x])
    BY <2>1 DEF OpensFor
  <2>2. ASSUME NEW x \in Peer, OpensFor(k2.fromPeripheral, P[x], x) PROVE Live(P, K, x)
    <3>1. LinkOf(x) = l
      BY <2>2, <1>1 DEF OpensFor, LinkFit
    <3>. QED BY <2>2, <3>1 DEF Live
  <2>. QED BY <2>1, <2>2 DEF Live
<1>13. LinkSpeaks(P, K2, l)
  <2>1. \A i \in 1 .. Len(k2.toPeripheral) : Speaks(P, k2.toPeripheral[i])
    BY <1>1, <1>2 DEF LinkSpeaks
  <2>. QED BY <2>1, <1>1, <1>5 DEF LinkSpeaks, Identifies
<1>14. LinkTaken(P, K2, l)
  <2>1. RunAfter(P, K2, rec)
    <3>1. IsFor(rec, rec.by, rec.to)
      BY DEF IsFor
    <3>. QED BY <3>1, <1>4, <1>8 DEF RunAfter
  <2>2. k2.fromPeripheral.how = "record" /\ k2.handler = k2.fromPeripheral.peer /\ ~P[k2.handler].rekeyed
          => RunAfter(P, K2, k2.fromPeripheral.rec)
    <3>1. SUFFICES ASSUME k.fromPeripheral.how = "record", k.handler = k.fromPeripheral.peer,
                          ~P[k.handler].rekeyed
                   PROVE  RunAfter(P, K2, k.fromPeripheral.rec)
      OBVIOUS
    <3>. DEFINE z == k.fromPeripheral.rec
    <3>2. z.by \in Peer /\ z.to \in Peer /\ Pairs(z.by, z.to) /\ LinkOf(z.to) = l /\ IsCentral(z.to)
      BY <3>1, RecordFacts DEF RecordOK
    <3>3. RunAfter(P, K, z)
      BY <3>1, <1>1 DEF LinkTaken
    <3>. QED BY <3>2, <3>3, <1>7 DEF RunAfter
  <2>. QED BY <2>1, <2>2, <1>1, <1>5 DEF LinkTaken, Identifies
<1>15. ASSUME NEW x \in Peer, LinkOf(x) = l, P[x].state = "open", ~P[x].rekeyed PROVE Expects(P, K2, x)
  <2>. DEFINE q == P[x].half.by
  <2>1. Expects(P, K, x) /\ q \in Peer /\ Pairs(q, x)
    BY <1>15, OpenKnown
  <2>2. CASE IsCentral(x)
    <3>1. Run(P, K, q, x, P[x].recvCtr) => Run(P, K2, q, x, P[x].recvCtr)
      BY <2>1, <2>2, <1>7, <1>15
    <3>. QED BY <2>1, <2>2, <3>1, <1>1, <1>15 DEF Expects, JobAt, Hearing
  <2>3. CASE ~IsCentral(x) /\ k.owner # x
    <3>1. Nothing(P, K, q, x)
      BY <2>1, <2>3, <1>15 DEF Expects
    <3>2. NoneFrom(k2.toPeripheral, q, x)
      BY <3>1, <1>2, <1>15 DEF Nothing, NoneFrom
    <3>. QED BY <2>1, <2>3, <3>1, <3>2, <1>1, <1>15 DEF Expects, Hearing, Nothing
  <2>4. CASE ~IsCentral(x) /\ k.owner = x
    <3>1. Run(P, K, q, x, P[x].recvCtr)
      BY <2>1, <2>4, <1>5, <1>15 DEF Expects, Hearing, JobAt, Opening
    <3>2. /\ IsFor(rec, q, x) => rec.ctr = P[x].recvCtr
          /\ ~IsFor(rec, q, x) => Run(P, K2, q, x, P[x].recvCtr)
      BY <2>1, <2>4, <3>1, <1>8, <1>15
    <3>. QED BY <2>1, <2>4, <3>2, <1>1, <1>15 DEF Expects, Hearing, JobAt, Opening
  <2>. QED BY <2>2, <2>3, <2>4
<1>. QED BY <1>9, <1>10, <1>11, <1>12, <1>13, <1>14, <1>15, LinkStep

\* A peripheral's record that goes to whom the notifications are for, or is not
\* for an open channel of theirs, keeps the invariant.
LEMMA NotifiedStep ==
  ASSUME NEW P, NEW K, NEW W, NEW K2, ChannelInv(P, K, W), NEW l \in Link, NEW k2 \in LinkState,
         JobsHavePeers(k2), K2 = [K EXCEPT ![l] = k2],
         K[l].fromPeripheral = NoJob, K[l].toCentral # <<>>, k2.toCentral = Tail(K[l].toCentral),
         \/ /\ k2.fromPeripheral.how = "record" /\ k2.fromPeripheral.rec = Head(K[l].toCentral)
            /\ k2.fromPeripheral.peer = K[l].handler /\ K[l].handler # NoPeer /\ ~Idle(P[K[l].handler])
         \/ /\ k2.fromPeripheral = NoJob
            /\ \A x \in Peer : K[l].handler = x /\ P[x].state = "open" =>
                 ~IsFor(Head(K[l].toCentral), P[x].half.by, x),
         k2.owner = K[l].owner, k2.handler = K[l].handler, k2.hello = K[l].hello, k2.retry = K[l].retry,
         k2.toPeripheral = K[l].toPeripheral, k2.fromCentral = K[l].fromCentral
  PROVE  ChannelInv(P, K2, W)
<1>. DEFINE k == K[l]
            rec == Head(k.toCentral)
<1>1. /\ k \in LinkState /\ LinkFit(l, k) /\ LinkSpeaks(P, K, l) /\ LinkTaken(P, K, l) /\ K2[l] = k2
      /\ k.toCentral \in Seq(AnyRecord) /\ JobsHavePeers(k)
  <2>1. K \in [Link -> LinkState]
    BY DEF ChannelInv, ChannelTyped
  <2>. QED BY <2>1, LinkKnown
<1>2. /\ \A i \in 1 .. Len(k2.toCentral) :
           k2.toCentral[i] = k.toCentral[i + 1] /\ i + 1 \in 1 .. Len(k.toCentral)
      /\ rec = k.toCentral[1] /\ 1 \in 1 .. Len(k.toCentral)
  BY <1>1, TailEntries
<1>3. /\ rec \in CentralRecords(k)
      /\ \A i \in 1 .. Len(k2.toCentral) : k2.toCentral[i] \in CentralRecords(k)
  BY <1>2 DEF CentralRecords
<1>4. rec.by \in Peer /\ rec.to \in Peer /\ Pairs(rec.by, rec.to) /\ LinkOf(rec.to) = l /\ IsCentral(rec.to)
  BY <1>3, RecordFacts DEF RecordOK
<1>5. /\ k.fromPeripheral.how = "none"
      /\ k2.fromPeripheral.how = "none" \/ k2.fromPeripheral.how = "record"
      /\ k2.fromPeripheral.how = "record" =>
           /\ k2.fromPeripheral.rec = rec /\ k2.fromPeripheral.peer = k.handler /\ k.handler \in Peer
           /\ LinkOf(k.handler) = l /\ IsCentral(k.handler) /\ ~Idle(P[k.handler])
      /\ k2.fromPeripheral.peer \in {NoPeer, k.handler}
  <2>1. k.handler \in PeerOrNone
    BY <1>1 DEF LinkState
  <2>. QED BY <2>1, <1>1 DEF LinkFit, PeerOrNone, NoJob
<1>6. \A x \in Peer : LinkOf(x) = l =>
         /\ ~IsCentral(x) => QueueTo(K2[LinkOf(x)], x) = QueueTo(K[LinkOf(x)], x)
         /\ IsCentral(x) => FirstGone(K2, K, x) /\ FirstTo(K, x) = rec
  BY <1>1 DEF QueueTo, FirstGone, FirstTo
<1>7. ASSUME NEW x \in Peer, NEW q \in Peer, LinkOf(x) = l, Pairs(q, x), ~IsCentral(x)
      PROVE  /\ Rising(QueueTo(K2[LinkOf(x)], x), q, x)
             /\ \E b \in 0 .. P[q].sendCtr : Run(P, K2, q, x, b)
             /\ \A b : Run(P, K, q, x, b) => Run(P, K2, q, x, b)
  <2>1. QueueTo(K2[LinkOf(x)], x) = QueueTo(K[LinkOf(x)], x) /\ Pairs(q, x)
    BY <1>6, <1>7
  <2>. QED BY ONLY <2>1, SameQueue, ChannelInv(P, K, W), x \in Peer, q \in Peer
<1>8. ASSUME NEW x \in Peer, NEW q \in Peer, LinkOf(x) = l, Pairs(q, x), IsCentral(x)
      PROVE  /\ Rising(QueueTo(K2[LinkOf(x)], x), q, x)
             /\ \E b \in 0 .. P[q].sendCtr : Run(P, K2, q, x, b)
             /\ \A b : Run(P, K, q, x, b) =>
                  /\ IsFor(rec, q, x) => rec.ctr = b
                  /\ ~IsFor(rec, q, x) => Run(P, K2, q, x, b)
             /\ IsFor(rec, q, x) => Run(P, K2, q, x, rec.ctr + 1)
  <2>1. FirstGone(K2, K, x) /\ Pairs(q, x) /\ FirstTo(K, x) = rec
    BY <1>6, <1>8
  <2>. HIDE DEF rec
  <2>. QED BY ONLY <2>1, RunTaken, ChannelInv(P, K, W), x \in Peer, q \in Peer
<1>9. ASSUME NEW x \in Peer, NEW q \in Peer, LinkOf(x) = l, Pairs(q, x)
      PROVE  Rising(QueueTo(k2, x), q, x) /\ \E b \in 0 .. P[q].sendCtr : Run(P, K2, q, x, b)
  <2>1. QueueTo(K2[LinkOf(x)], x) = QueueTo(k2, x)
    BY <1>1, <1>9
  <2>. QED BY <2>1, <1>7, <1>8, <1>9
<1>10. LinkFit(l, k2)
  BY <1>1, <1>5 DEF LinkFit
<1>11. CentralRecords(k2) \subseteq CentralRecords(k) /\ PeripheralRecords(k2) \subseteq PeripheralRecords(k)
  <2>1. PeripheralRecords(k2) = PeripheralRecords(k)
    BY DEF PeripheralRecords
  <2>2. \A z \in CentralRecords(k2) :
          \/ \E i \in 1 .. Len(k2.toCentral) : z = k2.toCentral[i]
          \/ z = rec
    BY <1>5 DEF CentralRecords
  <2>. QED BY <2>1, <2>2, <1>3
<1>12. \A x \in Peer : OpensFor(k2.fromCentral, P[x], x) \/ OpensFor(k2.fromPeripheral, P[x], x)
                         => Live(P, K, x)
  <2>1. ASSUME NEW x \in Peer, OpensFor(k2.fromPeripheral, P[x], x) PROVE ~Idle(P[x])
    BY <2>1, <1>5 DEF OpensFor
  <2>2. ASSUME NEW x \in Peer, OpensFor(k2.fromCentral, P[x], x) PROVE Live(P, K, x)
    <3>1. k.fromCentral.rec \in PeripheralRecords(k)
      BY <2>2 DEF OpensFor, PeripheralRecords
    <3>2. LinkOf(x) = l
      BY <2>2, <3>1, RecordFacts DEF OpensFor, RecordOK
    <3>. QED BY <2>2, <3>2 DEF Live
  <2>. QED BY <2>1, <2>2 DEF Live
<1>13. LinkSpeaks(P, K2, l)
  <2>1. k2.fromCentral.how = "identify" /\ k2.fromCentral.gone =>
          Nothing(P, K2, k2.fromCentral.rec.by, k2.fromCentral.rec.to)
    <3>1. SUFFICES ASSUME k.fromCentral.how = "identify", k.fromCentral.gone
                   PROVE  Nothing(P, K2, k.fromCentral.rec.by, k.fromCentral.rec.to)
      OBVIOUS
    <3>2. LinkOf(k.fromCentral.rec.to) = l
      BY <3>1, RecordFacts DEF RecordOK
    <3>. QED BY <3>1, <3>2, <1>1 DEF LinkSpeaks, Nothing
  <2>. QED BY <2>1, <1>1 DEF LinkSpeaks
<1>14. LinkTaken(P, K2, l)
  <2>1. \A z \in PeripheralRecords(k) : RunAfter(P, K, z) => RunAfter(P, K2, z)
    <3>1. \A z \in PeripheralRecords(k) :
            z.by \in Peer /\ z.to \in Peer /\ Pairs(z.by, z.to) /\ LinkOf(z.to) = l /\ ~IsCentral(z.to)
      BY RecordFacts DEF RecordOK
    <3>. QED BY <3>1, <1>7 DEF RunAfter
  <2>2. RunAfter(P, K2, rec)
    <3>1. IsFor(rec, rec.by, rec.to)
      BY DEF IsFor
    <3>. QED BY <3>1, <1>4, <1>8 DEF RunAfter
  <2>. QED BY ZenonT(40), <2>1, <2>2, <1>1, <1>5, RecordFacts DEF LinkTaken, Identifies
<1>15. ASSUME NEW x \in Peer, LinkOf(x) = l, P[x].state = "open", ~P[x].rekeyed PROVE Expects(P, K2, x)
  <2>. DEFINE q == P[x].half.by
  <2>1. Expects(P, K, x) /\ q \in Peer /\ Pairs(q, x)
    BY <1>15, OpenKnown
  <2>2. CASE ~IsCentral(x)
    <3>1. Run(P, K, q, x, P[x].recvCtr) => Run(P, K2, q, x, P[x].recvCtr)
      BY <2>1, <2>2, <1>7, <1>15
    <3>. QED BY <2>1, <2>2, <3>1, <1>1, <1>15 DEF Expects, JobAt, Hearing, Nothing
  <2>3. CASE IsCentral(x) /\ k.handler # x
    BY <2>1, <2>3, <1>1, <1>15 DEF Expects, Hearing
  <2>4. CASE IsCentral(x) /\ k.handler = x
    <3>1. Run(P, K, q, x, P[x].recvCtr)
      BY <2>1, <2>4, <1>5, <1>15 DEF Expects, Hearing, JobAt, Opening
    <3>2. /\ IsFor(rec, q, x) => rec.ctr = P[x].recvCtr
          /\ ~IsFor(rec, q, x) => Run(P, K2, q, x, P[x].recvCtr)
      BY <2>1, <2>4, <3>1, <1>8, <1>15
    <3>3. k2.fromPeripheral.how = "none" => ~IsFor(rec, q, x)
      BY <2>4, <1>15
    <3>. QED BY <2>1, <2>4, <3>2, <3>3, <1>1, <1>5, <1>15 DEF Expects, Hearing, JobAt, Opening
  <2>. QED BY <2>2, <2>3, <2>4
<1>. QED BY <1>5, <1>9, <1>10, <1>11, <1>12, <1>13, <1>14, <1>15, LinkStep

\* One job of a link is over, or both are, and the rest is as it was.
JobsOver(k2, k) ==
  /\ k2.fromCentral \in {k.fromCentral, NoJob} /\ k2.fromPeripheral \in {k.fromPeripheral, NoJob}
  /\ k2.toCentral = k.toCentral /\ k2.toPeripheral = k.toPeripheral /\ k2.handler = k.handler

\* Finding out whose a hello is has thrown: the chain of its central is at its end,
\* or the central is gone.
JobThrown(k2, k) ==
  /\ k.fromCentral.how = "identify"
  /\ \/ k2.fromCentral = NoJob /\ k.fromCentral.gone
     \/ /\ k2.fromCentral.how = "thrown" /\ k2.fromCentral.rec = k.fromCentral.rec
        /\ k2.fromCentral.peer = k.fromCentral.peer
  /\ k2.fromPeripheral = k.fromPeripheral
  /\ k2.toCentral = k.toCentral /\ k2.toPeripheral = k.toPeripheral /\ k2.handler = k.handler

\* Records for peers that are not open may be left, and a hello that threw.
LEMMA DropStep ==
  ASSUME NEW P, NEW K, NEW W, NEW K2, ChannelInv(P, K, W), NEW l \in Link, NEW k2 \in LinkState,
         K2 = [K EXCEPT ![l] = k2],
         k2.owner = K[l].owner, k2.hello = K[l].hello, k2.retry = K[l].retry,
         \/ /\ JobsOver(k2, K[l])
            /\ k2.fromCentral # K[l].fromCentral =>
                 K[l].fromCentral.how = "record" /\ P[K[l].fromCentral.peer].state # "open"
         \/ JobThrown(k2, K[l]),
         k2.fromPeripheral # K[l].fromPeripheral => P[K[l].fromPeripheral.peer].state # "open"
  PROVE  ChannelInv(P, K2, W)
<1>. DEFINE k == K[l]
<1>1. /\ k \in LinkState /\ LinkFit(l, k) /\ LinkSpeaks(P, K, l) /\ LinkTaken(P, K, l) /\ K2[l] = k2
      /\ JobsHavePeers(k)
  <2>1. K \in [Link -> LinkState]
    BY DEF ChannelInv, ChannelTyped
  <2>. QED BY <2>1, LinkKnown
<1>2. NoJob.how = "none" /\ NoJob.peer = NoPeer
  BY DEF NoJob
<1>3. /\ \/ k2.fromCentral = k.fromCentral
         \/ k2.fromCentral.how = "none" /\ k.fromCentral.how = "record" /\ P[k.fromCentral.peer].state # "open"
         \/ k2.fromCentral.how = "none" /\ k.fromCentral.how = "identify" /\ k.fromCentral.gone
         \/ /\ k2.fromCentral.how = "thrown" /\ k.fromCentral.how = "identify"
            /\ k2.fromCentral.rec = k.fromCentral.rec /\ k2.fromCentral.peer = k.fromCentral.peer
      /\ k2.fromPeripheral = k.fromPeripheral \/ k2.fromPeripheral.how = "none"
      /\ k2.toCentral = k.toCentral /\ k2.toPeripheral = k.toPeripheral /\ k2.handler = k.handler
      /\ k2.fromPeripheral.peer \in {k.fromPeripheral.peer, NoPeer}
  BY <1>2 DEF JobsOver, JobThrown
<1>4. JobsHavePeers(k2) /\ LinkFit(l, k2)
  BY <1>1, <1>3 DEF JobsHavePeers, LinkFit
<1>5. ASSUME NEW x \in Peer, NEW q \in Peer, Pairs(q, x)
      PROVE  /\ Rising(QueueTo(K2[LinkOf(x)], x), q, x)
             /\ \E b \in 0 .. P[q].sendCtr : Run(P, K2, q, x, b)
             /\ \A b : Run(P, K, q, x, b) => Run(P, K2, q, x, b)
  <2>1. QueueTo(K2[LinkOf(x)], x) = QueueTo(K[LinkOf(x)], x)
    <3>1. K2[LinkOf(x)].toCentral = K[LinkOf(x)].toCentral /\ K2[LinkOf(x)].toPeripheral = K[LinkOf(x)].toPeripheral
      <4>1. LinkOf(x) \in Link /\ K \in [Link -> LinkState]
        BY PeerFacts DEF ChannelInv, ChannelTyped
      <4>. QED BY <4>1, <1>1, <1>3
    <3>. QED BY <3>1 DEF QueueTo
  <2>. QED BY ONLY <1>5, <2>1, SameQueue, ChannelInv(P, K, W), x \in Peer, q \in Peer
<1>6. ASSUME NEW x \in Peer, NEW q \in Peer, LinkOf(x) = l, Pairs(q, x)
      PROVE  Rising(QueueTo(k2, x), q, x) /\ \E b \in 0 .. P[q].sendCtr : Run(P, K2, q, x, b)
  BY <1>1, <1>5, <1>6
<1>7. CentralRecords(k2) \subseteq CentralRecords(k) /\ PeripheralRecords(k2) \subseteq PeripheralRecords(k)
  <2>1. \A z \in PeripheralRecords(k2) :
          \/ \E i \in 1 .. Len(k.toPeripheral) : z = k.toPeripheral[i]
          \/ k.hello # NoRecord /\ z = k.hello
          \/ k.fromCentral.how # "none" /\ z = k.fromCentral.rec
    BY <1>3 DEF PeripheralRecords
  <2>2. \A z \in CentralRecords(k2) :
          \/ \E i \in 1 .. Len(k.toCentral) : z = k.toCentral[i]
          \/ k.fromPeripheral.how # "none" /\ z = k.fromPeripheral.rec
    BY <1>3 DEF CentralRecords
  <2>. QED BY <2>1, <2>2, RecordFacts
<1>8. \A x \in Peer : OpensFor(k2.fromCentral, P[x], x) \/ OpensFor(k2.fromPeripheral, P[x], x)
                         => Live(P, K, x)
  <2>1. ASSUME NEW x \in Peer, OpensFor(k2.fromPeripheral, P[x], x) PROVE Live(P, K, x)
    <3>1. LinkOf(x) = l /\ k2.fromPeripheral = k.fromPeripheral
      BY <2>1, <1>1, <1>3 DEF OpensFor, LinkFit
    <3>. QED BY <2>1, <3>1 DEF Live
  <2>2. ASSUME NEW x \in Peer, OpensFor(k2.fromCentral, P[x], x) PROVE Live(P, K, x)
    <3>1. OpensFor(k.fromCentral, P[x], x)
      BY <2>2, <1>3 DEF OpensFor
    <3>2. k.fromCentral.rec \in PeripheralRecords(k)
      BY <3>1 DEF OpensFor, PeripheralRecords
    <3>3. LinkOf(x) = l
      BY <3>1, <3>2, RecordFacts DEF OpensFor, RecordOK
    <3>. QED BY <3>1, <3>3 DEF Live
  <2>. QED BY <2>1, <2>2
<1>9. LinkSpeaks(P, K2, l)
  <2>1. k2.fromCentral.how = "identify" /\ k2.fromCentral.gone =>
          Nothing(P, K2, k2.fromCentral.rec.by, k2.fromCentral.rec.to)
    <3>1. SUFFICES ASSUME k2.fromCentral.how = "identify", k2.fromCentral.gone
                   PROVE  Nothing(P, K2, k2.fromCentral.rec.by, k2.fromCentral.rec.to)
      OBVIOUS
    <3>2. k2.fromCentral = k.fromCentral
      BY <3>1, <1>3
    <3>3. LinkOf(k.fromCentral.rec.to) = l
      BY <3>1, <3>2, RecordFacts DEF RecordOK
    <3>. QED BY <3>1, <3>2, <3>3, <1>1, <1>3 DEF LinkSpeaks, Nothing
  <2>. QED BY <2>1, <1>1, <1>3 DEF LinkSpeaks, Identifies
<1>10. LinkTaken(P, K2, l)
  <2>1. \A z \in PeripheralRecords(k) \cup CentralRecords(k) : RunAfter(P, K, z) => RunAfter(P, K2, z)
    <3>1. \A z \in PeripheralRecords(k) \cup CentralRecords(k) : z.by \in Peer /\ z.to \in Peer /\ Pairs(z.by, z.to)
      BY RecordFacts DEF RecordOK
    <3>. QED BY <3>1, <1>5 DEF RunAfter
  <2>. QED BY <2>1, <1>1, <1>3, RecordFacts DEF LinkTaken, Identifies
<1>11. ASSUME NEW x \in Peer, LinkOf(x) = l, P[x].state = "open", ~P[x].rekeyed PROVE Expects(P, K2, x)
  <2>. DEFINE q == P[x].half.by
  <2>1. Expects(P, K, x) /\ q \in Peer /\ Pairs(q, x)
    BY <1>11, OpenKnown
  <2>2. Run(P, K, q, x, P[x].recvCtr) => Run(P, K2, q, x, P[x].recvCtr)
    BY <2>1, <1>5
  <2>3. Opening(JobAt(k, x), q, x) <=> Opening(JobAt(k2, x), q, x)
    BY <1>3, <1>11 DEF Opening, JobAt
  <2>4. Opening(JobAt(k2, x), q, x) => JobAt(k2, x) = JobAt(k, x)
    BY <1>3 DEF Opening, JobAt
  <2>. QED BY <2>1, <2>2, <2>3, <2>4, <1>1, <1>3, <1>11 DEF Expects, Hearing, Nothing
<1>. QED BY <1>3, <1>4, <1>6, <1>7, <1>8, <1>9, <1>10, <1>11, LinkStep

----
\* A peer that opens.

\* A peer that a record opens for keeps the invariant, if it is at the counter
\* of what comes next.
LEMMA OpenedStep ==
  ASSUME NEW P, NEW K, NEW W, NEW P2, NEW K2, ChannelInv(P, K, W), NEW l \in Link, NEW k2 \in LinkState,
         K2 = [K EXCEPT ![l] = k2], NEW p \in Peer, NEW s \in BlePeer, P2 = [P EXCEPT ![p] = s],
         s.making = P[p].making, s.deriving = P[p].deriving, s.half = P[p].half, s.myBid = P[p].myBid,
         s.rekeyed = P[p].rekeyed, s.sendCtr = P[p].sendCtr, s.link = P[p].link, s.wanted = P[p].wanted,
         s.state = "open", ~IsCentral(p) => s.central, LinkOf(p) = l,
         OpensFor(K[l].fromCentral, P[p], p) \/ OpensFor(K[l].fromPeripheral, P[p], p),
         JobsOver(k2, K[l]), LinkFit(l, k2),
         k2.fromCentral # K[l].fromCentral =>
           K[l].fromCentral.peer = p /\ K[l].fromCentral.how # "thrown",
         k2.fromPeripheral # K[l].fromPeripheral => K[l].fromPeripheral.peer = p,
         k2.owner = K[l].owner \/ (K[l].owner = NoPeer /\ k2.owner = p /\ k2.fromCentral = NoJob),
         k2.hello = NoRecord
           \/ (k2.hello = K[l].hello /\ (k2.fromCentral = K[l].fromCentral \/ ~Identifies(K[l].fromCentral))),
         ~s.rekeyed => Expects(P2, K2, p)
  PROVE  ChannelInv(P2, K2, W)
<1>. DEFINE k == K[l]
<1>1. /\ k \in LinkState /\ LinkFit(l, k) /\ LinkSpeaks(P, K, l) /\ LinkTaken(P, K, l) /\ JobsHavePeers(k)
      /\ K \in [Link -> LinkState] /\ K2 \in [Link -> LinkState]
      /\ K2[l] = k2 /\ \A m \in Link : m # l => K2[m] = K[m]
      /\ P \in [Peer -> BlePeer] /\ P2 \in [Peer -> BlePeer]
      /\ P2[p] = s /\ \A x \in Peer : x # p => P2[x] = P[x]
      /\ \A x \in Peer : LinkOf(x) \in Link /\ P[x] \in BlePeer /\ P2[x] \in BlePeer
      /\ W \in [Node -> Seq(Frame)]
  BY LinkKnown, PeerFacts DEF ChannelInv, ChannelTyped
<1>2. NoJob.how = "none" /\ NoJob.peer = NoPeer
  BY DEF NoJob
<1>3. /\ k2.fromCentral = k.fromCentral \/ (k2.fromCentral.how = "none" /\ k.fromCentral.peer = p)
      /\ k2.fromPeripheral = k.fromPeripheral \/ (k2.fromPeripheral.how = "none" /\ k.fromPeripheral.peer = p)
      /\ k2.toCentral = k.toCentral /\ k2.toPeripheral = k.toPeripheral /\ k2.handler = k.handler
      /\ k2.fromPeripheral.peer \in {k.fromPeripheral.peer, NoPeer}
  BY <1>2 DEF JobsOver
<1>4. \A x \in Peer :
        /\ P2[x].making = P[x].making /\ P2[x].deriving = P[x].deriving /\ P2[x].half = P[x].half
        /\ P2[x].myBid = P[x].myBid /\ P2[x].rekeyed = P[x].rekeyed /\ P2[x].sendCtr = P[x].sendCtr
        /\ P2[x].link = P[x].link /\ P2[x].wanted = P[x].wanted
        /\ P2[x].state = P[x].state \/ (x = p /\ P2[x].state = "open")
  BY <1>1
<1>5. /\ \A x \in Peer : \A h : Tied(P[x], h) => Tied(P2[x], h)
      /\ \A x \in Peer : \A y : Wrote(P[x], y) => Wrote(P2[x], y)
      /\ \A x \in Peer : \A y : Silent(P[x], y) => Silent(P2[x], y)
      /\ \A x \in Peer : \A job, y : OpensFor(job, P2[x], y) => OpensFor(job, P[x], y)
  BY <1>4 DEF Tied, Wrote, Silent, OpensFor
<1>6. JobsHavePeers(k2) /\ \A m \in Link : JobsHavePeers(K2[m])
  <2>1. JobsHavePeers(k2)
    BY <1>1, <1>3 DEF JobsHavePeers
  <2>. QED BY <2>1, <1>1 DEF ChannelInv, ChannelTyped
<1>7. P[p].half # NoHalf
  <2>1. \E rec \in PeripheralRecords(k) \cup CentralRecords(k) : rec.by = P[p].half.by
    BY DEF OpensFor, PeripheralRecords, CentralRecords
  <2>2. P[p].half.by \in Peer
    BY <2>1, RecordFacts DEF RecordOK
  <2>. QED BY <2>2, <1>1, KeyOfPeer
<1>8. \A z \in Link : \A rec :
        /\ rec \in CentralRecords(K2[z]) => rec \in CentralRecords(K[z])
        /\ rec \in PeripheralRecords(K2[z]) => rec \in PeripheralRecords(K[z])
  <2>1. \A z \in PeripheralRecords(k2) :
          \/ \E i \in 1 .. Len(k.toPeripheral) : z = k.toPeripheral[i]
          \/ k.hello # NoRecord /\ z = k.hello
          \/ k.fromCentral.how # "none" /\ z = k.fromCentral.rec
    BY <1>3 DEF PeripheralRecords
  <2>2. \A z \in CentralRecords(k2) :
          \/ \E i \in 1 .. Len(k.toCentral) : z = k.toCentral[i]
          \/ k.fromPeripheral.how # "none" /\ z = k.fromPeripheral.rec
    BY <1>3 DEF CentralRecords
  <2>3. (\A z \in PeripheralRecords(k2) : z \in PeripheralRecords(k)) /\ (\A z \in CentralRecords(k2) : z \in CentralRecords(k))
    <3>1. (\A i \in 1 .. Len(k.toPeripheral) : k.toPeripheral[i] \in PeripheralRecords(k))
          /\ (k.hello # NoRecord => k.hello \in PeripheralRecords(k))
          /\ (k.fromCentral.how # "none" => k.fromCentral.rec \in PeripheralRecords(k))
      BY RecordFacts
    <3>2. (\A i \in 1 .. Len(k.toCentral) : k.toCentral[i] \in CentralRecords(k))
          /\ (k.fromPeripheral.how # "none" => k.fromPeripheral.rec \in CentralRecords(k))
      BY RecordFacts
    <3>. QED BY <2>1, <2>2, <3>1, <3>2
  <2>. HIDE DEF k
  <2>4. ASSUME NEW m \in Link PROVE m = l \/ K2[m] = K[m]
    BY <1>1
  <2>. QED BY <2>3, <2>4, <1>1 DEF k
<1>9. SignalsTied(P2, W)
  <2>1. ASSUME NEW n \in Node, NEW i \in 1 .. Len(W[n])
        PROVE  W[n][i].half.by[2] = n /\ Tied(P2[W[n][i].half.by], W[n][i].half)
    <3>1. W[n][i] \in Frame
      BY <1>1
    <3>2. W[n][i].half.by \in Peer
      BY <3>1 DEF Frame, Half
    <3>. QED BY <3>2, <1>5 DEF ChannelInv, SignalsTied
  <2>. QED BY <2>1 DEF SignalsTied
<1>10. HalvesTied(P2)
  <2>1. ASSUME NEW x \in Peer, NEW h \in P2[x].deriving PROVE Pairs(h.by, x) /\ Tied(P2[h.by], h)
    <3>1. h \in P[x].deriving /\ h.by \in Peer
      BY <1>1, <1>4, KeyOfPeer
    <3>. QED BY <3>1, <1>5 DEF ChannelInv, HalvesTied
  <2>. QED BY <2>1 DEF HalvesTied
<1>11. KeysTied(P2, K2)
  <2>1. ASSUME NEW x \in Peer, P2[x].half # NoHalf
        PROVE  Pairs(P2[x].half.by, x) /\ (Live(P2, K2, x) => Tied(P2[P2[x].half.by], P2[x].half))
    <3>1. P2[x].half = P[x].half /\ P[x].half # NoHalf /\ P[x].half.by \in Peer
      BY <2>1, <1>1, <1>4, KeyOfPeer
    <3>2. Pairs(P[x].half.by, x) /\ (Live(P, K, x) => Tied(P[P[x].half.by], P[x].half))
      BY <3>1 DEF ChannelInv, KeysTied
    <3>3. ASSUME Live(P2, K2, x) PROVE Live(P, K, x)
      <4>1. CASE x = p
        BY <4>1 DEF Live
      <4>2. CASE x # p
        <5>1. P2[x] = P[x] /\ LinkOf(x) \in Link
          BY <4>2, <1>1
        <5>2. OpensFor(K2[LinkOf(x)].fromCentral, P[x], x) => OpensFor(K[LinkOf(x)].fromCentral, P[x], x)
          BY <5>1, <1>1, <1>3 DEF OpensFor
        <5>3. OpensFor(K2[LinkOf(x)].fromPeripheral, P[x], x) => OpensFor(K[LinkOf(x)].fromPeripheral, P[x], x)
          BY <5>1, <1>1, <1>3 DEF OpensFor
        <5>. QED BY <3>3, <5>1, <5>2, <5>3 DEF Live
      <4>. QED BY <4>1, <4>2
    <3>. QED BY <3>1, <3>2, <3>3, <1>5
  <2>. QED BY <2>1 DEF KeysTied
<1>12. AllEarly(P2)
  <2>1. Early(P[p])
    BY DEF ChannelInv, AllEarly
  <2>2. Early(s)
    BY <2>1, <1>7 DEF Early
  <2>. QED BY <2>2, <1>1 DEF ChannelInv, AllEarly
<1>13. RecordsOK(P2, K2)
  <2>1. ASSUME NEW m \in Link, NEW rec, RecordOK(P, m, rec) PROVE RecordOK(P2, m, rec)
    BY <2>1, <1>4, <1>5 DEF RecordOK
  <2>. QED BY <2>1, <1>8, RecordFacts DEF RecordsOK, LinkRecordsOK
<1>14. AllLinksFit(K2)
  BY <1>1 DEF ChannelInv, AllLinksFit
<1>15. Attached(P2, K2)
  <2>1. ASSUME NEW x \in Peer
        PROVE  /\ (P2[x].wanted # {} /\ ~P2[x].rekeyed) \/ P2[x].half = NoHalf =>
                    K2[LinkOf(x)].handler # x /\ K2[LinkOf(x)].fromPeripheral.peer # x
               /\ ~IsCentral(x) /\ P2[x].state = "open" => P2[x].central
    <3>1. /\ (P[x].wanted # {} /\ ~P[x].rekeyed) \/ P[x].half = NoHalf =>
               K[LinkOf(x)].handler # x /\ K[LinkOf(x)].fromPeripheral.peer # x
          /\ ~IsCentral(x) /\ P[x].state = "open" => P[x].central
      BY DEF ChannelInv, Attached
    <3>2. x # NoPeer
      BY PeerFacts
    <3>3. K[LinkOf(x)].handler # x /\ K[LinkOf(x)].fromPeripheral.peer # x =>
            K2[LinkOf(x)].handler # x /\ K2[LinkOf(x)].fromPeripheral.peer # x
      BY <3>2, <1>1, <1>3
    <3>. QED BY <3>1, <3>3, <1>1, <1>4
  <2>. QED BY <2>1 DEF Attached
<1>16. \A x \in Peer : QueueTo(K2[LinkOf(x)], x) = QueueTo(K[LinkOf(x)], x)
                       /\ K2[LinkOf(x)].toPeripheral = K[LinkOf(x)].toPeripheral
  <2>1. ASSUME NEW x \in Peer
        PROVE  K2[LinkOf(x)].toCentral = K[LinkOf(x)].toCentral
               /\ K2[LinkOf(x)].toPeripheral = K[LinkOf(x)].toPeripheral
    BY <1>1, <1>3
  <2>. QED BY <2>1 DEF QueueTo
<1>17. \A q, x \in Peer : \A b : Run(P, K, q, x, b) => Run(P2, K2, q, x, b)
  BY <1>4, <1>16 DEF Run
<1>18. AllRun(P2, K2)
  BY <1>4, <1>16, <1>17 DEF ChannelInv, AllRun
<1>19. \A q \in Peer, x \in Peer : Nothing(P, K, q, x) => Nothing(P2, K2, q, x)
  BY <1>5, <1>16 DEF Nothing
<1>20. Speakers(P2, K2)
  <2>1. \A rec : rec.by \in Peer /\ Speaks(P, rec) => Speaks(P2, rec)
    BY <1>4, <1>5 DEF Speaks
  <2>2. ASSUME NEW m \in Link PROVE LinkSpeaks(P2, K2, m)
    <3>1. LinkSpeaks(P, K, m)
      BY DEF ChannelInv, Speakers
    <3>2. \A rec \in PeripheralRecords(K[m]) : rec.by \in Peer /\ rec.to \in Peer
      BY RecordFacts DEF RecordOK
    <3>3. /\ K2[m].toPeripheral = K[m].toPeripheral
          /\ K2[m].hello \in {K[m].hello, NoRecord}
          /\ K2[m].fromCentral = K[m].fromCentral \/ K2[m].fromCentral.how = "none"
      BY <1>1, <1>3
    <3>4. /\ \A i \in 1 .. Len(K2[m].toPeripheral) : Speaks(P2, K2[m].toPeripheral[i])
          /\ K2[m].hello # NoRecord => Speaks(P2, K2[m].hello)
          /\ Identifies(K2[m].fromCentral) => Speaks(P2, K2[m].fromCentral.rec)
      BY <2>1, <3>1, <3>2, <3>3, RecordFacts DEF LinkSpeaks, Identifies
    <3>5. K2[m].fromCentral.how = "identify" /\ K2[m].fromCentral.gone =>
            Nothing(P2, K2, K2[m].fromCentral.rec.by, K2[m].fromCentral.rec.to)
      BY <1>19, <3>1, <3>2, <3>3, RecordFacts DEF LinkSpeaks
    <3>. QED BY <3>4, <3>5 DEF LinkSpeaks
  <2>. QED BY <2>2 DEF Speakers
<1>21. Taken(P2, K2)
  <2>1. ASSUME NEW m \in Link PROVE LinkTaken(P2, K2, m)
    <3>1. LinkTaken(P, K, m)
      BY DEF ChannelInv, Taken
    <3>2. \A rec \in PeripheralRecords(K[m]) \cup CentralRecords(K[m]) : RunAfter(P, K, rec) => RunAfter(P2, K2, rec)
      <4>1. \A rec \in PeripheralRecords(K[m]) \cup CentralRecords(K[m]) : rec.by \in Peer /\ rec.to \in Peer
        BY RecordFacts DEF RecordOK
      <4>. QED BY <4>1, <1>17 DEF RunAfter
    <3>3. /\ K2[m].fromCentral = K[m].fromCentral \/ K2[m].fromCentral.how = "none"
          /\ K2[m].fromPeripheral = K[m].fromPeripheral \/ K2[m].fromPeripheral.how = "none"
          /\ K2[m].handler = K[m].handler
          /\ K2[m].owner = K[m].owner \/ K2[m].fromCentral.how = "none"
      BY <1>1, <1>2, <1>3
    <3>4. K2[m].hello # NoRecord =>
            /\ K2[m].hello = K[m].hello
            /\ \/ K2[m].fromCentral = K[m].fromCentral
               \/ ~Identifies(K[m].fromCentral) /\ K[m].fromCentral.how # "thrown"
      BY <1>1
    <3>5. K[m].fromPeripheral.how = "record" => P2[K[m].fromPeripheral.peer].rekeyed = P[K[m].fromPeripheral.peer].rekeyed
      BY <1>4, RecordFacts
    <3>6. /\ K[m].hello # NoRecord => K[m].hello \in PeripheralRecords(K[m])
          /\ K[m].fromCentral.how # "none" => K[m].fromCentral.rec \in PeripheralRecords(K[m])
          /\ K[m].fromPeripheral.how # "none" => K[m].fromPeripheral.rec \in CentralRecords(K[m])
      BY RecordFacts
    <3>7. Identifies(K2[m].fromCentral) => RunAfter(P2, K2, K2[m].fromCentral.rec)
      BY <3>1, <3>2, <3>3, <3>6 DEF LinkTaken, Identifies
    <3>8. K2[m].hello # NoRecord /\ K2[m].fromCentral.how # "thrown"
          /\ ~(Identifies(K2[m].fromCentral) /\ IsFor(K2[m].fromCentral.rec, K2[m].hello.by, K2[m].hello.to))
            => RunAfter(P2, K2, K2[m].hello)
      BY <3>1, <3>2, <3>4, <3>6 DEF LinkTaken
    <3>9. K2[m].fromCentral.how = "record" /\ K2[m].owner = K2[m].fromCentral.peer
            => RunAfter(P2, K2, K2[m].fromCentral.rec)
      BY <3>1, <3>2, <3>3, <3>6 DEF LinkTaken
    <3>10. K2[m].fromPeripheral.how = "record" /\ K2[m].handler = K2[m].fromPeripheral.peer /\ ~P2[K2[m].handler].rekeyed
            => RunAfter(P2, K2, K2[m].fromPeripheral.rec)
      BY <3>1, <3>2, <3>3, <3>5, <3>6 DEF LinkTaken
    <3>. QED BY <3>7, <3>8, <3>9, <3>10 DEF LinkTaken
  <2>. QED BY <2>1 DEF Taken
<1>22. AllExpect(P2, K2)
  <2>1. ASSUME NEW x \in Peer, P2[x].state = "open", ~P2[x].rekeyed, x # p PROVE Expects(P2, K2, x)
    <3>. DEFINE q == P[x].half.by
                m == LinkOf(x)
    <3>1. P2[x] = P[x]
      BY <2>1, <1>1
    <3>2. Expects(P, K, x) /\ q \in Peer /\ Pairs(q, x)
      BY <2>1, <3>1, OpenKnown
    <3>3. Wrote(P2[q], x)
      BY <3>2, <1>5 DEF Expects
    <3>4. Run(P, K, q, x, P[x].recvCtr) => Run(P2, K2, q, x, P[x].recvCtr)
      BY <3>2, <1>17
    <3>5. /\ Hearing(K2[m], x) <=> Hearing(K[m], x)
          /\ K2[m].owner = x <=> K[m].owner = x
          /\ Opening(JobAt(K2[m], x), q, x) <=> Opening(JobAt(K[m], x), q, x)
          /\ Opening(JobAt(K2[m], x), q, x) => JobAt(K2[m], x) = JobAt(K[m], x)
          /\ K2[m].fromCentral.how = "record" /\ K2[m].fromCentral.peer = x =>
               K[m].fromCentral.how = "record" /\ K[m].fromCentral.peer = x
      <4>1. CASE m = l
        <5>1. x # NoPeer
          BY PeerFacts
        <5>. QED BY <2>1, <4>1, <5>1, <1>1, <1>3 DEF Hearing, Opening, JobAt
      <4>2. CASE m # l
        BY <4>2, <1>1
      <4>. QED BY <4>1, <4>2
    <3>6. Nothing(P, K, q, x) => Nothing(P2, K2, q, x)
      BY <3>2, <1>19
    <3>. HIDE DEF m, q
    <3>. QED BY <3>1, <3>2, <3>3, <3>4, <3>5, <3>6 DEF Expects, m, q
  <2>. QED BY <2>1, <1>1 DEF AllExpect
<1>. QED BY <1>1, <1>6, <1>9, <1>10, <1>11, <1>12, <1>13, <1>14, <1>15, <1>18, <1>20, <1>21, <1>22
     DEF ChannelInv, ChannelTyped

\* A central that attaches the link it wanted keeps the invariant.
LEMMA AttachStep ==
  ASSUME NEW P, NEW K, NEW W, NEW P2, NEW K2, ChannelInv(P, K, W), NEW l \in Link, NEW k2 \in LinkState,
         K2 = [K EXCEPT ![l] = k2], NEW p \in Peer, NEW s \in BlePeer, P2 = [P EXCEPT ![p] = s],
         IsCentral(p), LinkOf(p) = l, P[p].state = "keyed", P[p].wanted # {},
         s.making = P[p].making, s.deriving = P[p].deriving, s.half = P[p].half, s.myBid = P[p].myBid,
         s.rekeyed = P[p].rekeyed, s.sendCtr = P[p].sendCtr, s.state = "keyed",
         ~P[p].rekeyed => s.wanted = {}, s.link # "none",
         k2.handler = p, k2.owner = K[l].owner, k2.hello = K[l].hello, k2.retry = K[l].retry,
         k2.toCentral = K[l].toCentral, k2.toPeripheral = K[l].toPeripheral,
         k2.fromCentral = K[l].fromCentral, k2.fromPeripheral = K[l].fromPeripheral
  PROVE  ChannelInv(P2, K2, W)
<1>. DEFINE k == K[l]
<1>1. /\ k \in LinkState /\ LinkFit(l, k) /\ JobsHavePeers(k)
      /\ K \in [Link -> LinkState] /\ K2 \in [Link -> LinkState]
      /\ K2[l] = k2 /\ \A m \in Link : m # l => K2[m] = K[m]
      /\ P \in [Peer -> BlePeer] /\ P2 \in [Peer -> BlePeer]
      /\ P2[p] = s /\ \A x \in Peer : x # p => P2[x] = P[x]
      /\ \A x \in Peer : LinkOf(x) \in Link /\ P[x] \in BlePeer /\ P2[x] \in BlePeer
      /\ W \in [Node -> Seq(Frame)]
  BY LinkKnown, PeerFacts DEF ChannelInv, ChannelTyped
<1>2. \A x \in Peer :
        /\ P2[x].making = P[x].making /\ P2[x].deriving = P[x].deriving /\ P2[x].half = P[x].half
        /\ P2[x].myBid = P[x].myBid /\ P2[x].rekeyed = P[x].rekeyed /\ P2[x].sendCtr = P[x].sendCtr
        /\ P2[x].state = P[x].state /\ (P2[x].link = P[x].link \/ (x = p /\ P2[x].link # "none"))
  BY <1>1
<1>3. \A m \in Link :
        /\ K2[m].owner = K[m].owner /\ K2[m].hello = K[m].hello /\ K2[m].retry = K[m].retry
        /\ K2[m].toCentral = K[m].toCentral /\ K2[m].toPeripheral = K[m].toPeripheral
        /\ K2[m].fromCentral = K[m].fromCentral /\ K2[m].fromPeripheral = K[m].fromPeripheral
        /\ K2[m].handler = K[m].handler \/ (m = l /\ K2[m].handler = p)
  BY <1>1
<1>4. /\ \A x \in Peer : \A h : Tied(P[x], h) => Tied(P2[x], h)
      /\ \A x \in Peer : \A y : Wrote(P[x], y) => Wrote(P2[x], y)
      /\ \A x \in Peer : \A job, y : OpensFor(job, P2[x], y) => OpensFor(job, P[x], y)
  BY <1>2 DEF Tied, Wrote, OpensFor
<1>5. \A x \in Peer : \A y : Silent(P[x], y) => Silent(P2[x], y)
  BY <1>1 DEF Silent
<1>6. Early(P[p]) /\ P[p].half # NoHalf
  <2>1. Early(P[p])
    BY DEF ChannelInv, AllEarly
  <2>. QED BY <2>1 DEF Early
<1>7. ~P[p].rekeyed => k.handler # p /\ k.fromPeripheral.peer # p
  BY DEF ChannelInv, Attached
<1>. HIDE DEF k
<1>8. ChannelTyped(P2, K2, W)
  BY <1>1, <1>3 DEF ChannelInv, ChannelTyped, JobsHavePeers
<1>9. SignalsTied(P2, W)
  <2>1. ASSUME NEW n \in Node, NEW i \in 1 .. Len(W[n])
        PROVE  W[n][i].half.by[2] = n /\ Tied(P2[W[n][i].half.by], W[n][i].half)
    <3>1. W[n][i] \in Frame
      BY <1>1
    <3>2. W[n][i].half.by \in Peer
      BY <3>1 DEF Frame, Half
    <3>. QED BY <3>2, <1>4 DEF ChannelInv, SignalsTied
  <2>. QED BY <2>1 DEF SignalsTied
<1>10. HalvesTied(P2)
  <2>1. ASSUME NEW x \in Peer, NEW h \in P2[x].deriving PROVE Pairs(h.by, x) /\ Tied(P2[h.by], h)
    <3>1. h \in P[x].deriving /\ h.by \in Peer
      BY <1>1, <1>2, KeyOfPeer
    <3>. QED BY <3>1, <1>4 DEF ChannelInv, HalvesTied
  <2>. QED BY <2>1 DEF HalvesTied
<1>11. KeysTied(P2, K2)
  <2>1. ASSUME NEW x \in Peer, P2[x].half # NoHalf
        PROVE  Pairs(P2[x].half.by, x) /\ (Live(P2, K2, x) => Tied(P2[P2[x].half.by], P2[x].half))
    <3>1. P2[x].half = P[x].half /\ P[x].half # NoHalf /\ P[x].half.by \in Peer
      BY <2>1, <1>1, <1>2, KeyOfPeer
    <3>2. Pairs(P[x].half.by, x) /\ (Live(P, K, x) => Tied(P[P[x].half.by], P[x].half))
      BY <3>1 DEF ChannelInv, KeysTied
    <3>3. ASSUME Live(P2, K2, x) PROVE Live(P, K, x)
      <4>1. CASE x = p
        BY <4>1 DEF Live, Idle
      <4>2. CASE x # p
        BY <3>3, <4>2, <1>1, <1>3 DEF Live
      <4>. QED BY <4>1, <4>2
    <3>. QED BY <3>1, <3>2, <3>3, <1>4
  <2>. QED BY <2>1 DEF KeysTied
<1>12. AllEarly(P2)
  <2>1. Early(s)
    BY <1>6 DEF Early
  <2>. QED BY <2>1, <1>1 DEF ChannelInv, AllEarly
<1>13. RecordsOK(P2, K2)
  <2>1. ASSUME NEW m \in Link, NEW rec, RecordOK(P, m, rec) PROVE RecordOK(P2, m, rec)
    BY <2>1, <1>2, <1>4 DEF RecordOK
  <2>2. \A m \in Link : CentralRecords(K2[m]) = CentralRecords(K[m])
                        /\ PeripheralRecords(K2[m]) = PeripheralRecords(K[m])
    BY <1>3 DEF CentralRecords, PeripheralRecords
  <2>3. \A m \in Link : LinkRecordsOK(P, m, K[m])
    BY DEF ChannelInv, RecordsOK
  <2>4. ASSUME NEW m \in Link PROVE LinkRecordsOK(P2, m, K2[m])
    BY <2>1, <2>2, <2>3 DEF LinkRecordsOK
  <2>. QED BY <2>4 DEF RecordsOK
<1>14. AllLinksFit(K2)
  <2>1. ASSUME NEW m \in Link PROVE LinkFit(m, K2[m])
    <3>1. LinkFit(m, K[m])
      BY DEF ChannelInv, AllLinksFit
    <3>. QED BY <3>1, <1>3 DEF LinkFit
  <2>. QED BY <2>1 DEF AllLinksFit
<1>15. Attached(P2, K2)
  <2>1. ASSUME NEW x \in Peer
        PROVE  /\ (P2[x].wanted # {} /\ ~P2[x].rekeyed) \/ P2[x].half = NoHalf =>
                    K2[LinkOf(x)].handler # x /\ K2[LinkOf(x)].fromPeripheral.peer # x
               /\ ~IsCentral(x) /\ P2[x].state = "open" => P2[x].central
    <3>1. /\ (P[x].wanted # {} /\ ~P[x].rekeyed) \/ P[x].half = NoHalf =>
               K[LinkOf(x)].handler # x /\ K[LinkOf(x)].fromPeripheral.peer # x
          /\ ~IsCentral(x) /\ P[x].state = "open" => P[x].central
      BY DEF ChannelInv, Attached
    <3>2. CASE x = p
      BY <3>2, <1>1, <1>6
    <3>3. CASE x # p
      BY <3>1, <3>3, <1>1, <1>3
    <3>. QED BY <3>2, <3>3
  <2>. QED BY <2>1 DEF Attached
<1>16. \A x \in Peer : QueueTo(K2[LinkOf(x)], x) = QueueTo(K[LinkOf(x)], x)
  BY <1>1, <1>3 DEF QueueTo
<1>17. \A q, x \in Peer : \A c : Run(P, K, q, x, c) => Run(P2, K2, q, x, c)
  BY <1>2, <1>16 DEF Run
<1>18. AllRun(P2, K2)
  BY <1>2, <1>16, <1>17 DEF ChannelInv, AllRun
<1>19. \A q \in Peer, x \in Peer : Nothing(P, K, q, x) => Nothing(P2, K2, q, x)
  BY <1>1, <1>3, <1>5 DEF Nothing
<1>20. Speakers(P2, K2)
  <2>1. \A rec : rec.by \in Peer /\ Speaks(P, rec) => Speaks(P2, rec)
    BY <1>2, <1>5 DEF Speaks
  <2>2. ASSUME NEW m \in Link PROVE LinkSpeaks(P2, K2, m)
    <3>1. LinkSpeaks(P, K, m)
      BY DEF ChannelInv, Speakers
    <3>2. \A rec \in PeripheralRecords(K[m]) : rec.by \in Peer /\ rec.to \in Peer
      BY RecordFacts DEF RecordOK
    <3>3. /\ \A i \in 1 .. Len(K[m].toPeripheral) : K[m].toPeripheral[i] \in PeripheralRecords(K[m])
          /\ K[m].hello # NoRecord => K[m].hello \in PeripheralRecords(K[m])
          /\ K[m].fromCentral.how # "none" => K[m].fromCentral.rec \in PeripheralRecords(K[m])
      BY RecordFacts
    <3>4. /\ \A i \in 1 .. Len(K2[m].toPeripheral) : Speaks(P2, K2[m].toPeripheral[i])
          /\ K2[m].hello # NoRecord => Speaks(P2, K2[m].hello)
          /\ Identifies(K2[m].fromCentral) => Speaks(P2, K2[m].fromCentral.rec)
      BY <2>1, <3>1, <3>2, <3>3, <1>3 DEF LinkSpeaks, Identifies
    <3>5. K2[m].fromCentral.how = "identify" /\ K2[m].fromCentral.gone =>
            Nothing(P2, K2, K2[m].fromCentral.rec.by, K2[m].fromCentral.rec.to)
      BY <1>19, <3>1, <3>2, <1>3, RecordFacts DEF LinkSpeaks
    <3>. QED BY <3>4, <3>5 DEF LinkSpeaks
  <2>. QED BY <2>2 DEF Speakers
<1>21. Taken(P2, K2)
  <2>1. ASSUME NEW m \in Link PROVE LinkTaken(P2, K2, m)
    <3>1. LinkTaken(P, K, m)
      BY DEF ChannelInv, Taken
    <3>2. \A rec \in PeripheralRecords(K[m]) \cup CentralRecords(K[m]) : RunAfter(P, K, rec) => RunAfter(P2, K2, rec)
      <4>1. \A rec \in PeripheralRecords(K[m]) \cup CentralRecords(K[m]) : rec.by \in Peer /\ rec.to \in Peer
        BY RecordFacts DEF RecordOK
      <4>. QED BY <4>1, <1>17 DEF RunAfter
    <3>3. /\ K[m].hello # NoRecord => K[m].hello \in PeripheralRecords(K[m])
          /\ K[m].fromCentral.how # "none" => K[m].fromCentral.rec \in PeripheralRecords(K[m])
          /\ K[m].fromPeripheral.how # "none" => K[m].fromPeripheral.rec \in CentralRecords(K[m])
                                                 /\ K[m].fromPeripheral.peer \in Peer
      BY RecordFacts
    <3>4. K2[m].fromPeripheral.how = "record" /\ K2[m].handler = K2[m].fromPeripheral.peer /\ ~P2[K2[m].handler].rekeyed
            => RunAfter(P2, K2, K2[m].fromPeripheral.rec)
      <4>1. CASE K2[m].handler = K[m].handler
        <5>1. K2[m].fromPeripheral = K[m].fromPeripheral
          BY <1>3
        <5>2. K[m].fromPeripheral.how # "none" =>
                P2[K[m].fromPeripheral.peer].rekeyed = P[K[m].fromPeripheral.peer].rekeyed
          BY <3>3, <1>2
        <5>3. K[m].fromPeripheral.how = "record" /\ K[m].handler = K[m].fromPeripheral.peer
                /\ ~P[K[m].fromPeripheral.peer].rekeyed => RunAfter(P, K, K[m].fromPeripheral.rec)
          BY <3>1 DEF LinkTaken
        <5>. QED BY <4>1, <5>1, <5>2, <5>3, <3>2, <3>3
      <4>2. CASE m = l /\ K2[m].handler = p
        BY <4>2, <1>2, <1>3, <1>7 DEF k
      <4>. QED BY <4>1, <4>2, <1>3
    <3>. QED BY <3>1, <3>2, <3>3, <3>4, <1>3 DEF LinkTaken, Identifies
  <2>. QED BY <2>1 DEF Taken
<1>22. AllExpect(P2, K2)
  <2>1. ASSUME NEW x \in Peer, P2[x].state = "open", ~P2[x].rekeyed PROVE Expects(P2, K2, x)
    <3>. DEFINE q == P[x].half.by
                m == LinkOf(x)
    <3>1. P2[x] = P[x] /\ x # p
      BY <2>1, <1>1
    <3>2. Expects(P, K, x) /\ q \in Peer /\ Pairs(q, x)
      BY <2>1, <3>1, OpenKnown
    <3>3. Wrote(P2[q], x)
      BY <3>2, <1>4 DEF Expects
    <3>4. Run(P, K, q, x, P[x].recvCtr) => Run(P2, K2, q, x, P[x].recvCtr)
      BY <3>2, <1>17
    <3>5. /\ m \in Link /\ Hearing(K2[m], x) => Hearing(K[m], x)
          /\ JobAt(K2[m], x) = JobAt(K[m], x)
      <4>1. m \in Link
        BY <1>1
      <4>. QED BY <4>1, <3>1, <1>3 DEF Hearing, JobAt
    <3>6. Nothing(P, K, q, x) => Nothing(P2, K2, q, x)
      BY <3>2, <1>19
    <3>. HIDE DEF m, q
    <3>. QED BY <3>1, <3>2, <3>3, <3>4, <3>5, <3>6, <1>3 DEF Expects, m, q
  <2>. QED BY <2>1 DEF AllExpect
<1>. QED BY <1>8, <1>9, <1>10, <1>11, <1>12, <1>13, <1>14, <1>15, <1>18, <1>20, <1>21, <1>22
     DEF ChannelInv

----
\* A peer that writes.

\* Who writes, writes for the peer whose key it has.
LEMMA WritesFor ==
  ASSUME NEW P, NEW K, NEW W, ChannelInv(P, K, W), NEW p \in Peer, ~Idle(P[p]), P[p].half # NoHalf
  PROVE  LET q == P[p].half.by IN
         q \in Peer /\ Pairs(q, p) /\ Tied(P[q], P[p].half) /\ Wrote(P[p], q)
<1>. DEFINE q == P[p].half.by
<1>1. P[p] \in BlePeer /\ P[p].half \in Half /\ q \in Peer /\ \A h \in P[p].deriving : h \in Half
  <2>1. P[p] \in BlePeer
    BY DEF ChannelInv, ChannelTyped
  <2>. QED BY <2>1, KeyOfPeer
<1>2. Pairs(q, p) /\ Tied(P[q], P[p].half)
  BY DEF ChannelInv, KeysTied, Live
<1>3. \A h \in P[p].deriving : h.by # q
  <2>1. ASSUME NEW h \in P[p].deriving, h.by = q PROVE FALSE
    <3>1. Tied(P[q], h)
      BY <2>1 DEF ChannelInv, HalvesTied
    <3>2. h.bid = P[p].half.bid
      BY <3>1, <1>2 DEF Tied
    <3>3. h = P[p].half
      BY <3>2, <2>1, <1>1 DEF Half
    <3>. QED BY <3>3, <2>1 DEF ChannelInv, AllEarly, Early
  <2>. QED BY <2>1
<1>. QED BY <1>1, <1>2, <1>3 DEF Wrote

\* The next record of a peer on its link keeps the invariant.
LEMMA SealedStep ==
  ASSUME NEW P, NEW K, NEW W, NEW P2, NEW K2, ChannelInv(P, K, W), NEW k2 \in LinkState, NEW p \in Peer,
         K2 = [K EXCEPT ![LinkOf(p)] = k2], NEW s \in BlePeer, P2 = [P EXCEPT ![p] = s],
         ~Idle(P[p]), P[p].half # NoHalf, IsCentral(p) => P[p].link # "none" /\ ~Silent(P[p], P[p].half.by),
         s.making = P[p].making, s.deriving = P[p].deriving, s.half = P[p].half, s.myBid = P[p].myBid,
         s.rekeyed = P[p].rekeyed, s.state = P[p].state, s.wanted = P[p].wanted, s.link = P[p].link,
         s.central = P[p].central, s.mapped = P[p].mapped, s.timer = P[p].timer, s.recvCtr = P[p].recvCtr,
         s.sendCtr = P[p].sendCtr + 1,
         NEW rec \in AnyRecord, rec.by = p, rec.to = P[p].half.by, rec.ctr = P[p].sendCtr,
         ~IsCentral(p) => rec.tag = P[p].half.bid,
         k2.toPeripheral = IF IsCentral(p) THEN Append(K[LinkOf(p)].toPeripheral, rec) ELSE K[LinkOf(p)].toPeripheral,
         k2.toCentral = IF IsCentral(p) THEN K[LinkOf(p)].toCentral ELSE Append(K[LinkOf(p)].toCentral, rec),
         k2.owner = K[LinkOf(p)].owner, k2.hello = K[LinkOf(p)].hello, k2.retry = K[LinkOf(p)].retry,
         k2.handler = K[LinkOf(p)].handler, k2.fromCentral = K[LinkOf(p)].fromCentral,
         k2.fromPeripheral = K[LinkOf(p)].fromPeripheral
  PROVE  ChannelInv(P2, K2, W)
<1>. DEFINE l == LinkOf(p)
            k == K[l]
            q == P[p].half.by
<1>1. /\ l \in Link /\ k \in LinkState
      /\ K \in [Link -> LinkState] /\ K2 \in [Link -> LinkState]
      /\ K2[l] = k2 /\ \A m \in Link : m # l => K2[m] = K[m]
      /\ P \in [Peer -> BlePeer] /\ P2 \in [Peer -> BlePeer]
      /\ P2[p] = s /\ \A x \in Peer : x # p => P2[x] = P[x]
      /\ \A x \in Peer : LinkOf(x) \in Link /\ P[x] \in BlePeer /\ P2[x] \in BlePeer
      /\ W \in [Node -> Seq(Frame)]
  BY PeerFacts DEF ChannelInv, ChannelTyped
<1>2. \A x \in Peer :
        /\ P2[x].making = P[x].making /\ P2[x].deriving = P[x].deriving /\ P2[x].half = P[x].half
        /\ P2[x].myBid = P[x].myBid /\ P2[x].rekeyed = P[x].rekeyed /\ P2[x].state = P[x].state
        /\ P2[x].wanted = P[x].wanted /\ P2[x].link = P[x].link /\ P2[x].central = P[x].central
        /\ P2[x].mapped = P[x].mapped /\ P2[x].timer = P[x].timer /\ P2[x].recvCtr = P[x].recvCtr
        /\ P2[x].sendCtr = IF x = p THEN P[x].sendCtr + 1 ELSE P[x].sendCtr
  BY <1>1
<1>3. \A m \in Link :
        /\ K2[m].owner = K[m].owner /\ K2[m].hello = K[m].hello /\ K2[m].retry = K[m].retry
        /\ K2[m].fromCentral = K[m].fromCentral /\ K2[m].fromPeripheral = K[m].fromPeripheral
        /\ K2[m].handler = K[m].handler
  BY <1>1
<1>4. /\ \A x \in Peer : \A h : Tied(P[x], h) => Tied(P2[x], h)
      /\ \A x \in Peer : \A y : Wrote(P[x], y) => Wrote(P2[x], y)
      /\ \A x \in Peer : \A y : Silent(P[x], y) <=> Silent(P2[x], y)
      /\ \A x \in Peer : \A job, y : OpensFor(job, P2[x], y) => OpensFor(job, P[x], y)
      /\ \A x \in Peer : Idle(P2[x]) <=> Idle(P[x])
  BY <1>2 DEF Tied, Wrote, OpensFor, Silent, Idle
<1>5. /\ q \in Peer /\ Pairs(q, p) /\ Pairs(p, q) /\ Tied(P[q], P[p].half) /\ Wrote(P[p], q)
      /\ LinkOf(q) = l /\ (IsCentral(q) <=> ~IsCentral(p)) /\ P[p].sendCtr \in Nat
  <2>1. q \in Peer /\ Pairs(q, p) /\ Tied(P[q], P[p].half) /\ Wrote(P[p], q)
    BY WritesFor
  <2>2. P[p].sendCtr \in Nat
    BY <1>1, KeyOfPeer
  <2>. QED BY <2>1, <2>2, PairFacts
<1>6. RecordOK(P, l, rec)
  BY <1>5 DEF RecordOK, Tied
<1>7. ChannelTyped(P2, K2, W)
  <2>1. \A m \in Link : JobsHavePeers(K2[m])
    BY <1>3 DEF ChannelInv, ChannelTyped, JobsHavePeers
  <2>. QED BY <2>1, <1>1 DEF ChannelTyped
<1>8. SignalsTied(P2, W)
  <2>1. ASSUME NEW n \in Node, NEW i \in 1 .. Len(W[n])
        PROVE  W[n][i].half.by[2] = n /\ Tied(P2[W[n][i].half.by], W[n][i].half)
    <3>1. W[n][i] \in Frame
      BY <1>1
    <3>2. W[n][i].half.by \in Peer
      BY <3>1 DEF Frame, Half
    <3>. QED BY <3>2, <1>4 DEF ChannelInv, SignalsTied
  <2>. QED BY <2>1 DEF SignalsTied
<1>9. HalvesTied(P2)
  <2>1. ASSUME NEW x \in Peer, NEW h \in P2[x].deriving PROVE Pairs(h.by, x) /\ Tied(P2[h.by], h)
    <3>1. h \in P[x].deriving /\ h.by \in Peer
      BY <1>1, <1>2, KeyOfPeer
    <3>. QED BY <3>1, <1>4 DEF ChannelInv, HalvesTied
  <2>. QED BY <2>1 DEF HalvesTied
<1>10. KeysTied(P2, K2)
  <2>1. ASSUME NEW x \in Peer, P2[x].half # NoHalf
        PROVE  Pairs(P2[x].half.by, x) /\ (Live(P2, K2, x) => Tied(P2[P2[x].half.by], P2[x].half))
    <3>1. P2[x].half = P[x].half /\ P[x].half # NoHalf /\ P[x].half.by \in Peer /\ LinkOf(x) \in Link
      BY <2>1, <1>1, <1>2, KeyOfPeer
    <3>2. Pairs(P[x].half.by, x) /\ (Live(P, K, x) => Tied(P[P[x].half.by], P[x].half))
      BY <3>1 DEF ChannelInv, KeysTied
    <3>3. Live(P2, K2, x) => Live(P, K, x)
      BY <3>1, <1>3, <1>4 DEF Live
    <3>. QED BY <3>1, <3>2, <3>3, <1>4
  <2>. QED BY <2>1 DEF KeysTied
<1>11. AllEarly(P2)
  <2>1. ASSUME NEW x \in Peer PROVE Early(P2[x])
    <3>1. Early(P[x])
      BY DEF ChannelInv, AllEarly
    <3>. QED BY <3>1, <1>2 DEF Early
  <2>. QED BY <2>1 DEF AllEarly
<1>12. AllLinksFit(K2)
  <2>1. ASSUME NEW m \in Link PROVE LinkFit(m, K2[m])
    <3>1. LinkFit(m, K[m])
      BY DEF ChannelInv, AllLinksFit
    <3>. QED BY <3>1, <1>3 DEF LinkFit
  <2>. QED BY <2>1 DEF AllLinksFit
<1>13. Attached(P2, K2)
  <2>1. ASSUME NEW x \in Peer
        PROVE  /\ (P2[x].wanted # {} /\ ~P2[x].rekeyed) \/ P2[x].half = NoHalf =>
                    K2[LinkOf(x)].handler # x /\ K2[LinkOf(x)].fromPeripheral.peer # x
               /\ ~IsCentral(x) /\ P2[x].state = "open" => P2[x].central
    <3>1. /\ (P[x].wanted # {} /\ ~P[x].rekeyed) \/ P[x].half = NoHalf =>
               K[LinkOf(x)].handler # x /\ K[LinkOf(x)].fromPeripheral.peer # x
          /\ ~IsCentral(x) /\ P[x].state = "open" => P[x].central
      BY DEF ChannelInv, Attached
    <3>2. LinkOf(x) \in Link
      BY <1>1
    <3>. QED BY <3>1, <3>2, <1>2, <1>3
  <2>. QED BY <2>1 DEF Attached
<1>14. \A m \in Link :
        /\ \A i \in 1 .. Len(K2[m].toPeripheral) :
             \/ \E j \in 1 .. Len(K[m].toPeripheral) : K2[m].toPeripheral[i] = K[m].toPeripheral[j]
             \/ m = l /\ IsCentral(p) /\ K2[m].toPeripheral[i] = rec
        /\ \A i \in 1 .. Len(K2[m].toCentral) :
             \/ \E j \in 1 .. Len(K[m].toCentral) : K2[m].toCentral[i] = K[m].toCentral[j]
             \/ m = l /\ ~IsCentral(p) /\ K2[m].toCentral[i] = rec
  <2>1. \A Q \in Seq(AnyRecord) : \A i \in 1 .. Len(Append(Q, rec)) :
           (\E j \in 1 .. Len(Q) : Append(Q, rec)[i] = Q[j]) \/ Append(Q, rec)[i] = rec
    <3>1. ASSUME NEW Q \in Seq(AnyRecord), NEW i \in 1 .. Len(Append(Q, rec))
          PROVE  (\E j \in 1 .. Len(Q) : Append(Q, rec)[i] = Q[j]) \/ Append(Q, rec)[i] = rec
      BY <3>1, AppendEntries
    <3>. QED BY <3>1
  <2>2. k.toPeripheral \in Seq(AnyRecord) /\ k.toCentral \in Seq(AnyRecord)
    BY <1>1 DEF LinkState
  <2>3. /\ \A m \in Link : m # l =>
             K2[m].toPeripheral = K[m].toPeripheral /\ K2[m].toCentral = K[m].toCentral
        /\ IsCentral(p) => K2[l].toPeripheral = Append(k.toPeripheral, rec) /\ K2[l].toCentral = k.toCentral
        /\ ~IsCentral(p) => K2[l].toCentral = Append(k.toCentral, rec) /\ K2[l].toPeripheral = k.toPeripheral
    BY <1>1
  <2>4. K[l] = k
    OBVIOUS
  <2>. HIDE DEF l, k
  <2>5. ASSUME NEW m \in Link, m # l
        PROVE  /\ \A i \in 1 .. Len(K2[m].toPeripheral) :
                    \E j \in 1 .. Len(K[m].toPeripheral) : K2[m].toPeripheral[i] = K[m].toPeripheral[j]
               /\ \A i \in 1 .. Len(K2[m].toCentral) :
                    \E j \in 1 .. Len(K[m].toCentral) : K2[m].toCentral[i] = K[m].toCentral[j]
    <3>1. K2[m].toPeripheral = K[m].toPeripheral /\ K2[m].toCentral = K[m].toCentral
      BY <2>3, <2>5
    <3>. QED BY <3>1
  <2>6. /\ \A i \in 1 .. Len(K2[l].toPeripheral) :
             \/ \E j \in 1 .. Len(k.toPeripheral) : K2[l].toPeripheral[i] = k.toPeripheral[j]
             \/ IsCentral(p) /\ K2[l].toPeripheral[i] = rec
        /\ \A i \in 1 .. Len(K2[l].toCentral) :
             \/ \E j \in 1 .. Len(k.toCentral) : K2[l].toCentral[i] = k.toCentral[j]
             \/ ~IsCentral(p) /\ K2[l].toCentral[i] = rec
    <3>1. CASE IsCentral(p)
      <4>1. K2[l].toPeripheral = Append(k.toPeripheral, rec) /\ K2[l].toCentral = k.toCentral
        BY <2>3, <3>1
      <4>2. \A i \in 1 .. Len(Append(k.toPeripheral, rec)) :
               (\E j \in 1 .. Len(k.toPeripheral) : Append(k.toPeripheral, rec)[i] = k.toPeripheral[j])
               \/ Append(k.toPeripheral, rec)[i] = rec
        BY <2>1, <2>2
      <4>. QED BY <3>1, <4>1, <4>2
    <3>2. CASE ~IsCentral(p)
      <4>1. K2[l].toCentral = Append(k.toCentral, rec) /\ K2[l].toPeripheral = k.toPeripheral
        BY <2>3, <3>2
      <4>2. \A i \in 1 .. Len(Append(k.toCentral, rec)) :
               (\E j \in 1 .. Len(k.toCentral) : Append(k.toCentral, rec)[i] = k.toCentral[j])
               \/ Append(k.toCentral, rec)[i] = rec
        BY <2>1, <2>2
      <4>. QED BY <3>2, <4>1, <4>2
    <3>. QED BY <3>1, <3>2
  <2>. QED BY <2>4, <2>5, <2>6
<1>15. RecordsOK(P2, K2)
  <2>1. ASSUME NEW m \in Link, NEW z, RecordOK(P, m, z) PROVE RecordOK(P2, m, z)
    BY <2>1, <1>2, <1>4 DEF RecordOK
  <2>2. ASSUME NEW m \in Link PROVE LinkRecordsOK(P2, m, K2[m])
    <3>1. \A z \in CentralRecords(K2[m]) :
            \/ \E i \in 1 .. Len(K2[m].toCentral) : z = K2[m].toCentral[i]
            \/ K[m].fromPeripheral.how # "none" /\ z = K[m].fromPeripheral.rec
      BY <1>3 DEF CentralRecords
    <3>2. \A z \in PeripheralRecords(K2[m]) :
            \/ \E i \in 1 .. Len(K2[m].toPeripheral) : z = K2[m].toPeripheral[i]
            \/ K[m].hello # NoRecord /\ z = K[m].hello
            \/ K[m].fromCentral.how # "none" /\ z = K[m].fromCentral.rec
      BY <1>3 DEF PeripheralRecords
    <3>3. \A z \in CentralRecords(K2[m]) : z \in CentralRecords(K[m]) \/ (m = l /\ ~IsCentral(p) /\ z = rec)
      BY <3>1, <1>14 DEF CentralRecords
    <3>4. \A z \in PeripheralRecords(K2[m]) : z \in PeripheralRecords(K[m]) \/ (m = l /\ IsCentral(p) /\ z = rec)
      BY <3>2, <1>14 DEF PeripheralRecords
    <3>5. /\ \A z \in CentralRecords(K[m]) : RecordOK(P, m, z) /\ IsCentral(z.to)
          /\ \A z \in PeripheralRecords(K[m]) : RecordOK(P, m, z) /\ ~IsCentral(z.to)
      BY RecordFacts
    <3>. QED BY <2>1, <3>3, <3>4, <3>5, <1>5, <1>6 DEF LinkRecordsOK
  <2>. QED BY <2>2 DEF RecordsOK
<1>16. ASSUME NEW a \in Peer, NEW x \in Peer, Pairs(a, x)
       PROVE  /\ Rising(QueueTo(K2[LinkOf(x)], x), a, x)
              /\ \A b : Run(P, K, a, x, b) => Run(P2, K2, a, x, b)
  <2>. DEFINE Q == QueueTo(K[LinkOf(x)], x)
              Q2 == QueueTo(K2[LinkOf(x)], x)
              top == P[a].sendCtr
              top2 == P2[a].sendCtr
              going == P[a].half.by = x
  <2>1. Q \in Seq(AnyRecord) /\ top \in Nat /\ Rising(Q, a, x)
    BY <1>16, QueueTyped DEF ChannelInv, AllRun
  <2>2. \/ Q2 = Q
        \/ Q2 = Append(Q, rec) /\ LinkOf(x) = l
    BY <1>1 DEF QueueTo
  <2>3. a = p => Q2 = Append(Q, rec)
    <3>1. a = p => LinkOf(x) = l /\ (IsCentral(x) <=> ~IsCentral(p))
      BY <1>16, PairFacts
    <3>. QED BY <3>1, <1>1 DEF QueueTo
  <2>4. \A b : /\ Run(P, K, a, x, b) <=> RunFrom(Q, a, x, b, top, going)
               /\ Run(P2, K2, a, x, b) <=> RunFrom(Q2, a, x, b, top2, going)
    BY <1>2 DEF Run
  <2>5. /\ IsFor(rec, a, x) <=> (a = p /\ x = q)
        /\ a = p => (going <=> x = q) /\ top2 = top + 1 /\ rec.ctr = top
        /\ a # p => top2 = top
        /\ going \in BOOLEAN
    BY <1>2 DEF IsFor
  <2>. HIDE DEF Q, Q2, top, top2, going
  <2>6. CASE a # p
    <3>1. ~IsFor(rec, a, x) /\ top2 = top /\ going \in BOOLEAN
      BY <2>5, <2>6
    <3>2. CASE Q2 = Q
      BY <3>1, <3>2, <2>1, <2>4 DEF Q2
    <3>3. CASE Q2 = Append(Q, rec)
      <4>1. Rising(Append(Q, rec), a, x)
            /\ \A b : RunFrom(Q, a, x, b, top, going) => RunFrom(Append(Q, rec), a, x, b, top, going)
        BY <3>1, <2>1, RunAppendOther
      <4>. QED BY <4>1, <3>1, <3>3, <2>4 DEF Q2
    <3>. QED BY <3>2, <3>3, <2>2
  <2>7. CASE a = p /\ x = q
    <3>1. going = TRUE /\ IsFor(rec, a, x) /\ rec.ctr = top /\ top2 = top + 1 /\ Q2 = Append(Q, rec)
      BY <2>3, <2>5, <2>7
    <3>2. ASSUME NEW b, RunFrom(Q, a, x, b, top, TRUE)
          PROVE  Rising(Append(Q, rec), a, x) /\ RunFrom(Append(Q, rec), a, x, b, top + 1, TRUE)
      BY <3>1, <3>2, <2>1, RunAppendMine
    <3>3. \E b : Run(P, K, a, x, b)
      BY <1>16 DEF ChannelInv, AllRun
    <3>. QED BY <3>1, <3>2, <3>3, <2>4 DEF Q2
  <2>8. CASE a = p /\ x # q
    <3>1. going = FALSE /\ ~IsFor(rec, a, x) /\ top2 = top + 1 /\ Q2 = Append(Q, rec)
      BY <2>3, <2>5, <2>8
    <3>2. Rising(Append(Q, rec), a, x)
          /\ \A b : RunFrom(Q, a, x, b, top, FALSE) => RunFrom(Append(Q, rec), a, x, b, top, FALSE)
      BY <3>1, <2>1, RunAppendOther
    <3>3. Append(Q, rec) \in Seq(AnyRecord) /\ top + 1 \in Nat /\ top <= top + 1
      BY <2>1
    <3>4. ASSUME NEW b, RunFrom(Append(Q, rec), a, x, b, top, FALSE)
          PROVE  RunFrom(Append(Q, rec), a, x, b, top + 1, FALSE)
      BY <3>3, <3>4, <2>1, RunWeaker
    <3>. QED BY <3>1, <3>2, <3>4, <2>4 DEF Q2
  <2>. QED BY <2>6, <2>7, <2>8
<1>17. AllRun(P2, K2)
  <2>1. ASSUME NEW a \in Peer, NEW x \in Peer, Pairs(a, x)
        PROVE  Rising(QueueTo(K2[LinkOf(x)], x), a, x) /\ \E b \in 0 .. P2[a].sendCtr : Run(P2, K2, a, x, b)
    <3>1. PICK b : Run(P, K, a, x, b)
      BY <2>1 DEF ChannelInv, AllRun
    <3>2. Run(P2, K2, a, x, b)
      BY <3>1, <2>1, <1>16
    <3>3. b \in 0 .. P2[a].sendCtr
      BY <3>2, <1>7, QueueTyped
    <3>. QED BY <3>2, <3>3, <2>1, <1>16
  <2>. QED BY <2>1 DEF AllRun
<1>18. ASSUME NEW a \in Peer, NEW x \in Peer, Nothing(P, K, a, x) PROVE Nothing(P2, K2, a, x)
  <2>1. Silent(P2[a], x)
    BY <1>4, <1>18 DEF Nothing
  <2>2. ASSUME NEW i \in 1 .. Len(K2[LinkOf(x)].toPeripheral), IsFor(K2[LinkOf(x)].toPeripheral[i], a, x)
        PROVE  FALSE
    <3>1. CASE \E j \in 1 .. Len(K[LinkOf(x)].toPeripheral) :
                 K2[LinkOf(x)].toPeripheral[i] = K[LinkOf(x)].toPeripheral[j]
      BY <2>2, <3>1, <1>18 DEF Nothing, NoneFrom
    <3>2. CASE IsCentral(p) /\ K2[LinkOf(x)].toPeripheral[i] = rec
      <4>1. a = p /\ x = q
        BY <2>2, <3>2 DEF IsFor
      <4>. QED BY <3>2, <4>1, <1>18 DEF Nothing
    <3>3. LinkOf(x) \in Link
      BY <1>1
    <3>. QED BY <3>1, <3>2, <3>3, <1>14
  <2>. QED BY <2>1, <2>2 DEF Nothing, NoneFrom
<1>19. Speakers(P2, K2)
  <2>1. \A z : z.by \in Peer /\ Speaks(P, z) => Speaks(P2, z)
    BY <1>2, <1>4 DEF Speaks
  <2>2. ASSUME NEW m \in Link PROVE LinkSpeaks(P2, K2, m)
    <3>1. LinkSpeaks(P, K, m)
      BY DEF ChannelInv, Speakers
    <3>2. \A z \in PeripheralRecords(K[m]) : z.by \in Peer /\ z.to \in Peer
      BY RecordFacts DEF RecordOK
    <3>3. /\ \A i \in 1 .. Len(K[m].toPeripheral) : K[m].toPeripheral[i] \in PeripheralRecords(K[m])
          /\ K[m].hello # NoRecord => K[m].hello \in PeripheralRecords(K[m])
          /\ K[m].fromCentral.how # "none" => K[m].fromCentral.rec \in PeripheralRecords(K[m])
      BY RecordFacts
    <3>4. IsCentral(p) => Speaks(P2, rec)
      BY <1>2 DEF Speaks
    <3>5. \A i \in 1 .. Len(K2[m].toPeripheral) : Speaks(P2, K2[m].toPeripheral[i])
      <4>1. \A j \in 1 .. Len(K[m].toPeripheral) : Speaks(P2, K[m].toPeripheral[j])
        BY <2>1, <3>1, <3>2, <3>3 DEF LinkSpeaks
      <4>. QED BY <4>1, <3>4, <1>14
    <3>6. /\ K2[m].hello # NoRecord => Speaks(P2, K2[m].hello)
          /\ Identifies(K2[m].fromCentral) => Speaks(P2, K2[m].fromCentral.rec)
      BY <2>1, <3>1, <3>2, <3>3, <1>3 DEF LinkSpeaks, Identifies
    <3>7. K2[m].fromCentral.how = "identify" /\ K2[m].fromCentral.gone =>
            Nothing(P2, K2, K2[m].fromCentral.rec.by, K2[m].fromCentral.rec.to)
      BY <1>18, <3>1, <3>2, <3>3, <1>3 DEF LinkSpeaks
    <3>. QED BY <3>5, <3>6, <3>7 DEF LinkSpeaks
  <2>. QED BY <2>2 DEF Speakers
<1>20. Taken(P2, K2)
  <2>1. ASSUME NEW m \in Link PROVE LinkTaken(P2, K2, m)
    <3>1. LinkTaken(P, K, m)
      BY DEF ChannelInv, Taken
    <3>2. \A z \in PeripheralRecords(K[m]) \cup CentralRecords(K[m]) : RunAfter(P, K, z) => RunAfter(P2, K2, z)
      <4>1. \A z \in PeripheralRecords(K[m]) \cup CentralRecords(K[m]) : z.by \in Peer /\ z.to \in Peer /\ Pairs(z.by, z.to)
        BY RecordFacts DEF RecordOK
      <4>. QED BY <4>1, <1>16 DEF RunAfter
    <3>3. /\ K[m].hello # NoRecord => K[m].hello \in PeripheralRecords(K[m])
          /\ K[m].fromCentral.how # "none" => K[m].fromCentral.rec \in PeripheralRecords(K[m])
          /\ K[m].fromPeripheral.how # "none" => K[m].fromPeripheral.rec \in CentralRecords(K[m])
                                                 /\ K[m].fromPeripheral.peer \in Peer
      BY RecordFacts
    <3>4. K[m].fromPeripheral.how # "none" =>
            P2[K[m].fromPeripheral.peer].rekeyed = P[K[m].fromPeripheral.peer].rekeyed
      BY <3>3, <1>2
    <3>. HIDE DEF k, l, q
    <3>5. /\ K2[m].hello = K[m].hello /\ K2[m].owner = K[m].owner /\ K2[m].handler = K[m].handler
          /\ K2[m].fromCentral = K[m].fromCentral /\ K2[m].fromPeripheral = K[m].fromPeripheral
      BY <1>3
    <3>. QED BY ONLY <3>1, <3>2, <3>3, <3>4, <3>5 DEF LinkTaken, Identifies
  <2>. QED BY <2>1 DEF Taken
<1>21. AllExpect(P2, K2)
  <2>1. ASSUME NEW x \in Peer, P2[x].state = "open", ~P2[x].rekeyed PROVE Expects(P2, K2, x)
    <3>. DEFINE a == P[x].half.by
                m == LinkOf(x)
    <3>1. P[x].state = "open" /\ ~P[x].rekeyed /\ P2[x].half = P[x].half /\ P2[x].recvCtr = P[x].recvCtr
      BY <2>1, <1>2
    <3>2. Expects(P, K, x) /\ a \in Peer /\ Pairs(a, x)
      BY <3>1, OpenKnown
    <3>3. Wrote(P2[a], x)
      BY <3>2, <1>4 DEF Expects
    <3>4. Run(P, K, a, x, P[x].recvCtr) => Run(P2, K2, a, x, P[x].recvCtr)
      BY <3>2, <1>16
    <3>5. /\ K2[m].owner = K[m].owner /\ K2[m].handler = K[m].handler
          /\ K2[m].fromCentral = K[m].fromCentral /\ K2[m].fromPeripheral = K[m].fromPeripheral
      BY <1>1, <1>3
    <3>6. Nothing(P, K, a, x) => Nothing(P2, K2, a, x)
      BY <3>2, <1>18
    <3>. HIDE DEF m, a
    <3>. QED BY <3>1, <3>2, <3>3, <3>4, <3>5, <3>6 DEF Expects, Hearing, JobAt, m, a
  <2>. QED BY <2>1 DEF AllExpect
<1>. QED BY <1>7, <1>8, <1>9, <1>10, <1>11, <1>12, <1>13, <1>15, <1>17, <1>19, <1>20, <1>21 DEF ChannelInv

\* The link is gone: nothing is on it, and what is being looked into is the last
\* of its central.
LEMMA LostStep ==
  ASSUME NEW P, NEW K, NEW W, NEW K2, ChannelInv(P, K, W), NEW l \in Link, NEW k2 \in LinkState,
         JobsHavePeers(k2), K2 = [K EXCEPT ![l] = k2],
         K[l].owner = NoPeer, K[l].handler = NoPeer, k2.owner = NoPeer, k2.handler = NoPeer,
         k2.toCentral = <<>>, k2.toPeripheral = <<>>, k2.hello = NoRecord, ~k2.retry,
         k2.fromPeripheral = K[l].fromPeripheral,
         k2.fromCentral.how # "none" =>
           /\ k2.fromCentral.how = K[l].fromCentral.how /\ k2.fromCentral.rec = K[l].fromCentral.rec
           /\ k2.fromCentral.peer = K[l].fromCentral.peer /\ k2.fromCentral.gone,
         k2.fromCentral.how = "identify" => Silent(P[k2.fromCentral.rec.by], k2.fromCentral.rec.to)
  PROVE  ChannelInv(P, K2, W)
<1>1. /\ K[l] \in LinkState /\ JobsHavePeers(K[l]) /\ LinkFit(l, K[l])
      /\ LinkSpeaks(P, K, l) /\ LinkTaken(P, K, l)
  BY LinkKnown
<1>2. K2[l] = k2
  BY DEF ChannelInv, ChannelTyped
<1>3. NoPeer \notin Peer /\ \A x \in Peer : P[x] \in BlePeer
  BY PeerFacts DEF ChannelInv, ChannelTyped
<1>4. LinkFit(l, k2)
  BY <1>1 DEF LinkFit
<1>5. CentralRecords(k2) \subseteq CentralRecords(K[l])
  BY DEF CentralRecords
<1>6. PeripheralRecords(k2) \subseteq PeripheralRecords(K[l])
  BY DEF PeripheralRecords
<1>7. \A x \in Peer : OpensFor(k2.fromCentral, P[x], x) \/ OpensFor(k2.fromPeripheral, P[x], x)
                        => Live(P, K, x)
  <2>1. ASSUME NEW x \in Peer, OpensFor(k2.fromCentral, P[x], x) PROVE LinkOf(x) = l /\ Live(P, K, x)
    <3>1. OpensFor(K[l].fromCentral, P[x], x)
      BY <2>1 DEF OpensFor
    <3>2. LinkOf(x) = l
      <4>1. K[l].fromCentral.how # "none" /\ K[l].fromCentral.rec.to = x
        BY <3>1 DEF OpensFor
      <4>. QED BY <4>1, RecordFacts DEF RecordOK
    <3>. QED BY <3>1, <3>2 DEF Live
  <2>2. ASSUME NEW x \in Peer, OpensFor(k2.fromPeripheral, P[x], x) PROVE Live(P, K, x)
    <3>1. OpensFor(K[l].fromPeripheral, P[x], x)
      BY <2>2 DEF OpensFor
    <3>2. LinkOf(x) = l
      <4>1. K[l].fromPeripheral.how # "none" /\ K[l].fromPeripheral.rec.to = x
        BY <3>1 DEF OpensFor
      <4>. QED BY <4>1, RecordFacts DEF RecordOK
    <3>. QED BY <3>1, <3>2 DEF Live
  <2>. QED BY <2>1, <2>2
<1>8. \A x \in Peer, q \in Peer : LinkOf(x) = l /\ Pairs(q, x) =>
        Rising(QueueTo(k2, x), q, x) /\ \E b \in 0 .. P[q].sendCtr : Run(P, K2, q, x, b)
  <2>1. ASSUME NEW x \in Peer, NEW q \in Peer, LinkOf(x) = l, Pairs(q, x)
        PROVE  Rising(QueueTo(k2, x), q, x) /\ \E b \in 0 .. P[q].sendCtr : Run(P, K2, q, x, b)
    <3>1. P[q].sendCtr \in Nat
      BY <1>3, KeyOfPeer
    <3>2. QueueTo(k2, x) = <<>>
      BY DEF QueueTo
    <3>3. NoneFrom(<<>>, q, x)
      BY DEF NoneFrom
    <3>4. Rising(<<>>, q, x) /\ RunFrom(<<>>, q, x, P[q].sendCtr, P[q].sendCtr, P[q].half.by = x)
      BY <3>1, <3>3, RunOfNone
    <3>5. P[q].sendCtr \in 0 .. P[q].sendCtr
      BY <3>1
    <3>. QED BY <2>1, <1>2, <3>2, <3>4, <3>5 DEF Run
  <2>. QED BY <2>1
<1>9. \A a, x \in Peer : LinkOf(x) = l /\ Silent(P[a], x) => Nothing(P, K2, a, x)
  BY <1>2 DEF Nothing, NoneFrom
<1>10. LinkSpeaks(P, K2, l)
  <2>1. k2.fromCentral.how = "identify" =>
          Nothing(P, K2, k2.fromCentral.rec.by, k2.fromCentral.rec.to)
    <3>1. ASSUME k2.fromCentral.how = "identify"
          PROVE  /\ k2.fromCentral.rec.by \in Peer /\ k2.fromCentral.rec.to \in Peer
                 /\ LinkOf(k2.fromCentral.rec.to) = l
      <4>1. K[l].fromCentral.how # "none" /\ k2.fromCentral.rec = K[l].fromCentral.rec
        BY <3>1
      <4>. QED BY <4>1, RecordFacts DEF RecordOK
    <3>. QED BY <3>1, <1>9
  <2>2. ~Identifies(k2.fromCentral)
    BY DEF Identifies
  <2>. QED BY <1>2, <2>1, <2>2 DEF LinkSpeaks
<1>11. LinkTaken(P, K2, l)
  <2>1. /\ ~Identifies(k2.fromCentral) /\ k2.hello = NoRecord
        /\ ~(k2.fromCentral.how = "record" /\ k2.owner = k2.fromCentral.peer)
        /\ ~(k2.fromPeripheral.how = "record" /\ k2.handler = k2.fromPeripheral.peer)
    BY <1>1, <1>3 DEF Identifies, JobsHavePeers
  <2>. QED BY <1>2, <2>1 DEF LinkTaken
<1>12. ASSUME NEW x \in Peer, LinkOf(x) = l, P[x].state = "open", ~P[x].rekeyed PROVE Expects(P, K2, x)
  <2>1. Expects(P, K, x) /\ P[x].half.by \in Peer /\ Pairs(P[x].half.by, x)
    BY <1>12, OpenKnown
  <2>2. ~Hearing(k2, x)
    BY <1>3 DEF Hearing
  <2>3. ~IsCentral(x) => /\ ~(k2.fromCentral.how = "record" /\ k2.fromCentral.peer = x)
                         /\ Silent(P[P[x].half.by], x)
    BY <2>1, <1>3, <1>12 DEF Expects, Nothing
  <2>. QED BY <2>1, <2>2, <2>3, <1>2, <1>9, <1>12 DEF Expects
<1>. QED BY <1>4, <1>5, <1>6, <1>7, <1>8, <1>10, <1>11, <1>12, LinkStep

----
\* The methods, and what follows for the links.

\* What does not change is quiet, and so is what only waits to be sent.
LEMMA ItselfQuiet ==
  /\ \A r : Quieter(r, r)
  /\ \A r \in BlePeer, q \in Seq({"hello", "data"}) :
       [r EXCEPT !.queue = q] \in BlePeer /\ Quieter([r EXCEPT !.queue = q], r)
<1>1. \A r : Quieter(r, r)
  BY DEF Quieter
<1>2. ASSUME NEW r \in BlePeer, NEW q \in Seq({"hello", "data"})
      PROVE  [r EXCEPT !.queue = q] \in BlePeer /\ Quieter([r EXCEPT !.queue = q], r)
  BY <1>2 DEF BlePeer, Quieter
<1>. QED BY <1>1, <1>2

\* Quiet after quiet.
LEMMA QuietTwice ==
  ASSUME NEW r, NEW s, NEW t, Quieter(s, r), Quieter(t, s), t.state # "open" \/ s.state = "open"
  PROVE  Quieter(t, r)
BY DEF Quieter

\* _release, _fail and _drop only take.
LEMMA EndsQuiet ==
  ASSUME NEW r \in BlePeer
  PROVE  /\ Quieter(Closed(r), r) /\ Closed(r) \in BlePeer /\ Closed(r).state = "closed"
         /\ Quieter(Close(r), r) /\ Close(r) \in BlePeer /\ Close(r).state = "closed"
         /\ Quieter(Fail(r), r) /\ Fail(r) \in BlePeer /\ Fail(r).state \in {"failed", "closed"}
<1>. DEFINE s == Release(r)
            c == [s EXCEPT !.state = "closed", !.mapped = FALSE]
            f == [s EXCEPT !.state = "failed", !.resting = TRUE]
<1>1. LetGo(r.link) \in {"none", "ownClosing", "sharedClosing"} /\ (r.link = "none" => LetGo(r.link) = "none")
  BY LetGoType DEF BlePeer, LetGo
<1>2. /\ s \in BlePeer /\ ~s.timer /\ ~s.central /\ s.wanted \subseteq r.wanted
      /\ s.link = LetGo(r.link) /\ s.making = r.making /\ s.deriving = r.deriving
      /\ s.mapped = r.mapped
  BY ReleaseGives
<1>3. s.half = r.half /\ s.myBid = r.myBid /\ s.rekeyed = r.rekeyed /\ s.sendCtr = r.sendCtr
  BY <1>1 DEF Release, BlePeer
<1>. HIDE DEF s
<1>4. /\ c \in BlePeer /\ c.state = "closed" /\ ~c.mapped
      /\ ~c.timer /\ ~c.central /\ c.wanted = s.wanted /\ c.link = s.link /\ c.making = s.making
      /\ c.deriving = s.deriving /\ c.half = s.half /\ c.myBid = s.myBid /\ c.rekeyed = s.rekeyed
      /\ c.sendCtr = s.sendCtr
  BY <1>2 DEF BlePeer
<1>5. /\ f \in BlePeer /\ f.state = "failed" /\ f.mapped = s.mapped
      /\ ~f.timer /\ ~f.central /\ f.wanted = s.wanted /\ f.link = s.link /\ f.making = s.making
      /\ f.deriving = s.deriving /\ f.half = s.half /\ f.myBid = s.myBid /\ f.rekeyed = s.rekeyed
      /\ f.sendCtr = s.sendCtr
  BY <1>2 DEF BlePeer
<1>6. Close(r) = c /\ (Closed(r) = r \/ Closed(r) = c) /\ (Fail(r) = f \/ (Fail(r) = r /\ r.state = "closed"))
      /\ (Closed(r) = r => r.state = "closed" \/ r = c)
  BY DEF Close, Closed, Fail, s
<1>. HIDE DEF c, f
<1>7. Quieter(c, r) /\ Quieter(f, r)
  BY <1>1, <1>2, <1>3, <1>4, <1>5 DEF Quieter
<1>. QED BY <1>4, <1>5, <1>6, <1>7, ItselfQuiet

\* A link that is let go of, and one that is gone.
LEMMA LinkLetGo ==
  ASSUME NEW r \in BlePeer, Fit(r)
  PROVE  /\ Quieter([r EXCEPT !.link = LetGo(@)], r) /\ [r EXCEPT !.link = LetGo(@)] \in BlePeer
         /\ LET s == [Closed(r) EXCEPT !.link = "none"] IN
            Quieter(s, r) /\ s \in BlePeer /\ s.state = "closed" /\ s.link = "none" /\ ~s.central
<1>. DEFINE x == LetGo(r.link)
            s == [r EXCEPT !.link = x]
            c == Closed(r)
            d == [c EXCEPT !.link = "none"]
<1>1. x \in {"none", "ownClosing", "sharedClosing"} /\ (r.link = "none" <=> x = "none")
  BY LetGoType DEF BlePeer, LetGo
<1>2. [r EXCEPT !.link = LetGo(@)] = s
  OBVIOUS
<1>. HIDE DEF x
<1>3. /\ s \in BlePeer /\ s.link = x /\ s.state = r.state /\ s.mapped = r.mapped /\ s.timer = r.timer
      /\ s.central = r.central /\ s.wanted = r.wanted /\ s.making = r.making
      /\ s.deriving = r.deriving /\ s.half = r.half /\ s.myBid = r.myBid /\ s.rekeyed = r.rekeyed
      /\ s.sendCtr = r.sendCtr /\ s.recvCtr = r.recvCtr
  BY <1>1 DEF BlePeer
<1>. HIDE DEF s
<1>4. Quieter(s, r)
  BY <1>1, <1>3 DEF Quieter
<1>5. Quieter(c, r) /\ c \in BlePeer /\ c.state = "closed" /\ ~c.central
  BY EndsQuiet, CloseKeeps DEF Keeps, Follows, Fit
<1>. HIDE DEF c
<1>6. /\ d \in BlePeer /\ d.link = "none" /\ d.state = "closed" /\ d.mapped = c.mapped /\ d.timer = c.timer
      /\ d.central = c.central /\ d.wanted = c.wanted /\ d.making = c.making
      /\ d.deriving = c.deriving /\ d.half = c.half /\ d.myBid = c.myBid /\ d.rekeyed = c.rekeyed
      /\ d.sendCtr = c.sendCtr
  BY <1>5 DEF BlePeer
<1>. HIDE DEF d
<1>7. Quieter(d, r)
  BY <1>5, <1>6 DEF Quieter
<1>. QED BY <1>2, <1>3, <1>4, <1>5, <1>6, <1>7 DEF c, d

\* What hanging up changes of a link is no record, and takes the owner that has
\* no central any more.
LEMMA HungIsQuiet ==
  ASSUME BTInv, NEW peers, NEW links, NEW W, ChannelInv(peers, links, W)
  PROVE  ChannelInv(peers, Hung(peers, links), W)
<1>. DEFINE hung == Hung(peers, links)
<1>1. /\ on \in [Node -> BOOLEAN] /\ peer \in [Peer -> BlePeer]
      /\ peers \in [Peer -> BlePeer] /\ links \in [Link -> LinkState]
      /\ W \in [Node -> Seq(Frame)] /\ \A l \in Link : JobsHavePeers(links[l])
  BY InvTypes DEF PlainTyped, ChannelInv, ChannelTyped
<1>2. hung \in [Link -> LinkState] /\ \A l \in Link : JobsHavePeers(hung[l])
  BY <1>1, HungGives
<1>3. ASSUME NEW l \in Link PROVE QuietLink(hung[l], links[l], peers)
  <2>. DEFINE k == links[l]
              h == hung[l]
  <2>1. k \in LinkState
    BY <1>1
  <2>2. /\ h.toCentral = k.toCentral /\ h.toPeripheral = k.toPeripheral
        /\ h.fromCentral = k.fromCentral /\ h.fromPeripheral = k.fromPeripheral
        /\ h.hello = k.hello /\ h.retry = k.retry /\ h.handler = k.handler
        /\ h.owner = IF k.owner # NoPeer /\ ~peers[k.owner].central THEN NoPeer ELSE k.owner
    BY <2>1 DEF Hung, LinkState
  <2>. HIDE DEF k, h
  <2>3. QuietLink(h, k, peers)
    BY <2>2 DEF QuietLink
  <2>. QED BY <2>3 DEF h, k
<1>4. ChannelTyped(peers, hung, W)
  BY <1>1, <1>2 DEF ChannelTyped
<1>5. \A p \in Peer : Quieter(peers[p], peers[p])
  BY ItselfQuiet
<1>. HIDE DEF hung
<1>6. ChannelInv(peers, hung, W)
  BY <1>3, <1>4, <1>5, QuietStep
<1>. QED BY <1>6 DEF hung

\* So it does not matter for the channels that links are hung up with a step.
LEMMA Becoming ==
  ASSUME BTInv, NEW peers, NEW links, NEW scans, NEW W, ChannelInv(peers, links, W),
         BecomeAll(peers, links, scans)
  PROVE  ChannelInv(peer', link', W)
<1>1. peer' = peers /\ link' = Hung(peers, links)
  BY DEF BecomeAll
<1>2. ChannelInv(peers, Hung(peers, links), W)
  BY HungIsQuiet
<1>. QED BY <1>1, <1>2

\* Peers that only take, and links with the records they had.
LEMMA QuietGoesOn ==
  ASSUME BTInv, ChannelInv(peer, link, wire),
         NEW peers \in [Peer -> BlePeer], NEW links \in [Link -> LinkState],
         \A p \in Peer : Quieter(peers[p], peer[p]),
         \A l \in Link : QuietLink(links[l], link[l], peers)
  PROVE  ChannelInv(peers, links, wire)
<1>1. link \in [Link -> LinkState] /\ wire \in [Node -> Seq(Frame)] /\ \A l \in Link : JobsHavePeers(link[l])
  BY InvTypes DEF PlainTyped
<1>2. \A l \in Link : JobsHavePeers(links[l])
  BY <1>1 DEF JobsHavePeers, QuietLink
<1>3. ChannelTyped(peers, links, wire)
  BY <1>1, <1>2 DEF ChannelTyped
<1>. QED BY <1>3, QuietStep

\* One peer only takes.
LEMMA OneQuiet ==
  ASSUME BTInv, ChannelInv(peer, link, wire), NEW p \in Peer, NEW r \in BlePeer, Quieter(r, peer[p])
  PROVE  ChannelInv([peer EXCEPT ![p] = r], link, wire)
<1>. DEFINE peers == [peer EXCEPT ![p] = r]
<1>1. peer \in [Peer -> BlePeer] /\ link \in [Link -> LinkState]
  BY InvTypes
<1>2. peers \in [Peer -> BlePeer] /\ \A q \in Peer : peers[q] = IF q = p THEN r ELSE peer[q]
  BY <1>1
<1>3. \A l \in Link : QuietLink(link[l], link[l], peers)
  BY DEF QuietLink
<1>4. \A q \in Peer : Quieter(peers[q], peer[q])
  BY <1>2, ItselfQuiet
<1>. HIDE DEF peers
<1>5. ChannelInv(peers, link, wire)
  BY <1>1, <1>2, <1>3, <1>4, QuietGoesOn
<1>. QED BY <1>5 DEF peers

\* ... with what follows for the links.
LEMMA OneFallsSilent ==
  ASSUME BTInv, ChannelInv(peer, link, wire), NEW p \in Peer, NEW r \in BlePeer, Quieter(r, peer[p]),
         Become(p, r), wire' = wire
  PROVE  ChannelInv(peer', link', wire')
BY OneQuiet, Becoming DEF Become

\* _fail, _drop, an end of FAIL_RETRY_MS and what waits to be sent concern no
\* record on its way.
LEMMA TimeoutChannels ==
  ASSUME BTInv, ChannelInv(peer, link, wire), NEW p \in Peer, Timeout(p)
  PROVE  ChannelInv(peer', link', wire')
<1>. DEFINE s == [peer[p] EXCEPT !.timer = FALSE]
<1>1. peer[p] \in BlePeer
  BY InvTypes
<1>2. s \in BlePeer /\ Quieter(s, peer[p]) /\ s.state = peer[p].state
  BY <1>1 DEF BlePeer, Quieter
<1>3. Become(p, s) \/ Become(p, Fail(s))
  BY DEF Timeout
<1>4. wire' = wire
  BY DEF Timeout
<1>. HIDE DEF s
<1>5. Quieter(Fail(s), s) /\ Fail(s) \in BlePeer /\ Fail(s).state # "open"
  BY <1>2, EndsQuiet
<1>6. Quieter(Fail(s), peer[p])
  BY <1>2, <1>5, QuietTwice
<1>. QED BY <1>2, <1>3, <1>4, <1>5, <1>6, OneFallsSilent

\* closePeer.
LEMMA ClosePeerChannels ==
  ASSUME BTInv, ChannelInv(peer, link, wire), NEW p \in Peer, ClosePeer(p)
  PROVE  ChannelInv(peer', link', wire')
<1>1. peer[p] \in BlePeer
  BY InvTypes
<1>2. Become(p, Closed(peer[p])) /\ wire' = wire
  BY DEF ClosePeer
<1>. QED BY <1>1, <1>2, EndsQuiet, OneFallsSilent

\* FAIL_RETRY_MS are over.
LEMMA RestOverChannels ==
  ASSUME BTInv, ChannelInv(peer, link, wire), NEW p \in Peer, RestOver(p)
  PROVE  ChannelInv(peer', link', wire')
<1>. DEFINE s == [peer[p] EXCEPT !.resting = FALSE]
<1>1. peer[p] \in BlePeer /\ peer \in [Peer -> BlePeer]
  BY InvTypes
<1>2. s \in BlePeer /\ Quieter(s, peer[p])
  BY <1>1 DEF BlePeer, Quieter
<1>3. peer' = [peer EXCEPT ![p] = s] /\ link' = link /\ wire' = wire
  BY <1>1 DEF RestOver
<1>. HIDE DEF s
<1>. QED BY <1>2, <1>3, OneQuiet

\* What waits to be sent.
LEMMA SaidChannels ==
  ASSUME BTInv, ChannelInv(peer, link, wire), NEW p \in Peer, NEW type \in {"hello", "data"},
         peer' = [peer EXCEPT ![p] = Say(@, type)], link' = link, wire' = wire
  PROVE  ChannelInv(peer', link', wire')
<1>. DEFINE s == Say(peer[p], type)
<1>1. peer[p] \in BlePeer /\ peer \in [Peer -> BlePeer]
  BY InvTypes
<1>2. Append(peer[p].queue, type) \in Seq({"hello", "data"})
  BY <1>1 DEF BlePeer
<1>3. s = [peer[p] EXCEPT !.queue = Append(peer[p].queue, type)]
  BY DEF Say
<1>4. s \in BlePeer /\ Quieter(s, peer[p])
  BY <1>1, <1>2, <1>3, ItselfQuiet
<1>5. peer' = [peer EXCEPT ![p] = s]
  BY <1>1
<1>. HIDE DEF s
<1>. QED BY <1>4, <1>5, OneQuiet

\* trySend.
LEMMA TrySendChannels ==
  ASSUME BTInv, ChannelInv(peer, link, wire), NEW p \in Peer, TrySend(p)
  PROVE  ChannelInv(peer', link', wire')
BY SaidChannels DEF TrySend

\* The central greets.
LEMMA SubscribedChannels ==
  ASSUME BTInv, ChannelInv(peer, link, wire), NEW n \in Node, Subscribed(n)
  PROVE  ChannelInv(peer', link', wire')
<1>1. probe[n].peer \in Peer
  BY DEF BTInv, ProbesInHand, ProbeInHand, Subscribed
<1>. QED BY <1>1, SaidChannels DEF Subscribed

\* A search that cannot begin fails whoever asked for it.
LEMMA ScanFailsChannels ==
  ASSUME BTInv, ChannelInv(peer, link, wire), NEW n \in Node, ScanFails(n)
  PROVE  ChannelInv(peer', link', wire')
<1>. DEFINE peers == [p \in Peer |-> IF p[1] = n /\ peer[p].wanted # {} THEN Fail(peer[p]) ELSE peer[p]]
<1>1. peer \in [Peer -> BlePeer] /\ link \in [Link -> LinkState]
  BY InvTypes
<1>2. \A p \in Peer : Quieter(peers[p], peer[p]) /\ peers[p] \in BlePeer
  BY <1>1, EndsQuiet, ItselfQuiet
<1>3. peers \in [Peer -> BlePeer]
  BY <1>2
<1>4. \A l \in Link : QuietLink(link[l], link[l], peers)
  BY DEF QuietLink
<1>5. BecomeAll(peers, link, [scan EXCEPT ![n] = "off"]) /\ wire' = wire
  BY DEF ScanFails
<1>. HIDE DEF peers
<1>6. ChannelInv(peers, link, wire)
  BY <1>1, <1>2, <1>3, <1>4, QuietGoesOn
<1>. QED BY <1>5, <1>6, Becoming

\* A probe that fails leaves the peer without a link, and the device without
\* one for its notifications.
LEMMA ProbeFailsChannels ==
  ASSUME BTInv, ChannelInv(peer, link, wire), NEW n \in Node, ProbeFails(n)
  PROVE  ChannelInv(peer', link', wire')
<1>. DEFINE l == Probed(n)
            p == probe[n].peer
            hangs == probe[n].step # "connect" /\ probe[n].own /\ link[l].up
            s == [peer[p] EXCEPT !.link = LetGo(@)]
            peers == IF p = NoPeer THEN peer ELSE [peer EXCEPT ![p] = s]
            hangup == link[l].hangup \/ hangs
            handler == IF probe[n].step = "connect" THEN link[l].handler ELSE NoPeer
            k == [link[l] EXCEPT !.hangup = hangup, !.handler = handler]
            links == [link EXCEPT ![l] = k]
<1>1. /\ peer \in [Peer -> BlePeer] /\ link \in [Link -> LinkState] /\ probe \in [Node -> ProbeState]
      /\ ProbeInHand(n) /\ AllFit
  BY InvTypes DEF BTInv, ProbesInHand
<1>2. l \in Link /\ p \in PeerOrNone /\ link[l] \in LinkState /\ probe[n].own \in BOOLEAN
  BY <1>1 DEF ProbeInHand, ProbeFails, ProbeState
<1>3. hangup \in BOOLEAN /\ handler \in PeerOrNone
  BY <1>2 DEF LinkState, PeerOrNone
<1>4. BecomeAll(peers, links, scan) /\ wire' = wire
  <2>1. [link EXCEPT ![l].hangup = @ \/ hangs,
                     ![l].handler = IF probe[n].step = "connect" THEN @ ELSE NoPeer] = links
    BY <1>1, <1>2 DEF LinkState
  <2>2. (IF p = NoPeer THEN peer ELSE [peer EXCEPT ![p].link = LetGo(@)]) = peers
    BY <1>1
  <2>. QED BY <2>1, <2>2 DEF ProbeFails
<1>. HIDE DEF hangup, handler
<1>5. /\ k \in LinkState /\ k.toCentral = link[l].toCentral /\ k.toPeripheral = link[l].toPeripheral
      /\ k.fromCentral = link[l].fromCentral /\ k.fromPeripheral = link[l].fromPeripheral
      /\ k.hello = link[l].hello /\ k.retry = link[l].retry /\ k.owner = link[l].owner
      /\ k.handler = handler
  BY <1>2, <1>3 DEF LinkState
<1>. HIDE DEF k
<1>6. links \in [Link -> LinkState] /\ \A m \in Link : links[m] = IF m = l THEN k ELSE link[m]
  BY <1>1, <1>2, <1>5
<1>7. /\ peers \in [Peer -> BlePeer]
      /\ \A q \in Peer : Quieter(peers[q], peer[q])
  <2>1. CASE p = NoPeer
    BY <2>1, <1>1, ItselfQuiet
  <2>2. CASE p # NoPeer
    <3>1. p \in Peer
      BY <2>2, <1>2 DEF PeerOrNone
    <3>2. s \in BlePeer /\ Quieter(s, peer[p])
      BY <3>1, <1>1, LinkLetGo DEF AllFit
    <3>. HIDE DEF s
    <3>. QED BY <3>1, <3>2, <2>2, <1>1, ItselfQuiet
  <2>. QED BY <2>1, <2>2
<1>. HIDE DEF links, peers
<1>8. \A m \in Link : QuietLink(links[m], link[m], peers)
  BY <1>5, <1>6 DEF QuietLink, handler
<1>9. ChannelInv(peers, links, wire)
  BY <1>6, <1>7, <1>8, QuietGoesOn
<1>. QED BY <1>4, <1>9, Becoming

\* A link that was not ours is let go of at this side.
LEMMA SharedClosedChannels ==
  ASSUME BTInv, ChannelInv(peer, link, wire), NEW p \in Peer, SharedClosed(p)
  PROVE  ChannelInv(peer', link', wire')
<1>. DEFINE l == LinkOf(p)
            s == [Closed(peer[p]) EXCEPT !.link = "none"]
            peers == [peer EXCEPT ![p] = s]
            k == [link[l] EXCEPT !.handler = NoPeer]
            links == [link EXCEPT ![l] = k]
<1>1. /\ peer \in [Peer -> BlePeer] /\ link \in [Link -> LinkState] /\ l \in Link /\ link[l] \in LinkState
      /\ AllFit
  BY InvTypes, PeerFacts DEF BTInv
<1>2. BecomeAll(peers, links, scan) /\ wire' = wire
  <2>1. [peer EXCEPT ![p] = [Closed(@) EXCEPT !.link = "none"]] = peers
    BY <1>1
  <2>. QED BY <2>1 DEF SharedClosed
<1>3. s \in BlePeer /\ Quieter(s, peer[p])
  BY <1>1, LinkLetGo DEF AllFit
<1>. HIDE DEF s
<1>4. /\ k \in LinkState /\ k.toCentral = link[l].toCentral /\ k.toPeripheral = link[l].toPeripheral
      /\ k.fromCentral = link[l].fromCentral /\ k.fromPeripheral = link[l].fromPeripheral
      /\ k.hello = link[l].hello /\ k.retry = link[l].retry /\ k.owner = link[l].owner
      /\ k.handler = NoPeer
  BY <1>1 DEF LinkState, PeerOrNone
<1>. HIDE DEF k
<1>5. links \in [Link -> LinkState] /\ \A m \in Link : links[m] = IF m = l THEN k ELSE link[m]
  BY <1>1, <1>4
<1>6. peers \in [Peer -> BlePeer] /\ \A q \in Peer : Quieter(peers[q], peer[q])
  BY <1>1, <1>3, ItselfQuiet
<1>. HIDE DEF links, peers
<1>7. \A m \in Link : QuietLink(links[m], link[m], peers)
  BY <1>4, <1>5 DEF QuietLink
<1>8. ChannelInv(peers, links, wire)
  BY <1>5, <1>6, <1>7, QuietGoesOn
<1>. QED BY <1>2, <1>8, Becoming

\* stop() closes the peers of the map.
LEMMA StopChannels ==
  ASSUME BTInv, ChannelInv(peer, link, wire), NEW n \in Node, Stop(n)
  PROVE  ChannelInv(peer', link', wire')
<1>. DEFINE peers == [p \in Peer |-> IF p[1] = n /\ peer[p].mapped THEN Closed(peer[p]) ELSE peer[p]]
            hung == Hung(peers, link)
            cut(l) == link[l].up /\ n \in {l[1], l[2]}
            links == [l \in Link |-> [hung[l] EXCEPT !.hangup = @ \/ cut(l)]]
<1>1. /\ peer \in [Peer -> BlePeer] /\ link \in [Link -> LinkState] /\ on \in [Node -> BOOLEAN]
      /\ \A l \in Link : JobsHavePeers(link[l])
  BY InvTypes DEF PlainTyped
<1>2. CASE UNCHANGED <<peer, link>>
  BY <1>2 DEF Stop
<1>3. CASE peer' = peers /\ link' = links
  <2>1. \A p \in Peer : Quieter(peers[p], peer[p]) /\ peers[p] \in BlePeer
    BY <1>1, EndsQuiet, ItselfQuiet
  <2>2. peers \in [Peer -> BlePeer]
    BY <2>1
  <2>3. peer' = peers /\ wire' = wire
    BY <1>3 DEF Stop
  <2>. HIDE DEF peers
  <2>4. \A l \in Link : QuietLink(link[l], link[l], peers)
    BY DEF QuietLink
  <2>5. ChannelInv(peers, link, wire)
    BY <1>1, <2>1, <2>2, <2>4, QuietGoesOn
  <2>6. ChannelInv(peers, hung, wire)
    BY <2>5, HungIsQuiet
  <2>7. hung \in [Link -> LinkState] /\ \A l \in Link : JobsHavePeers(hung[l])
    BY <1>1, <2>2, HungGives
  <2>8. \A l \in Link : cut(l) \in BOOLEAN
    BY <1>1 DEF LinkState
  <2>. HIDE DEF hung, cut
  <2>9. ASSUME NEW l \in Link
        PROVE  /\ links[l] \in LinkState /\ JobsHavePeers(links[l])
               /\ QuietLink(links[l], hung[l], peers)
    <3>. DEFINE h == hung[l]
                k == [h EXCEPT !.hangup = @ \/ cut(l)]
    <3>1. h \in LinkState /\ cut(l) \in BOOLEAN /\ JobsHavePeers(h)
      BY <2>7, <2>8
    <3>. HIDE DEF h
    <3>2. /\ k \in LinkState /\ k.toCentral = h.toCentral /\ k.toPeripheral = h.toPeripheral
          /\ k.fromCentral = h.fromCentral /\ k.fromPeripheral = h.fromPeripheral
          /\ k.hello = h.hello /\ k.retry = h.retry /\ k.owner = h.owner /\ k.handler = h.handler
      BY <3>1 DEF LinkState
    <3>3. links[l] = k
      BY DEF h
    <3>. HIDE DEF k
    <3>4. JobsHavePeers(k) /\ QuietLink(k, h, peers)
      BY <3>1, <3>2 DEF JobsHavePeers, QuietLink
    <3>. QED BY <3>2, <3>3, <3>4 DEF h
  <2>10. links \in [Link -> LinkState]
    BY <2>9
  <2>. HIDE DEF links
  <2>11. ChannelTyped(peers, links, wire)
    BY <2>2, <2>9, <2>10, <2>5 DEF ChannelInv, ChannelTyped
  <2>12. \A p \in Peer : Quieter(peers[p], peers[p])
    BY ItselfQuiet
  <2>13. ChannelInv(peers, links, wire)
    BY <2>6, <2>9, <2>11, <2>12, QuietStep
  <2>. QED BY <1>3, <2>3, <2>13
<1>4. UNCHANGED <<peer, link>> \/ (peer' = peers /\ link' = links)
  BY DEF Stop
<1>. QED BY <1>2, <1>3, <1>4

\* One link goes on, with the records it had.
LEMMA OneLinkQuiet ==
  ASSUME BTInv, ChannelInv(peer, link, wire), NEW l \in Link, NEW k \in LinkState,
         QuietLink(k, link[l], peer)
  PROVE  ChannelInv(peer, [link EXCEPT ![l] = k], wire)
<1>. DEFINE links == [link EXCEPT ![l] = k]
<1>1. peer \in [Peer -> BlePeer] /\ link \in [Link -> LinkState]
  BY InvTypes
<1>2. links \in [Link -> LinkState] /\ \A m \in Link : links[m] = IF m = l THEN k ELSE link[m]
  BY <1>1
<1>. HIDE DEF links
<1>3. \A m \in Link : QuietLink(links[m], link[m], peer)
  BY <1>2 DEF QuietLink
<1>4. \A q \in Peer : Quieter(peer[q], peer[q])
  BY ItselfQuiet
<1>5. ChannelInv(peer, links, wire)
  BY <1>1, <1>2, <1>3, <1>4, QuietGoesOn
<1>. QED BY <1>5 DEF links

\* The devices are connected.
LEMMA ConnectedChannels ==
  ASSUME BTInv, ChannelInv(peer, link, wire), NEW n \in Node, Connected(n)
  PROVE  ChannelInv(peer', link', wire')
<1>. DEFINE l == Probed(n)
            k == [link[l] EXCEPT !.up = TRUE]
<1>1. link \in [Link -> LinkState] /\ l \in Link /\ link[l] \in LinkState
  BY InvTypes DEF BTInv, ProbesInHand, ProbeInHand, Connected
<1>2. /\ k \in LinkState /\ k.toCentral = link[l].toCentral /\ k.toPeripheral = link[l].toPeripheral
      /\ k.fromCentral = link[l].fromCentral /\ k.fromPeripheral = link[l].fromPeripheral
      /\ k.hello = link[l].hello /\ k.retry = link[l].retry /\ k.owner = link[l].owner
      /\ k.handler = link[l].handler
  BY <1>1 DEF LinkState
<1>3. link' = [link EXCEPT ![l] = k] /\ peer' = peer /\ wire' = wire
  BY <1>1 DEF Connected
<1>. HIDE DEF k
<1>4. QuietLink(k, link[l], peer)
  BY <1>2 DEF QuietLink
<1>. QED BY <1>1, <1>2, <1>3, <1>4, OneLinkQuiet

\* The device is read: nobody's, or the one its peer was looking for.
LEMMA HelloReadChannels ==
  ASSUME BTInv, ChannelInv(peer, link, wire), NEW n \in Node, HelloRead(n)
  PROVE  ChannelInv(peer', link', wire')
<1>. DEFINE l == Probed(n)
            b == HelloOf(l[2])
            own == probe[n].own
<1>1. /\ link \in [Link -> LinkState] /\ l \in Link /\ link[l] \in LinkState /\ wire' = wire
      /\ peer \in [Peer -> BlePeer] /\ own \in BOOLEAN /\ CentralsWant
  <2>1. l \in Link
    BY DEF BTInv, ProbesInHand, ProbeInHand, HelloRead
  <2>2. probe[n] \in ProbeState
    BY InvTypes
  <2>. QED BY <2>1, <2>2, InvTypes DEF BTInv, ProbeState, HelloRead
<1>2. ASSUME link' = Refused(l, own), peer' = peer
      PROVE  ChannelInv(peer', link', wire')
  <2>. DEFINE k == [link[l] EXCEPT !.hangup = @ \/ own, !.handler = NoPeer]
  <2>1. /\ k \in LinkState /\ k.toCentral = link[l].toCentral /\ k.toPeripheral = link[l].toPeripheral
        /\ k.fromCentral = link[l].fromCentral /\ k.fromPeripheral = link[l].fromPeripheral
        /\ k.hello = link[l].hello /\ k.retry = link[l].retry /\ k.owner = link[l].owner
        /\ k.handler = NoPeer
    BY <1>1 DEF LinkState, PeerOrNone
  <2>2. link' = [link EXCEPT ![l] = k]
    BY <1>1, <1>2 DEF Refused
  <2>. HIDE DEF k
  <2>3. QuietLink(k, link[l], peer)
    BY <2>1 DEF QuietLink
  <2>. QED BY <1>1, <1>2, <2>1, <2>2, <2>3, OneLinkQuiet
<1>3. ASSUME NEW p \in Wants(n, l[2], b), peer[p].state = "keyed",
             BecomeAll([peer EXCEPT ![p].wanted = @ \ {b}, ![p].link = IF own THEN "own" ELSE "shared"],
                       [link EXCEPT ![l].handler = p, ![l].forgotten = @ \/ peer[p].link = "own"], scan)
      PROVE  ChannelInv(peer', link', wire')
  <2>. DEFINE s == [peer[p] EXCEPT !.wanted = @ \ {b}, !.link = IF own THEN "own" ELSE "shared"]
              k == [link[l] EXCEPT !.handler = p, !.forgotten = @ \/ peer[p].link = "own"]
  <2>1. p \in Peer /\ p[1] = n /\ p[2] = l[2] /\ b \in peer[p].wanted
    BY DEF Wants
  <2>2. IsCentral(p) /\ LinkOf(p) = l /\ peer[p] \in BlePeer
    BY <2>1, <1>1 DEF CentralsWant, LinkOf, Probed
  <2>3. /\ s \in BlePeer /\ s.making = peer[p].making /\ s.deriving = peer[p].deriving /\ s.half = peer[p].half
        /\ s.myBid = peer[p].myBid /\ s.rekeyed = peer[p].rekeyed /\ s.sendCtr = peer[p].sendCtr
        /\ s.state = "keyed" /\ s.wanted = peer[p].wanted \ {b} /\ s.link # "none"
    BY <2>2, <1>3 DEF BlePeer
  <2>4. /\ k \in LinkState /\ k.handler = p
        /\ k.toCentral = link[l].toCentral /\ k.toPeripheral = link[l].toPeripheral
        /\ k.fromCentral = link[l].fromCentral /\ k.fromPeripheral = link[l].fromPeripheral
        /\ k.hello = link[l].hello /\ k.retry = link[l].retry /\ k.owner = link[l].owner
    BY <1>1, <2>1 DEF LinkState, PeerOrNone
  <2>5. BecomeAll([peer EXCEPT ![p] = s], [link EXCEPT ![l] = k], scan)
    <3>1. [peer EXCEPT ![p].wanted = @ \ {b}, ![p].link = IF own THEN "own" ELSE "shared"]
            = [peer EXCEPT ![p] = s]
      BY <1>1, <2>1
    <3>2. [link EXCEPT ![l].handler = p, ![l].forgotten = @ \/ peer[p].link = "own"]
            = [link EXCEPT ![l] = k]
      BY <1>1
    <3>. HIDE DEF s, k, own, b
    <3>. QED BY <1>3, <3>1, <3>2
  <2>. HIDE DEF s, k, l, b
  <2>6. ChannelInv([peer EXCEPT ![p] = s], [link EXCEPT ![l] = k], wire)
    <3>1. p \in Peer /\ l \in Link /\ k \in LinkState /\ s \in BlePeer /\ peer[p].state = "keyed"
          /\ peer[p].wanted # {}
      BY <1>1, <1>3, <2>1, <2>3, <2>4
    <3>2. ~peer[p].rekeyed => s.wanted = {}
      <4>1. Early(peer[p])
        BY <3>1 DEF ChannelInv, AllEarly
      <4>. QED BY <4>1, <2>1, <2>3 DEF Early
    <3>. QED BY ONLY ChannelInv(peer, link, wire), <2>2, <2>3, <2>4, <3>1, <3>2, AttachStep
  <2>. QED BY <1>1, <2>5, <2>6, Becoming
<1>4. \/ link' = Refused(l, own) /\ peer' = peer
      \/ \E p \in Wants(n, l[2], b) :
           /\ peer[p].state = "keyed"
           /\ BecomeAll([peer EXCEPT ![p].wanted = @ \ {b}, ![p].link = IF own THEN "own" ELSE "shared"],
                        [link EXCEPT ![l].handler = p, ![l].forgotten = @ \/ peer[p].link = "own"], scan)
  BY DEF HelloRead
<1>. HIDE DEF l, b, own
<1>. QED BY <1>2, <1>3, <1>4

\* A record is sealed and written, or what waits is given up.
LEMMA WriteChannels ==
  ASSUME BTInv, ChannelInv(peer, link, wire), NEW p \in Peer, Write(p)
  PROVE  ChannelInv(peer', link', wire')
<1>. DEFINE l == LinkOf(p)
            r == peer[p]
            tail == Tail(r.queue)
            sent == [r EXCEPT !.queue = tail, !.sendCtr = @ + 1]
            unsaid == [r EXCEPT !.queue = <<>>]
            rec == Sealed(p)
            k == link[l]
            central == [k EXCEPT !.toPeripheral = Append(@, rec)]
            peripheral == [k EXCEPT !.toCentral = Append(@, rec)]
<1>1. /\ peer \in [Peer -> BlePeer] /\ r \in BlePeer /\ link \in [Link -> LinkState] /\ l \in Link
      /\ k \in LinkState /\ wire' = wire /\ r.queue # <<>> /\ Early(r)
  BY InvTypes, PeerFacts DEF Write, ChannelInv, AllEarly
<1>2. unsaid \in BlePeer /\ Quieter(unsaid, r)
  <2>1. <<>> \in Seq({"hello", "data"})
    OBVIOUS
  <2>. QED BY <1>1, <2>1, ItselfQuiet
<1>3. ASSUME Become(p, unsaid) PROVE ChannelInv(peer', link', wire')
  BY <1>1, <1>2, <1>3, OneFallsSilent
<1>4. ASSUME Become(p, Closed(unsaid)) PROVE ChannelInv(peer', link', wire')
  <2>. HIDE DEF unsaid
  <2>1. Quieter(Closed(unsaid), unsaid) /\ Closed(unsaid) \in BlePeer /\ Closed(unsaid).state # "open"
    BY <1>2, EndsQuiet
  <2>2. Quieter(Closed(unsaid), r)
    BY <1>2, <2>1, QuietTwice
  <2>. QED BY <1>1, <1>4, <2>1, <2>2, OneFallsSilent
<1>5. ASSUME ~Done(r), HasLink(p),
             BecomeAll([peer EXCEPT ![p] = sent],
                IF IsCentral(p) THEN [link EXCEPT ![l].toPeripheral = Append(@, rec)]
                                ELSE [link EXCEPT ![l].toCentral = Append(@, rec)], scan)
      PROVE  ChannelInv(peer', link', wire')
  <2>. DEFINE x == IF IsCentral(p) THEN central ELSE peripheral
  <2>1. BecomeAll([peer EXCEPT ![p] = sent], [link EXCEPT ![l] = x], scan)
    <3>1. CASE IsCentral(p)
      <4>1. [link EXCEPT ![l].toPeripheral = Append(@, rec)] = [link EXCEPT ![l] = x]
        BY <3>1, <1>1
      <4>. QED BY <3>1, <4>1, <1>5
    <3>2. CASE ~IsCentral(p)
      <4>1. [link EXCEPT ![l].toCentral = Append(@, rec)] = [link EXCEPT ![l] = x]
        BY <3>2, <1>1
      <4>. QED BY <3>2, <4>1, <1>5
    <3>. QED BY <3>1, <3>2
  <2>2. /\ IsCentral(p) => r.link \in {"own", "shared"}
        /\ ~IsCentral(p) => r.central
    BY <1>5 DEF HasLink
  <2>3. ~Idle(r) /\ r.half # NoHalf
    BY <1>1, <2>2 DEF Idle, Early
  <2>4. IsCentral(p) => r.link # "none" /\ ~Silent(r, r.half.by)
    BY <2>2 DEF Silent
  <2>5. tail \in Seq({"hello", "data"}) /\ r.sendCtr + 1 \in Nat
    BY <1>1 DEF BlePeer
  <2>6. /\ sent \in BlePeer /\ sent.making = r.making /\ sent.deriving = r.deriving /\ sent.half = r.half
        /\ sent.myBid = r.myBid /\ sent.rekeyed = r.rekeyed /\ sent.state = r.state /\ sent.wanted = r.wanted
        /\ sent.link = r.link /\ sent.central = r.central /\ sent.mapped = r.mapped /\ sent.timer = r.timer
        /\ sent.recvCtr = r.recvCtr /\ sent.sendCtr = r.sendCtr + 1
    <3>. HIDE DEF tail
    <3>. QED BY <1>1, <2>5 DEF BlePeer
  <2>7. /\ rec \in AnyRecord /\ rec.by = p /\ rec.to = r.half.by /\ rec.ctr = r.sendCtr
        /\ ~IsCentral(p) => rec.tag = r.half.bid
    BY <1>1, SealedTyped DEF Sealed
  <2>. HIDE DEF rec
  <2>8. Append(k.toPeripheral, rec) \in Seq(AnyRecord) /\ Append(k.toCentral, rec) \in Seq(AnyRecord)
    BY <1>1, <2>7 DEF LinkState
  <2>9. /\ x \in LinkState
        /\ x.toPeripheral = IF IsCentral(p) THEN Append(k.toPeripheral, rec) ELSE k.toPeripheral
        /\ x.toCentral = IF IsCentral(p) THEN k.toCentral ELSE Append(k.toCentral, rec)
        /\ x.owner = k.owner /\ x.hello = k.hello /\ x.retry = k.retry /\ x.handler = k.handler
        /\ x.fromCentral = k.fromCentral /\ x.fromPeripheral = k.fromPeripheral
    <3>. HIDE DEF k
    <3>1. CASE IsCentral(p)
      BY <3>1, <1>1, <2>8 DEF LinkState
    <3>2. CASE ~IsCentral(p)
      BY <3>2, <1>1, <2>8 DEF LinkState
    <3>. QED BY <3>1, <3>2
  <2>. HIDE DEF x, sent
  <2>10. ChannelInv([peer EXCEPT ![p] = sent], [link EXCEPT ![l] = x], wire)
    BY <2>3, <2>4, <2>6, <2>7, <2>9, SealedStep
  <2>. QED BY <1>1, <2>1, <2>10, Becoming
<1>6. \/ Become(p, unsaid)
      \/ Become(p, Closed(unsaid))
      \/ /\ ~Done(r) /\ HasLink(p)
         /\ BecomeAll([peer EXCEPT ![p] = sent],
                IF IsCentral(p) THEN [link EXCEPT ![l].toPeripheral = Append(@, rec)]
                                ELSE [link EXCEPT ![l].toCentral = Append(@, rec)], scan)
  BY DEF Write
<1>. QED BY <1>3, <1>4, <1>5, <1>6

\* The link is gone, and both ends are told.
LEMMA GoneChannels ==
  ASSUME BTInv, ChannelInv(peer, link, wire), NEW l \in Link, Gone(l), wire' = wire
  PROVE  ChannelInv(peer', link', wire')
<1>. DEFINE told(p) == LinkOf(p) = l /\ (peer[p].link # "none" \/ link[l].owner = p)
            peers == [p \in Peer |-> IF told(p) THEN [Closed(peer[p]) EXCEPT !.link = "none"] ELSE peer[p]]
            x == LeftOf(link[l])
            job == x.fromCentral
            k == [link[l] EXCEPT !.owner = NoPeer, !.handler = NoPeer]
            K == [link EXCEPT ![l] = k]
<1>1. /\ peer \in [Peer -> BlePeer] /\ AllFit /\ link \in [Link -> LinkState]
      /\ link[l] \in LinkState /\ JobsHavePeers(link[l])
  BY InvTypes DEF BTInv
<1>2. BecomeAll(peers, [link EXCEPT ![l] = x], scan)
  BY DEF Gone, LeftOf
<1>3. \A p \in Peer : /\ peers[p] \in BlePeer /\ Quieter(peers[p], peer[p])
                      /\ told(p) => peers[p].state = "closed" /\ peers[p].link = "none" /\ ~peers[p].central
                      /\ ~told(p) => peers[p] = peer[p]
  BY <1>1, LinkLetGo, ItselfQuiet DEF AllFit
<1>4. peers \in [Peer -> BlePeer]
  BY <1>3
<1>5. x \in LinkState /\ JobsHavePeers(x)
  BY GoneLink
<1>6. /\ x.owner = NoPeer /\ x.handler = NoPeer /\ x.toCentral = <<>> /\ x.toPeripheral = <<>>
      /\ x.hello = NoRecord /\ ~x.retry /\ x.fromPeripheral = link[l].fromPeripheral
  BY DEF Down, LeftOf
<1>7. job.how # "none" =>
        /\ job.how = link[l].fromCentral.how /\ job.rec = link[l].fromCentral.rec
        /\ job.peer = link[l].fromCentral.peer /\ job.gone
  <2>1. link[l].fromCentral \in AnyJob
    BY <1>1 DEF LinkState
  <2>2. job = IF link[l].fromCentral.how \in {"none", "thrown"} THEN NoJob
              ELSE [link[l].fromCentral EXCEPT !.gone = TRUE]
    BY DEF LeftOf, Down
  <2>. HIDE DEF job
  <2>. QED BY <2>1, <2>2 DEF AnyJob, NoJob
<1>8. /\ k \in LinkState /\ k.toCentral = link[l].toCentral /\ k.toPeripheral = link[l].toPeripheral
      /\ k.fromCentral = link[l].fromCentral /\ k.fromPeripheral = link[l].fromPeripheral
      /\ k.hello = link[l].hello /\ k.retry = link[l].retry /\ k.owner = NoPeer /\ k.handler = NoPeer
  BY <1>1 DEF LinkState, PeerOrNone
<1>. HIDE DEF k, x, peers
<1>9. QuietLink(k, link[l], peers)
  <2>1. link[l].owner # NoPeer => link[l].owner \in Peer /\ LinkOf(link[l].owner) = l
    BY <1>1, LinkKnown DEF LinkState, PeerOrNone, LinkFit
  <2>2. link[l].owner # NoPeer => ~peers[link[l].owner].central
    BY <2>1, <1>3
  <2>. QED BY <1>8, <2>2 DEF QuietLink
<1>10. ChannelInv(peers, K, wire)
  <2>1. K \in [Link -> LinkState] /\ \A m \in Link : K[m] = IF m = l THEN k ELSE link[m]
    BY <1>1, <1>8
  <2>. HIDE DEF K
  <2>2. \A m \in Link : QuietLink(K[m], link[m], peers)
    BY <2>1, <1>9 DEF QuietLink
  <2>. QED BY <1>3, <1>4, <2>1, <2>2, QuietGoesOn
<1>11. x.fromCentral.how = "identify" => Silent(peers[x.fromCentral.rec.by], x.fromCentral.rec.to)
  <2>. DEFINE rec == link[l].fromCentral.rec
  <2>1. SUFFICES ASSUME link[l].fromCentral.how = "identify" PROVE Silent(peers[rec.by], rec.to)
    BY <1>6, <1>7
  <2>2. rec.by \in Peer /\ rec.to \in Peer /\ LinkOf(rec.by) = l
    <3>1. RecordOK(peer, l, rec)
      BY <2>1, RecordFacts
    <3>. QED BY <3>1, PairFacts DEF RecordOK
  <2>3. Silent(peer[rec.by], rec.to) \/ peer[rec.by].link # "none"
    <3>1. LinkSpeaks(peer, link, l)
      BY LinkKnown
    <3>2. link[l].fromCentral.gone => Silent(peer[rec.by], rec.to)
      BY <3>1, <2>1 DEF LinkSpeaks, Nothing
    <3>3. ~link[l].fromCentral.gone => Speaks(peer, rec)
      BY <3>1, <2>1 DEF LinkSpeaks, Identifies
    <3>. QED BY <3>2, <3>3 DEF Speaks
  <2>4. CASE told(rec.by)
    BY <2>2, <2>4, <1>3 DEF Silent
  <2>5. CASE ~told(rec.by)
    BY <2>2, <2>3, <2>5, <1>3
  <2>. QED BY <2>4, <2>5
<1>12. ChannelInv(peers, [link EXCEPT ![l] = x], wire)
  <2>1. K[l] = k
    BY <1>1
  <2>2. ChannelInv(peers, [K EXCEPT ![l] = x], wire)
    <3>. HIDE DEF K
    <3>. QED BY <1>5, <1>6, <1>7, <1>8, <1>10, <1>11, <2>1, LostStep
  <2>3. [K EXCEPT ![l] = x] = [link EXCEPT ![l] = x]
    BY <1>1
  <2>. QED BY <2>2, <2>3
<1>. QED BY <1>2, <1>12, Becoming

\* Hung up, or out of reach.
LEMMA DownChannels ==
  ASSUME BTInv, ChannelInv(peer, link, wire), NEW l \in Link, HungUp(l) \/ OutOfReach(l)
  PROVE  ChannelInv(peer', link', wire')
<1>1. Gone(l) /\ wire' = wire
  BY DEF HungUp, OutOfReach
<1>. QED BY <1>1, GoneChannels

\* An offer is sent, or an answer.
LEMMA SignalChannels ==
  ASSUME BTInv, ChannelInv(peer, link, wire), NEW p \in Peer, OfferReady(p) \/ AnswerReady(p)
  PROVE  ChannelInv(peer', link', wire')
<1>. DEFINE r == peer[p]
            b == bid[p[1]]
            h == [by |-> p, bid |-> b]
            offer == [kind |-> "offer", half |-> h]
            answer == [kind |-> "answer", half |-> h]
            offered == [r EXCEPT !.making = "no", !.state = "offered", !.myBid = b, !.timer = TRUE]
            answered == [r EXCEPT !.making = "no", !.myBid = b]
<1>1. /\ peer \in [Peer -> BlePeer] /\ r \in BlePeer /\ b \in Nat /\ h \in Half
      /\ p[2] \in Node /\ link' = link
  BY InvTypes, PeerFacts DEF PlainTyped, Half, OfferReady, AnswerReady
<1>2. /\ offer \in Frame /\ offer.half.by = p /\ offer.half.bid = b
      /\ answer \in Frame /\ answer.half.by = p /\ answer.half.bid = b
  BY <1>1 DEF Frame
<1>3. ASSUME NEW s \in {offered, answered}
      PROVE  /\ s \in BlePeer /\ s.making = "no" /\ s.half = r.half /\ s.deriving = r.deriving
             /\ s.rekeyed = r.rekeyed /\ s.wanted = r.wanted /\ s.link = r.link /\ s.central = r.central
             /\ s.sendCtr = r.sendCtr /\ s.state \in {r.state, "offered"} /\ s.myBid = b
  BY ZenonT(40), <1>1, <1>3 DEF BlePeer
<1>4. \/ /\ r.making # "no" /\ peer' = [peer EXCEPT ![p] = offered]
         /\ wire' = [wire EXCEPT ![p[2]] = Append(@, offer)]
      \/ /\ r.making # "no" /\ peer' = [peer EXCEPT ![p] = answered]
         /\ wire' = [wire EXCEPT ![p[2]] = Append(@, answer)]
  <2>1. CASE OfferReady(p)
    BY <1>1, <2>1 DEF OfferReady, Signal
  <2>2. CASE AnswerReady(p)
    BY <1>1, <2>2 DEF AnswerReady, Signal
  <2>. QED BY <2>1, <2>2
<1>. HIDE DEF offered, answered, offer, answer, h
<1>5. ASSUME NEW s \in {offered, answered}, NEW f \in {offer, answer}, r.making # "no"
      PROVE  ChannelInv([peer EXCEPT ![p] = s], link, [wire EXCEPT ![p[2]] = Append(@, f)])
  <2>1. /\ s \in BlePeer /\ s.making = "no" /\ s.half = r.half /\ s.deriving = r.deriving
        /\ s.rekeyed = r.rekeyed /\ s.wanted = r.wanted /\ s.link = r.link /\ s.central = r.central
        /\ s.sendCtr = r.sendCtr /\ s.state \in {r.state, "offered"} /\ s.myBid = b
    BY <1>3
  <2>2. f \in Frame /\ f.half.by = p /\ f.half.bid = b
    BY <1>2
  <2>. QED BY ONLY <1>5, <2>1, <2>2, ChannelInv(peer, link, wire), p \in Peer, SignStep
<1>. QED BY <1>1, <1>4, <1>5

\* A signal is lost.
LEMMA LoseSignalChannels ==
  ASSUME BTInv, ChannelInv(peer, link, wire), NEW n \in Node, LoseSignal(n)
  PROVE  ChannelInv(peer', link', wire')
BY SignalTaken DEF LoseSignal

\* A peer that _newPeer takes is referred to nowhere.
LEMMA NewIsUnreferred ==
  ASSUME NEW n, NEW t, NEW p \in NewPeer(n, t), ChannelInv(peer, link, wire),
         NEW peers, \A q \in Peer : Quieter(peers[q], peer[q]) /\ peers[q] \in BlePeer,
         NEW W, W \in [Node -> Seq(Frame)],
         \A m \in Node : \A i \in 1 .. Len(W[m]) : \E j \in 1 .. Len(wire[m]) : W[m][i] = wire[m][j]
  PROVE  p \in Peer /\ p[1] = n /\ p[2] = t /\ Unreferred(peers, link, W, p)
<1>1. p \in Peer /\ p[1] = n /\ p[2] = t /\ Free(p)
  BY DEF NewPeer
<1>2. peer \in [Peer -> BlePeer]
  BY DEF ChannelInv, ChannelTyped
<1>3. \A q \in Peer : /\ Idle(peer[q]) => Idle(peers[q])
                      /\ peers[q].half = peer[q].half /\ peers[q].deriving = peer[q].deriving
  BY <1>2, QuieterKeeps DEF Quieter
<1>4. Idle(peers[p])
  BY <1>1, <1>3 DEF Free
<1>5. \A m \in Node : \A i \in 1 .. Len(W[m]) : W[m][i].half.by # p
  BY <1>1 DEF Free
<1>6. \A q \in Peer : Idle(peers[q]) \/ (peers[q].half.by # p /\ \A h \in peers[q].deriving : h.by # p)
  BY <1>1, <1>3 DEF Free
<1>7. ASSUME NEW l \in Link
      PROVE  /\ p \notin {link[l].owner, link[l].handler, link[l].fromCentral.peer, link[l].fromPeripheral.peer}
             /\ \A rec \in CentralRecords(link[l]) \cup PeripheralRecords(link[l]) : rec.by # p /\ rec.to # p
  <2>1. \A rec \in RecordsOf(l) : rec.by # p /\ rec.to # p
    BY <1>1 DEF Free
  <2>2. CentralRecords(link[l]) \subseteq RecordsOf(l) /\ PeripheralRecords(link[l]) \subseteq RecordsOf(l)
    BY DEF CentralRecords, PeripheralRecords, RecordsOf
  <2>. QED BY <1>1, <2>1, <2>2 DEF Free
<1>. QED BY <1>1, <1>4, <1>5, <1>6, <1>7 DEF Unreferred

\* It begins, while others only take.
LEMMA BegunChannels ==
  ASSUME NEW p \in Peer, NEW peers \in [Peer -> BlePeer], \A q \in Peer : Quieter(peers[q], peer[q]),
         NEW W, ChannelInv(peer, link, W), Unreferred(peers, link, W, p),
         NEW s \in BlePeer, s.state = "new", s.making # "no", s.half = NoHalf, ~s.rekeyed,
         s.wanted = {}, s.link = "none", ~s.central,
         \A h \in s.deriving : /\ h.by \in Peer /\ Pairs(h.by, p) /\ Tied(peer[h.by], h)
                               /\ \A k \in s.deriving : h = k
  PROVE  ChannelInv([peers EXCEPT ![p] = s], link, W)
<1>1. ChannelInv(peers, link, W)
  <2>1. \A l \in Link : QuietLink(link[l], link[l], peers)
    BY DEF QuietLink
  <2>2. ChannelTyped(peers, link, W)
    BY DEF ChannelInv, ChannelTyped
  <2>. QED BY <2>1, <2>2, QuietStep
<1>2. \A h \in s.deriving : /\ Pairs(h.by, p) /\ Tied(peers[h.by], h) /\ \A k \in s.deriving : h = k
  <2>1. peer \in [Peer -> BlePeer]
    BY DEF ChannelInv, ChannelTyped
  <2>2. \A q \in Peer : \A h : Tied(peer[q], h) => Tied(peers[q], h)
    BY <2>1, QuieterKeeps
  <2>. QED BY <2>2
<1>. QED BY <1>1, <1>2, BegunStep

\* An offer is begun.
LEMMA UpgradeChannels ==
  ASSUME BTInv, ChannelInv(peer, link, wire), NEW n \in Node, NEW t \in Node \ {n}, Upgrade(n, t)
  PROVE  ChannelInv(peer', link', wire')
<1>. DEFINE s == [Unused EXCEPT !.state = "new", !.mapped = TRUE, !.making = "offer"]
            peers == [q \in Peer |-> IF q \in Mapped(n, t) THEN [peer[q] EXCEPT !.mapped = FALSE] ELSE peer[q]]
<1>1. PICK p \in NewPeer(n, t) :
        peer' = [q \in Peer |->
                  IF q = p THEN s
                  ELSE IF q \in Mapped(n, t) THEN [peer[q] EXCEPT !.mapped = FALSE]
                  ELSE peer[q]]
  BY DEF Upgrade
<1>2. peer \in [Peer -> BlePeer] /\ p \in Peer /\ wire' = wire /\ link' = link /\ wire \in [Node -> Seq(Frame)]
  BY InvTypes, NewPeerFacts DEF Upgrade, PlainTyped
<1>3. ASSUME NEW q \in Peer PROVE peers[q] \in BlePeer /\ Quieter(peers[q], peer[q])
  <2>. DEFINE r == peer[q]
              u == [r EXCEPT !.mapped = FALSE]
  <2>1. r \in BlePeer
    BY <1>2
  <2>. HIDE DEF r
  <2>2. u \in BlePeer /\ Quieter(u, r) /\ Quieter(r, r)
    BY <2>1 DEF BlePeer, Quieter
  <2>. QED BY <2>1, <2>2 DEF r
<1>4. peers \in [Peer -> BlePeer]
  BY <1>3
<1>5. peer' = [peers EXCEPT ![p] = s]
  BY <1>1, <1>2
<1>6. /\ s \in BlePeer /\ s.state = "new" /\ s.making # "no" /\ s.half = NoHalf /\ ~s.rekeyed
      /\ s.wanted = {} /\ s.link = "none" /\ ~s.central /\ s.deriving = {}
  BY UnusedFit DEF Unused, BlePeer
<1>. HIDE DEF s, peers
<1>7. Unreferred(peers, link, wire, p)
  <2>1. \A m \in Node : \A i \in 1 .. Len(wire[m]) : \E j \in 1 .. Len(wire[m]) : wire[m][i] = wire[m][j]
    OBVIOUS
  <2>. QED BY <1>2, <1>3, <2>1, NewIsUnreferred
<1>8. ChannelInv([peers EXCEPT ![p] = s], link, wire)
  BY <1>2, <1>3, <1>4, <1>6, <1>7, BegunChannels
<1>. QED BY <1>2, <1>5, <1>8

\* A signal is read: for a peer that awaits it, for a new one, or for none.
LEMMA ReceiveChannels ==
  ASSUME BTInv, ChannelInv(peer, link, wire), NEW n \in Node, Receive(n)
  PROVE  ChannelInv(peer', link', wire')
<1>. DEFINE f == Head(wire[n])
            h == f.half
            t == h.by[1]
            known == Mapped(n, t)
            W == [wire EXCEPT ![n] = Tail(@)]
            s == [Unused EXCEPT !.state = "new", !.mapped = TRUE, !.making = "answer", !.deriving = {h}]
            peers == [p \in Peer |-> IF p \in known THEN Close(peer[p]) ELSE peer[p]]
<1>1. /\ wire[n] # <<>> /\ wire' = W /\ peer \in [Peer -> BlePeer] /\ wire \in [Node -> Seq(Frame)]
  BY InvTypes DEF Receive, PlainTyped
<1>2. ChannelInv(peer, link, W) /\ h \in Half /\ h.by \in Peer /\ h.by[2] = n /\ Tied(peer[h.by], h)
  <2>1. /\ ChannelInv(peer, link, [wire EXCEPT ![n] = Tail(@)])
        /\ Head(wire[n]).half \in Half /\ Head(wire[n]).half.by \in Peer
        /\ Head(wire[n]).half.by[2] = n /\ Tied(peer[Head(wire[n]).half.by], Head(wire[n]).half)
    <3>1. wire[n] # <<>>
      BY <1>1
    <3>. HIDE DEF t, known, s, peers, W, f, h
    <3>2. ChannelInv(peer, link, [wire EXCEPT ![n] = Tail(@)])
      BY <3>1, SignalTaken
    <3>3. Head(wire[n]).half \in Half /\ Head(wire[n]).half.by \in Peer
      BY ONLY <3>1, ChannelInv(peer, link, wire), n \in Node, SignalTaken
    <3>4. Head(wire[n]).half.by[2] = n
      <4>1. wire \in [Node -> Seq(Frame)] /\ wire[n] \in Seq(Frame)
        BY <1>1
      <4>2. 1 \in 1 .. Len(wire[n]) /\ Head(wire[n]) = wire[n][1]
        BY <3>1, <4>1
      <4>3. wire[n][1].half.by[2] = n
        BY <4>2 DEF ChannelInv, SignalsTied
      <4>. QED BY <4>2, <4>3
    <3>5. Tied(peer[Head(wire[n]).half.by], Head(wire[n]).half)
      BY <3>1, SignalTaken
    <3>. QED BY <3>2, <3>3, <3>4, <3>5
  <2>. QED BY <2>1
<1>3. ASSUME UNCHANGED <<peer, link>> PROVE ChannelInv(peer', link', wire')
  BY <1>1, <1>2, <1>3
<1>. HIDE DEF W, h
<1>4. ASSUME NEW p \in known, TakenForAnswer(peer[p]), link' = link,
             peer' = [peer EXCEPT ![p].rekeyed = @ \/ peer[p].deriving # {},
                                  ![p].deriving = @ \cup {h}]
      PROVE  ChannelInv(peer', link', wire')
  <2>1. p \in Peer /\ Pairs(h.by, p) /\ peer[p].state = "offered"
    BY <1>2, <1>4 DEF Mapped, Pairs, TakenForAnswer
  <2>. QED BY <1>1, <1>2, <1>4, <2>1, AnsweredStep
<1>5. ASSUME NEW q \in NewPeer(n, t),
             BecomeAll([p \in Peer |-> IF p = q THEN s ELSE IF p \in known THEN Close(peer[p]) ELSE peer[p]],
                       link, scan)
      PROVE  ChannelInv(peer', link', wire')
  <2>1. q \in Peer
    BY NewPeerFacts
  <2>2. \A p \in Peer : peers[p] \in BlePeer /\ Quieter(peers[p], peer[p])
    BY <1>1, EndsQuiet, ItselfQuiet
  <2>3. peers \in [Peer -> BlePeer]
    BY <2>2
  <2>4. [p \in Peer |-> IF p = q THEN s ELSE IF p \in known THEN Close(peer[p]) ELSE peer[p]]
          = [peers EXCEPT ![q] = s]
    BY <2>1
  <2>5. /\ s \in BlePeer /\ s.state = "new" /\ s.making # "no" /\ s.half = NoHalf /\ ~s.rekeyed
        /\ s.wanted = {} /\ s.link = "none" /\ ~s.central /\ s.deriving = {h}
    <3>1. {h} \in SUBSET Half
      BY <1>2
    <3>. QED BY <3>1, UnusedFit DEF Unused, BlePeer
  <2>6. /\ W \in [Node -> Seq(Frame)]
        /\ \A m \in Node : \A i \in 1 .. Len(W[m]) : \E j \in 1 .. Len(wire[m]) : W[m][i] = wire[m][j]
    <3>1. \A Q \in Seq(Frame) : Q # <<>> =>
            \A i \in 1 .. Len(Tail(Q)) : \E j \in 1 .. Len(Q) : Tail(Q)[i] = Q[j]
      <4>1. ASSUME NEW Q \in Seq(Frame), Q # <<>>, NEW i \in 1 .. Len(Tail(Q))
            PROVE  i + 1 \in 1 .. Len(Q) /\ Tail(Q)[i] = Q[i + 1]
        BY <4>1
      <4>. QED BY <4>1
    <3>2. wire[n] \in Seq(Frame) /\ \A m \in Node : W[m] = IF m = n THEN Tail(wire[n]) ELSE wire[m]
      BY <1>1 DEF W
    <3>3. W \in [Node -> Seq(Frame)]
      BY <1>2 DEF ChannelInv, ChannelTyped
    <3>4. ASSUME NEW m \in Node, NEW i \in 1 .. Len(W[m]) PROVE \E j \in 1 .. Len(wire[m]) : W[m][i] = wire[m][j]
      <4>1. CASE m = n
        <5>1. W[n] = Tail(wire[n]) /\ i \in 1 .. Len(Tail(wire[n]))
          BY <3>2, <3>4, <4>1
        <5>2. \E j \in 1 .. Len(wire[n]) : Tail(wire[n])[i] = wire[n][j]
          BY <1>1, <3>1, <3>2, <5>1
        <5>. QED BY <4>1, <5>1, <5>2
      <4>2. CASE m # n
        BY <4>2, <3>2, <3>4
      <4>. QED BY <4>1, <4>2
    <3>. QED BY <3>3, <3>4
  <2>. HIDE DEF s, peers
  <2>7. \A k \in s.deriving : /\ k.by \in Peer /\ k.by[1] = t /\ k.by[2] = n /\ Tied(peer[k.by], k)
                              /\ \A j \in s.deriving : k = j
    BY <1>2, <2>5
  <2>. HIDE DEF t
  <2>8. ChannelInv([peers EXCEPT ![q] = s], link, W)
    <3>1. /\ ChannelInv(peer, link, wire) /\ q \in NewPeer(n, t) /\ ChannelInv(peer, link, W)
          /\ \A p \in Peer : Quieter(peers[p], peer[p])
          /\ s.state = "new" /\ s.making # "no" /\ s.half = NoHalf /\ ~s.rekeyed
          /\ s.wanted = {} /\ s.link = "none" /\ ~s.central
      BY <1>2, <2>2, <2>5
    <3>2. s \in BlePeer
      BY <2>5
    <3>. HIDE DEF W, h
    <3>3. /\ \A k \in s.deriving : /\ k.by \in Peer /\ k.by[1] = t /\ k.by[2] = n /\ Tied(peer[k.by], k)
                              /\ \A j \in s.deriving : k = j
          /\ W \in [Node -> Seq(Frame)]
          /\ \A m \in Node : \A i \in 1 .. Len(W[m]) : \E j \in 1 .. Len(wire[m]) : W[m][i] = wire[m][j]
      BY <2>6, <2>7
    <3>4. q \in Peer /\ q[1] = n /\ q[2] = t /\ Unreferred(peers, link, W, q)
      BY <3>1, <2>2, <3>3, NewIsUnreferred
    <3>5. \A k \in s.deriving : /\ k.by \in Peer /\ Pairs(k.by, q) /\ Tied(peer[k.by], k)
                                /\ \A j \in s.deriving : k = j
      BY <3>3, <3>4 DEF Pairs
    <3>. QED BY <3>1, <2>3, <3>2, <3>4, <3>5, BegunChannels
  <2>. QED BY <1>1, <1>5, <2>4, <2>8, Becoming
<1>6. \/ UNCHANGED <<peer, link>>
      \/ \E p \in known :
           /\ TakenForAnswer(peer[p]) /\ link' = link
           /\ peer' = [peer EXCEPT ![p].rekeyed = @ \/ peer[p].deriving # {},
                                   ![p].deriving = @ \cup {h}]
      \/ \E q \in NewPeer(n, t) :
           BecomeAll([p \in Peer |-> IF p = q THEN s ELSE IF p \in known THEN Close(peer[p]) ELSE peer[p]],
                     link, scan)
  BY DEF Receive, h
<1>. HIDE DEF known, s, t
<1>. QED BY <1>3, <1>4, <1>5, <1>6

\* What a peer is when it has its key.
LEMMA KeyedIs ==
  ASSUME BTInv, NEW p \in Peer, NEW h \in peer[p].deriving, peer[p].making = "no"
  PROVE  /\ Keyed(p, h) \in BlePeer
         /\ Keyed(p, h).deriving = peer[p].deriving \ {h} /\ Keyed(p, h).half = h
         /\ Keyed(p, h).state = "keyed" /\ Keyed(p, h).wanted \subseteq peer[p].wanted \cup {h.bid}
         /\ Keyed(p, h).making = peer[p].making /\ Keyed(p, h).myBid = peer[p].myBid
         /\ Keyed(p, h).rekeyed = peer[p].rekeyed /\ Keyed(p, h).sendCtr = peer[p].sendCtr
         /\ Keyed(p, h).link = peer[p].link
<1>1. peer \in [Peer -> BlePeer] /\ peer[p] \in BlePeer
  BY InvTypes
<1>2. h \in Half
  BY <1>1 DEF BlePeer
<1>3. Keyed(p, h) \in BlePeer
  BY <1>1, <1>2, KeyedGives
<1>. QED BY <1>1, <1>3 DEF Keyed, BlePeer

\* A key is derived: the bids that led to others lead to this peer, or the hellos
\* that are kept are to be tried again.
LEMMA DerivedChannels ==
  ASSUME BTInv, ChannelInv(peer, link, wire), NEW p \in Peer, NEW h \in peer[p].deriving, Derived(p, h)
  PROVE  ChannelInv(peer', link', wire')
<1>. DEFINE s == Keyed(p, h)
<1>1. /\ peer[p].making = "no" /\ wire' = wire /\ link \in [Link -> LinkState]
      /\ peer \in [Peer -> BlePeer] /\ wire \in [Node -> Seq(Frame)]
      /\ \A l \in Link : JobsHavePeers(link[l])
  BY InvTypes DEF Derived, PlainTyped
<1>2. /\ s \in BlePeer
      /\ s.deriving = peer[p].deriving \ {h} /\ s.half = h
      /\ s.state = "keyed" /\ s.wanted \subseteq peer[p].wanted \cup {h.bid}
      /\ s.making = peer[p].making /\ s.myBid = peer[p].myBid
      /\ s.rekeyed = peer[p].rekeyed /\ s.sendCtr = peer[p].sendCtr
      /\ s.link = peer[p].link
  BY <1>1, KeyedIs
<1>. HIDE DEF s
<1>3. ASSUME peer' = [q \in Peer |->
                        IF q = p THEN s
                        ELSE IF q[1] = p[1] /\ q[2] = p[2] THEN [peer[q] EXCEPT !.wanted = @ \ {h.bid}]
                        ELSE peer[q]],
             link' = link
      PROVE  ChannelInv(peer', link', wire')
  <2>. DEFINE less(q) == [peer[q] EXCEPT !.wanted = @ \ {h.bid}]
              peers == [q \in Peer |-> IF q # p /\ q[1] = p[1] /\ q[2] = p[2] THEN less(q) ELSE peer[q]]
  <2>1. ASSUME NEW q \in Peer PROVE peers[q] \in BlePeer /\ Quieter(peers[q], peer[q])
    <3>. DEFINE r == peer[q]
                w == r.wanted \ {h.bid}
                u == [r EXCEPT !.wanted = w]
    <3>1. r \in BlePeer
      BY <1>1
    <3>2. w \in SUBSET Nat /\ w \subseteq r.wanted
      BY <3>1 DEF BlePeer
    <3>. HIDE DEF r, w
    <3>3. u \in BlePeer /\ Quieter(u, r) /\ Quieter(r, r)
      BY <3>1, <3>2 DEF BlePeer, Quieter
    <3>. QED BY <3>1, <3>3 DEF r, w
  <2>2. peers \in [Peer -> BlePeer]
    BY <2>1
  <2>3. peer' = [peers EXCEPT ![p] = s] /\ peers[p] = peer[p]
    BY <1>3
  <2>. HIDE DEF peers
  <2>4. ChannelInv(peers, link, wire)
    <3>1. \A l \in Link : QuietLink(link[l], link[l], peers)
      BY DEF QuietLink
    <3>. QED BY <1>1, <2>1, <2>2, <3>1, QuietGoesOn
  <2>5. ChannelInv([peers EXCEPT ![p] = s], link, wire)
    BY <1>1, <1>2, <2>3, <2>4, KeyedStep
  <2>. QED BY <1>1, <1>3, <2>3, <2>5
<1>4. ASSUME peer' = [peer EXCEPT ![p] = s], link' = RetryHellos(p[1])
      PROVE  ChannelInv(peer', link', wire')
  <2>. DEFINE links == RetryHellos(p[1])
              again(l) == link[l].retry \/ (l[2] = p[1] /\ link[l].owner = NoPeer /\ link[l].hello # NoRecord)
  <2>1. \A l \in Link : links[l] = [link[l] EXCEPT !.retry = again(l)]
    BY DEF RetryHellos
  <2>2. links \in [Link -> LinkState]
    BY <1>1, <1>4, RetryGives
  <2>3. ASSUME NEW l \in Link PROVE QuietLink(links[l], link[l], peer)
    <3>. DEFINE k == link[l]
                a == again(l)
                k2 == [k EXCEPT !.retry = a]
    <3>1. k \in LinkState /\ (a => k.retry \/ k.hello # NoRecord) /\ links[l] = k2
      BY <1>1, <2>1
    <3>. HIDE DEF k, a
    <3>2. /\ k2.toCentral = k.toCentral /\ k2.toPeripheral = k.toPeripheral
          /\ k2.fromCentral = k.fromCentral /\ k2.fromPeripheral = k.fromPeripheral /\ k2.hello = k.hello
          /\ k2.retry = a /\ k2.owner = k.owner /\ k2.handler = k.handler
      BY <3>1 DEF LinkState
    <3>. HIDE DEF k2
    <3>3. QuietLink(k2, k, peer)
      BY <3>1, <3>2 DEF QuietLink
    <3>. QED BY <3>1, <3>3 DEF k
  <2>. HIDE DEF links
  <2>4. \A q \in Peer : Quieter(peer[q], peer[q])
    BY <1>1, ItselfQuiet
  <2>5. ChannelInv(peer, links, wire)
    BY <1>1, <2>2, <2>3, <2>4, QuietGoesOn
  <2>6. ChannelInv([peer EXCEPT ![p] = s], links, wire)
    BY <1>1, <1>2, <2>5, KeyedStep
  <2>. QED BY <1>1, <1>4, <2>6 DEF links
<1>. QED BY <1>3, <1>4 DEF Derived, s

\* A hello that is looked into, or kept.
LEMMA IdentifyChannels ==
  ASSUME BTInv, ChannelInv(peer, link, wire), NEW l \in Link, NEW rec \in AnyRecord,
         NEW left \in SUBSET Node, NEW gone \in BOOLEAN,
         NEW y \in LinkState, JobsHavePeers(y),
         link[l].owner = NoPeer, y.owner = NoPeer, y.handler = link[l].handler,
         y.toCentral = link[l].toCentral, y.fromPeripheral = link[l].fromPeripheral,
         y.retry => link[l].retry, y.hello = link[l].hello, TakenUp(link[l], y, rec, gone),
         Identify(l, rec, left, gone, [link EXCEPT ![l] = y])
  PROVE  ChannelInv(peer, link', wire)
<1>. DEFINE links == [link EXCEPT ![l] = y]
<1>1. /\ links[l] = y /\ link \in [Link -> LinkState] /\ peer \in [Peer -> BlePeer]
      /\ y.hello \in AnyRecord
  BY InvTypes DEF LinkState
<1>2. ASSUME NEW job \in AnyJob, job.how # "none" => job.peer \in Peer, NEW hello \in AnyRecord,
             \/ job = NoJob /\ hello = IF gone THEN link[l].hello ELSE rec
             \/ /\ job.how = "identify" /\ job.rec = rec /\ job.gone = gone /\ hello = link[l].hello
                /\ ~Idle(peer[job.peer]) /\ ~IsCentral(job.peer)
      PROVE  ChannelInv(peer, [link EXCEPT ![l] = [y EXCEPT !.fromCentral = job, !.hello = hello]], wire)
  <2>. DEFINE x == [y EXCEPT !.fromCentral = job, !.hello = hello]
  <2>1. /\ x \in LinkState /\ x.fromCentral = job /\ x.hello = hello
        /\ x.owner = y.owner /\ x.handler = y.handler /\ x.toCentral = y.toCentral
        /\ x.fromPeripheral = y.fromPeripheral /\ x.retry = y.retry /\ x.toPeripheral = y.toPeripheral
    BY <1>2 DEF LinkState
  <2>. HIDE DEF x
  <2>2. JobsHavePeers(x)
    BY <1>2, <2>1 DEF JobsHavePeers
  <2>3. TakenUp(link[l], x, rec, gone)
    BY <2>1 DEF TakenUp
  <2>4. KeptOrTried(peer, link[l], x, rec, gone)
    BY <1>2, <2>1 DEF KeptOrTried
  <2>5. /\ x.owner = NoPeer /\ x.handler = link[l].handler /\ x.toCentral = link[l].toCentral
        /\ x.fromPeripheral = link[l].fromPeripheral /\ (x.retry => link[l].retry)
    BY <2>1
  <2>6. ChannelInv(peer, [link EXCEPT ![l] = x], wire)
    BY <2>1, <2>2, <2>3, <2>4, <2>5, HeldStep
  <2>. QED BY <2>6 DEF x
<1>3. CASE link' = [links EXCEPT ![l].fromCentral = NoJob, ![l].hello = IF gone THEN @ ELSE rec]
  <2>. DEFINE hello == IF gone THEN link[l].hello ELSE rec
  <2>1. link' = [link EXCEPT ![l] = [y EXCEPT !.fromCentral = NoJob, !.hello = hello]]
    BY <1>1, <1>3 DEF LinkState
  <2>2. hello \in AnyRecord
    BY <1>1
  <2>3. NoJob \in AnyJob /\ NoJob.how = "none"
    BY DownTyped DEF NoJob
  <2>. QED BY <1>2, <2>1, <2>2, <2>3
<1>4. ASSUME NEW p \in Awaited(l[2], left), NEW passed,
             link' = [links EXCEPT ![l].fromCentral =
                  [how |-> "identify", rec |-> rec, peer |-> p, gone |-> gone,
                   left |-> left \ (passed \cup {p[2]})]]
      PROVE  ChannelInv(peer, link', wire)
  <2>. DEFINE tried == left \ (passed \cup {p[2]})
              job == [how |-> "identify", rec |-> rec, peer |-> p, left |-> tried, gone |-> gone]
  <2>1. p \in Peer /\ tried \in SUBSET Node /\ ~IsCentral(p) /\ peer[p].state = "keyed"
    BY DEF Awaited
  <2>2. ~Idle(peer[p])
    BY <2>1 DEF Idle
  <2>3. job \in AnyJob /\ job.peer = p /\ job.how = "identify" /\ job.rec = rec /\ job.gone = gone
    BY <2>1, JobTyped
  <2>4. link' = [links EXCEPT ![l].fromCentral = job]
    BY <1>4
  <2>. HIDE DEF job
  <2>5. link' = [link EXCEPT ![l] = [y EXCEPT !.fromCentral = job, !.hello = link[l].hello]]
    BY <1>1, <2>4 DEF LinkState
  <2>. QED BY <1>1, <1>2, <2>1, <2>2, <2>3, <2>5
<1>. QED BY <1>3, <1>4 DEF Identify

\* The peripheral takes up what the central wrote.
LEMMA FromCentralChannels ==
  ASSUME BTInv, ChannelInv(peer, link, wire), NEW l \in Link, FromCentral(l)
  PROVE  ChannelInv(peer', link', wire')
<1>. DEFINE k == link[l]
            rec == Head(k.toPeripheral)
            p == k.owner
            tail == Tail(k.toPeripheral)
            y == [k EXCEPT !.toPeripheral = tail]
            rest == [link EXCEPT ![l].toPeripheral = Tail(@)]
            job == [NoJob EXCEPT !.how = "record", !.rec = rec, !.peer = p]
<1>1. /\ k \in LinkState /\ JobsHavePeers(k) /\ link \in [Link -> LinkState]
      /\ k.toPeripheral \in Seq(AnyRecord) /\ p \in PeerOrNone
  BY LinkFields
<1>2. k.toPeripheral # <<>> /\ k.fromCentral = NoJob /\ peer' = peer /\ wire' = wire
  BY DEF FromCentral
<1>3. rec \in AnyRecord /\ tail \in Seq(AnyRecord)
  BY <1>1, <1>2
<1>4. rest = [link EXCEPT ![l] = y]
  BY <1>1
<1>. HIDE DEF k, rec, tail, p
<1>5. /\ y \in LinkState /\ y.toPeripheral = tail /\ y.owner = k.owner /\ y.handler = k.handler
      /\ y.toCentral = k.toCentral /\ y.fromPeripheral = k.fromPeripheral /\ y.retry = k.retry
      /\ y.hello = k.hello /\ y.fromCentral = k.fromCentral
  BY <1>1, <1>3 DEF LinkState
<1>6. JobsHavePeers(y)
  BY <1>1, <1>5 DEF JobsHavePeers
<1>. HIDE DEF y
<1>7. ASSUME p = NoPeer, Identify(l, rec, Node \ {l[2]}, FALSE, rest) PROVE ChannelInv(peer', link', wire')
  <2>. DEFINE others == Node \ {l[2]}
  <2>1. others \in SUBSET Node /\ FALSE \in BOOLEAN
    OBVIOUS
  <2>2. Identify(l, rec, others, FALSE, [link EXCEPT ![l] = y])
    BY <1>4, <1>7
  <2>3. TakenUp(k, y, rec, FALSE) /\ k.owner = NoPeer
    BY <1>2, <1>5, <1>7 DEF TakenUp, rec, tail, p
  <2>. HIDE DEF others, rest
  <2>. QED BY <1>2, <1>3, <1>5, <1>6, <2>1, <2>2, <2>3, IdentifyChannels DEF k
<1>8. ASSUME p # NoPeer, link' = [rest EXCEPT ![l].fromCentral = job] PROVE ChannelInv(peer', link', wire')
  <2>. DEFINE x == [y EXCEPT !.fromCentral = job]
  <2>1. p \in Peer
    BY <1>1, <1>8 DEF PeerOrNone
  <2>2. job \in AnyJob /\ job.peer = p /\ job.how = "record" /\ job.rec = rec
    BY <1>3, <2>1, RecordJob DEF NoJob
  <2>. HIDE DEF job
  <2>3. link' = [link EXCEPT ![l] = x]
    BY <1>1, <1>4, <1>5, <1>8 DEF LinkState
  <2>4. /\ x \in LinkState /\ x.fromCentral = job /\ x.toPeripheral = tail /\ x.owner = k.owner
        /\ x.handler = k.handler /\ x.toCentral = k.toCentral /\ x.fromPeripheral = k.fromPeripheral
        /\ x.retry = k.retry /\ x.hello = k.hello
    BY <1>5, <2>2 DEF LinkState
  <2>. HIDE DEF x, rest
  <2>5. JobsHavePeers(x)
    BY <1>1, <2>1, <2>2, <2>4 DEF JobsHavePeers
  <2>6. ~Idle(peer[p])
    BY <1>8 DEF BTInv, OwnerIsCentral, Idle, p, k
  <2>7. ChannelInv(peer, [link EXCEPT ![l] = x], wire)
    <3>1. /\ link[l].fromCentral = NoJob /\ link[l].owner # NoPeer /\ ~Idle(peer[link[l].owner])
          /\ link[l].toPeripheral # <<>>
      BY <1>2, <1>8, <2>6 DEF p, k
    <3>2. /\ x.toPeripheral = Tail(link[l].toPeripheral) /\ x.fromCentral.how = "record"
          /\ x.fromCentral.rec = Head(link[l].toPeripheral) /\ x.fromCentral.peer = link[l].owner
          /\ x.owner = link[l].owner /\ x.handler = link[l].handler
          /\ x.hello = link[l].hello /\ x.retry = link[l].retry
          /\ x.toCentral = link[l].toCentral /\ x.fromPeripheral = link[l].fromPeripheral
      BY <2>2, <2>4 DEF k, rec, tail, p
    <3>. QED BY <2>4, <2>5, <3>1, <3>2, OwnedStep
  <2>. QED BY <1>2, <2>3, <2>7
<1>. QED BY <1>7, <1>8 DEF FromCentral, p, rec, k

\* It looks at a hello again.
LEMMA RetryHelloChannels ==
  ASSUME BTInv, ChannelInv(peer, link, wire), NEW l \in Link, RetryHello(l)
  PROVE  ChannelInv(peer', link', wire')
<1>. DEFINE k == link[l]
            y == [k EXCEPT !.retry = FALSE]
            links == [link EXCEPT ![l].retry = FALSE]
            others == Node \ {l[2]}
            hello == k.hello
<1>1. /\ k \in LinkState /\ JobsHavePeers(k) /\ link \in [Link -> LinkState]
      /\ hello \in AnyRecord /\ k.owner \in PeerOrNone
  BY LinkFields
<1>2. /\ k.retry /\ k.fromCentral = NoJob /\ peer' = peer /\ wire' = wire
      /\ Identify(l, hello, others, FALSE, links)
  BY DEF RetryHello
<1>3. links = [link EXCEPT ![l] = y]
  BY <1>1
<1>4. others \in SUBSET Node /\ FALSE \in BOOLEAN
  OBVIOUS
<1>5. LinkFit(l, k)
  BY LinkKnown
<1>. HIDE DEF k, others
<1>6. hello # NoRecord /\ k.owner = NoPeer
  BY <1>2, <1>5 DEF LinkFit
<1>7. /\ y \in LinkState /\ y.toPeripheral = k.toPeripheral /\ y.owner = k.owner /\ y.handler = k.handler
      /\ y.toCentral = k.toCentral /\ y.fromPeripheral = k.fromPeripheral /\ ~y.retry
      /\ y.hello = k.hello /\ y.fromCentral = k.fromCentral
  BY <1>1 DEF LinkState
<1>. HIDE DEF y
<1>8. JobsHavePeers(y)
  BY <1>1, <1>7 DEF JobsHavePeers
<1>9. TakenUp(k, y, hello, FALSE)
  BY <1>2, <1>6, <1>7 DEF TakenUp
<1>10. Identify(l, hello, others, FALSE, [link EXCEPT ![l] = y])
  BY <1>2, <1>3
<1>. HIDE DEF hello, links
<1>11. ChannelInv(peer, link', wire)
  <2>1. y.hello = link[l].hello
    BY <1>7 DEF k
  <2>. QED BY <1>1, <1>4, <1>6, <1>7, <1>8, <1>9, <1>10, <2>1, IdentifyChannels DEF k
<1>. QED BY <1>2, <1>11

\* Who has opened a record expects what comes behind it.
LEMMA ExpectsNext ==
  ASSUME NEW P, NEW K, NEW W, ChannelInv(P, K, W), NEW l \in Link, NEW k2 \in LinkState,
         NEW p \in Peer, NEW s \in BlePeer, LinkOf(p) = l, s.half = P[p].half,
         NEW rec, IsFor(rec, P[p].half.by, p), RecordOK(P, l, rec),
         k2.toPeripheral = K[l].toPeripheral, k2.toCentral = K[l].toCentral, JobAt(k2, p) = NoJob,
         Hearing(k2, p) => RunAfter(P, K, rec), s.recvCtr = rec.ctr + 1,
         ~IsCentral(p) /\ k2.owner # p => Nothing(P, K, rec.by, p)
  PROVE  Expects([P EXCEPT ![p] = s], [K EXCEPT ![l] = k2], p)
<1>. DEFINE P2 == [P EXCEPT ![p] = s]
            K2 == [K EXCEPT ![l] = k2]
            q == rec.by
<1>1. q \in Peer /\ Pairs(q, p) /\ Wrote(P[q], p) /\ P[p].half.by = q /\ rec.to = p /\ q # p
  BY PairFacts DEF RecordOK, IsFor
<1>2. P2[p] = s /\ P2[q] = P[q] /\ K2[l] = k2
  BY <1>1 DEF ChannelInv, ChannelTyped
<1>3. NoJob.how = "none"
  BY DEF NoJob
<1>4. QueueTo(k2, p) = QueueTo(K[l], p)
  BY DEF QueueTo
<1>. HIDE DEF P2, K2, q
<1>5. RunAfter(P, K, rec) => Run(P2, K2, q, p, s.recvCtr)
  BY <1>1, <1>2, <1>4 DEF RunAfter, Run, q
<1>6. Nothing(P, K, q, p) => Nothing(P2, K2, q, p)
  BY <1>1, <1>2 DEF Nothing
<1>7. Expects(P2, K2, p)
  <2>1. P2[p].half.by = q /\ K2[LinkOf(p)] = k2 /\ P2[p].recvCtr = s.recvCtr /\ P2[q] = P[q]
    BY <1>1, <1>2
  <2>2. Wrote(P2[q], p)
    BY <1>1, <2>1
  <2>3. ~Opening(JobAt(k2, p), q, p)
    BY <1>3 DEF Opening
  <2>4. Hearing(k2, p) => Run(P2, K2, q, p, s.recvCtr)
    BY <1>5
  <2>5. ~IsCentral(p) /\ k2.owner # p =>
          ~(k2.fromCentral.how = "record" /\ k2.fromCentral.peer = p) /\ Nothing(P2, K2, q, p)
    <3>1. ~IsCentral(p) => k2.fromCentral = NoJob
      BY DEF JobAt
    <3>. QED BY <1>3, <1>6, <3>1 DEF q
  <2>. QED BY <2>1, <2>2, <2>3, <2>4, <2>5 DEF Expects
<1>. QED BY <1>7 DEF P2, K2

\* What a peer is when it has its central.
LEMMA GreetedIs ==
  ASSUME NEW r \in BlePeer
  PROVE  /\ Greeted(r) \in BlePeer /\ Greeted(r).state = "open" /\ Greeted(r).central
         /\ Greeted(r).recvCtr = 1
         /\ Greeted(r).making = r.making /\ Greeted(r).deriving = r.deriving
         /\ Greeted(r).half = r.half /\ Greeted(r).myBid = r.myBid
         /\ Greeted(r).rekeyed = r.rekeyed /\ Greeted(r).sendCtr = r.sendCtr
         /\ Greeted(r).link = r.link /\ Greeted(r).wanted = r.wanted
<1>. DEFINE more == Append(r.queue, "hello")
            s == [r EXCEPT !.central = TRUE, !.recvCtr = 1, !.queue = more]
<1>1. more \in Seq({"hello", "data"})
  BY DEF BlePeer
<1>2. Greeted(r) = [s EXCEPT !.timer = FALSE, !.state = "open"]
  BY DEF Greeted, Open, Say, BlePeer
<1>. HIDE DEF more
<1>3. /\ s \in BlePeer /\ s.central /\ s.recvCtr = 1
      /\ s.making = r.making /\ s.deriving = r.deriving /\ s.half = r.half /\ s.myBid = r.myBid
      /\ s.rekeyed = r.rekeyed /\ s.sendCtr = r.sendCtr /\ s.link = r.link /\ s.wanted = r.wanted
  BY <1>1 DEF BlePeer
<1>. DEFINE o == [s EXCEPT !.timer = FALSE, !.state = "open"]
<1>. HIDE DEF s
<1>4. /\ o \in BlePeer /\ o.central = s.central /\ o.recvCtr = s.recvCtr /\ o.state = "open"
      /\ o.making = s.making /\ o.deriving = s.deriving /\ o.half = s.half /\ o.myBid = s.myBid
      /\ o.rekeyed = s.rekeyed /\ o.sendCtr = s.sendCtr /\ o.link = s.link /\ o.wanted = s.wanted
  BY <1>3 DEF BlePeer
<1>. QED BY <1>2, <1>3, <1>4

\* It is found out whose the hello is, or that it is nobody's.
LEMMA IdentifiedChannels ==
  ASSUME BTInv, ChannelInv(peer, link, wire), NEW l \in Link, Identified(l)
  PROVE  ChannelInv(peer', link', wire')
<1>. DEFINE k == link[l]
            job == k.fromCentral
            rec == job.rec
            p == job.peer
            owner == IF job.gone THEN k.owner ELSE p
            hello == IF job.gone THEN k.hello ELSE NoRecord
            x == [k EXCEPT !.fromCentral = NoJob, !.retry = FALSE, !.owner = owner, !.hello = hello]
            s == Greeted(peer[p])
<1>1. /\ link \in [Link -> LinkState] /\ k \in LinkState /\ JobsHavePeers(k)
      /\ k.hello \in AnyRecord /\ k.owner \in PeerOrNone
      /\ rec \in AnyRecord /\ job.left \in SUBSET Node /\ job.gone \in BOOLEAN
  BY LinkFields
<1>2. job.how = "identify" /\ wire' = wire
  BY DEF Identified
<1>3. p \in Peer /\ peer \in [Peer -> BlePeer]
  BY <1>1, <1>2, InvTypes DEF JobsHavePeers
<1>4. LinkFit(l, k) /\ LinkSpeaks(peer, link, l) /\ LinkTaken(peer, link, l)
  BY LinkKnown
<1>5. k.owner = NoPeer /\ (job.gone => k.hello = NoRecord) /\ ~IsCentral(p)
  BY <1>2, <1>4 DEF LinkFit
<1>6. ASSUME Identify(l, rec, job.left, job.gone, link), peer' = peer
      PROVE  ChannelInv(peer', link', wire')
  <2>. DEFINE left == job.left
              gone == job.gone
  <2>1. link = [link EXCEPT ![l] = k]
    BY <1>1
  <2>2. TakenUp(k, k, rec, gone)
    BY <1>2 DEF TakenUp
  <2>3. left \in SUBSET Node /\ gone \in BOOLEAN
    BY <1>1
  <2>4. Identify(l, rec, left, gone, [link EXCEPT ![l] = k])
    BY <1>6, <2>1
  <2>. HIDE DEF rec, left, gone, k
  <2>5. ChannelInv(peer, link', wire)
    BY <1>1, <1>5, <2>2, <2>3, <2>4, IdentifyChannels DEF k
  <2>. QED BY <1>2, <1>6, <2>5
<1>7. ASSUME Opens(p, rec, 0), rec.type = "hello",
             BecomeAll([peer EXCEPT ![p] = s], [link EXCEPT ![l] = x], scan)
      PROVE  ChannelInv(peer', link', wire')
  <2>1. owner \in PeerOrNone /\ hello = NoRecord /\ NoJob \in AnyJob /\ NoJob.how = "none" /\ NoRecord \in AnyRecord
    <3>1. NoRecord \in AnyRecord
      BY DEF NoRecord, AnyRecord, PeerOrNone
    <3>. QED BY <1>1, <1>3, <1>5, <3>1, DownTyped DEF PeerOrNone, NoJob
  <2>2. /\ (~job.gone => owner = p) /\ (job.gone => owner = NoPeer)
    BY <1>5
  <2>. HIDE DEF owner, hello, s
  <2>3. /\ x \in LinkState /\ x.fromCentral = NoJob /\ x.fromPeripheral = k.fromPeripheral
        /\ x.toCentral = k.toCentral /\ x.toPeripheral = k.toPeripheral /\ x.handler = k.handler
        /\ x.owner = owner /\ x.hello = NoRecord /\ ~x.retry
    BY <1>1, <2>1 DEF LinkState
  <2>. HIDE DEF x
  <2>4. rec.to = p /\ rec.by = peer[p].half.by /\ rec.ctr = 0
    BY <1>7 DEF Opens
  <2>5. RecordOK(peer, l, rec) /\ LinkOf(p) = l
    BY <1>2, <2>4, RecordFacts DEF RecordOK
  <2>6. /\ s \in BlePeer /\ s.state = "open" /\ s.central /\ s.recvCtr = 1
        /\ s.making = peer[p].making /\ s.deriving = peer[p].deriving
        /\ s.half = peer[p].half /\ s.myBid = peer[p].myBid
        /\ s.rekeyed = peer[p].rekeyed /\ s.sendCtr = peer[p].sendCtr
        /\ s.link = peer[p].link /\ s.wanted = peer[p].wanted
    BY <1>3, GreetedIs DEF s
  <2>7. OpensFor(k.fromCentral, peer[p], p)
    BY <1>2, <2>4 DEF OpensFor
  <2>8. JobsOver(x, k)
    BY <2>3 DEF JobsOver
  <2>9. LinkFit(l, x)
    BY <1>4, <1>5, <2>1, <2>2, <2>3, <2>5 DEF LinkFit, NoJob
  <2>10. Expects([peer EXCEPT ![p] = s], [link EXCEPT ![l] = x], p)
    <3>1. IsFor(rec, peer[p].half.by, p) /\ JobAt(x, p) = NoJob /\ s.recvCtr = rec.ctr + 1
      BY <1>5, <2>3, <2>4, <2>6 DEF IsFor, JobAt
    <3>2. Hearing(x, p) => RunAfter(peer, link, rec)
      BY <1>2, <1>3, <1>4, <1>5, <2>2, <2>3, PeerFacts DEF Hearing, LinkTaken, Identifies
    <3>3. x.owner # p => Nothing(peer, link, rec.by, p)
      BY <1>2, <1>4, <2>2, <2>3, <2>4 DEF LinkSpeaks
    <3>. HIDE DEF rec, p
    <3>. QED BY <1>3, <2>3, <2>5, <2>6, <3>1, <3>2, <3>3, ExpectsNext DEF k
  <2>11. ChannelInv([peer EXCEPT ![p] = s], [link EXCEPT ![l] = x], wire)
    <3>1. x.fromPeripheral # k.fromPeripheral => k.fromPeripheral.peer = p
      BY <2>3
    <3>2. x.fromCentral # k.fromCentral => k.fromCentral.peer = p /\ k.fromCentral.how # "thrown"
      BY <1>2
    <3>3. x.owner = k.owner \/ (k.owner = NoPeer /\ x.owner = p /\ x.fromCentral = NoJob)
      BY <1>5, <2>2, <2>3
    <3>. HIDE DEF p
    <3>. QED BY <1>3, <2>3, <2>5, <2>6, <2>7, <2>8, <2>9, <2>10, <3>1, <3>2, <3>3, OpenedStep DEF k
  <2>. QED BY <1>2, <1>7, <2>11, Becoming
<1>8. [link EXCEPT ![l].fromCentral = NoJob, ![l].retry = FALSE,
                   ![l].owner = IF job.gone THEN @ ELSE p,
                   ![l].hello = IF job.gone THEN @ ELSE NoRecord] = [link EXCEPT ![l] = x]
  BY <1>1 DEF LinkState
<1>9. [peer EXCEPT ![p] = Greeted(@)] = [peer EXCEPT ![p] = s]
  BY <1>3
<1>10. ASSUME link' = [link EXCEPT ![l].fromCentral =
                         IF job.gone THEN NoJob ELSE [job EXCEPT !.how = "thrown"]],
              peer' = [peer EXCEPT ![p].late = TRUE]
       PROVE  ChannelInv(peer', link', wire')
  <2>. DEFINE thrown == [job EXCEPT !.how = "thrown"]
              next == IF job.gone THEN NoJob ELSE thrown
              y == [k EXCEPT !.fromCentral = next]
  <2>1. job \in AnyJob /\ NoJob \in AnyJob
    BY LinkFields, DownTyped
  <2>2. thrown \in AnyJob /\ thrown.how = "thrown" /\ thrown.rec = rec /\ thrown.peer = p
    BY <2>1 DEF AnyJob
  <2>3. /\ next \in AnyJob
        /\ \/ next = NoJob /\ job.gone
           \/ next.how = "thrown" /\ next.rec = rec /\ next.peer = p
    <3>. HIDE DEF thrown
    <3>. QED BY <2>1, <2>2
  <2>4. link' = [link EXCEPT ![l] = y]
    BY <1>1, <1>10
  <2>. HIDE DEF next
  <2>5. /\ y \in LinkState /\ y.fromCentral = next /\ y.fromPeripheral = k.fromPeripheral
        /\ y.toCentral = k.toCentral /\ y.toPeripheral = k.toPeripheral /\ y.handler = k.handler
        /\ y.owner = k.owner /\ y.hello = k.hello /\ y.retry = k.retry
    BY <1>1, <2>3 DEF LinkState
  <2>. HIDE DEF y
  <2>6. JobThrown(y, k)
    BY <1>2, <2>3, <2>5 DEF JobThrown
  <2>7. ChannelInv(peer, [link EXCEPT ![l] = y], wire)
    <3>. HIDE DEF rec, p
    <3>. QED BY <2>5, <2>6, DropStep DEF k
  <2>8. \A q \in Peer : peer'[q] = IF q = p THEN [peer[q] EXCEPT !.late = TRUE] ELSE peer[q]
    BY <1>3, <1>10
  <2>9. \A q \in Peer : peer'[q] \in BlePeer /\ Quieter(peer'[q], peer[q])
    <3>1. \A q \in Peer : peer[q] \in BlePeer /\ Fit(peer[q])
      BY <1>3 DEF BTInv, AllFit
    <3>2. \A r \in BlePeer : Fit(r) => [r EXCEPT !.late = TRUE] \in BlePeer
                                       /\ Quieter([r EXCEPT !.late = TRUE], r)
      BY LateKeeps DEF Keeps, Follows, Quieter
    <3>. QED BY <2>8, <3>1, <3>2, ItselfQuiet
  <2>10. peer' \in [Peer -> BlePeer]
    BY <1>3, <1>10, <2>9
  <2>11. ChannelTyped(peer', link', wire) /\ \A m \in Link : QuietLink(link'[m], link'[m], peer')
    BY <2>4, <2>7, <2>10 DEF ChannelInv, ChannelTyped, QuietLink
  <2>. QED BY <1>2, <2>4, <2>7, <2>9, <2>11, QuietStep
<1>. QED BY <1>6, <1>7, <1>8, <1>9, <1>10 DEF Identified

\* The central takes up what the peripheral notified, if the tag is its own.
LEMMA FromPeripheralChannels ==
  ASSUME BTInv, ChannelInv(peer, link, wire), NEW l \in Link, FromPeripheral(l)
  PROVE  ChannelInv(peer', link', wire')
<1>. DEFINE k == link[l]
            rec == Head(k.toCentral)
            p == k.handler
            tail == Tail(k.toCentral)
            y == [k EXCEPT !.toCentral = tail]
            rest == [link EXCEPT ![l].toCentral = Tail(@)]
            job == [NoJob EXCEPT !.how = "record", !.rec = rec, !.peer = p]
<1>1. /\ k \in LinkState /\ JobsHavePeers(k) /\ link \in [Link -> LinkState]
      /\ k.toCentral \in Seq(AnyRecord) /\ p \in PeerOrNone /\ peer \in [Peer -> BlePeer]
  BY LinkFields, InvTypes
<1>2. k.toCentral # <<>> /\ k.fromPeripheral = NoJob /\ peer' = peer /\ wire' = wire
  BY DEF FromPeripheral
<1>3. rec \in AnyRecord /\ tail \in Seq(AnyRecord) /\ rec = k.toCentral[1] /\ 1 \in 1 .. Len(k.toCentral)
  BY <1>1, <1>2
<1>4. RecordOK(peer, l, rec) /\ IsCentral(rec.to)
  BY <1>3, RecordFacts
<1>5. rest = [link EXCEPT ![l] = y]
  BY <1>1
<1>. HIDE DEF k, rec, tail, p
<1>6. /\ y \in LinkState /\ y.toCentral = tail /\ y.owner = k.owner /\ y.handler = k.handler
      /\ y.toPeripheral = k.toPeripheral /\ y.fromPeripheral = k.fromPeripheral /\ y.retry = k.retry
      /\ y.hello = k.hello /\ y.fromCentral = k.fromCentral
  BY <1>1, <1>3 DEF LinkState
<1>7. JobsHavePeers(y)
  BY <1>1, <1>6 DEF JobsHavePeers
<1>. HIDE DEF y
<1>8. ASSUME p = NoPeer \/ ~HasTag(rec, p) \/ Done(peer[p]), link' = rest
      PROVE  ChannelInv(peer', link', wire')
  <2>1. ASSUME NEW x \in Peer, p = x, peer[x].state = "open" PROVE ~IsFor(rec, peer[x].half.by, x)
    <3>1. ~HasTag(rec, x)
      BY <1>8, <2>1, PeerFacts DEF Done
    <3>. QED BY <1>4, <3>1 DEF HasTag, IsFor, RecordOK
  <2>2. ChannelInv(peer, [link EXCEPT ![l] = y], wire)
    <3>1. y.fromPeripheral = NoJob
      BY <1>2, <1>6
    <3>2. /\ link[l].fromPeripheral = NoJob /\ link[l].toCentral # <<>> /\ y.toCentral = Tail(link[l].toCentral)
          /\ y.owner = link[l].owner /\ y.handler = link[l].handler /\ y.hello = link[l].hello
          /\ y.retry = link[l].retry /\ y.toPeripheral = link[l].toPeripheral
          /\ y.fromCentral = link[l].fromCentral
      BY <1>2, <1>6 DEF k, tail
    <3>3. \A x \in Peer : link[l].handler = x /\ peer[x].state = "open" =>
             ~IsFor(Head(link[l].toCentral), peer[x].half.by, x)
      BY <2>1 DEF p, k, rec
    <3>. QED BY <1>6, <1>7, <3>1, <3>2, <3>3, NotifiedStep
  <2>. QED BY <1>2, <1>5, <1>8, <2>2
<1>9. ASSUME p # NoPeer, ~Done(peer[p]), link' = [rest EXCEPT ![l].fromPeripheral = job]
      PROVE  ChannelInv(peer', link', wire')
  <2>. DEFINE x == [y EXCEPT !.fromPeripheral = job]
  <2>1. p \in Peer
    BY <1>1, <1>9 DEF PeerOrNone
  <2>2. job \in AnyJob /\ job.peer = p /\ job.how = "record" /\ job.rec = rec
    BY <1>3, <2>1, RecordJob DEF NoJob
  <2>. HIDE DEF job
  <2>3. link' = [link EXCEPT ![l] = x]
    BY <1>1, <1>5, <1>6, <1>9 DEF LinkState
  <2>4. /\ x \in LinkState /\ x.fromPeripheral = job /\ x.toCentral = tail /\ x.owner = k.owner
        /\ x.handler = k.handler /\ x.toPeripheral = k.toPeripheral /\ x.fromCentral = k.fromCentral
        /\ x.retry = k.retry /\ x.hello = k.hello
    BY <1>6, <2>2 DEF LinkState
  <2>. HIDE DEF x, rest
  <2>5. JobsHavePeers(x)
    BY <1>1, <2>1, <2>2, <2>4 DEF JobsHavePeers
  <2>6. ~Idle(peer[p])
    <3>1. LinkOf(p) = l
      <4>1. LinkFit(l, link[l])
        BY LinkKnown
      <4>. QED BY <1>9, <4>1 DEF LinkFit, p, k
    <3>2. peer[p].half # NoHalf
      <4>1. link[LinkOf(p)].handler = p
        BY <3>1 DEF p, k
      <4>. QED BY <2>1, <4>1 DEF ChannelInv, Attached
    <3>3. peer[p].state # "unused"
      BY <2>1, <3>2 DEF ChannelInv, AllEarly, Early
    <3>. QED BY <1>9, <3>3 DEF Done, Idle
  <2>7. ChannelInv(peer, [link EXCEPT ![l] = x], wire)
    <3>1. /\ link[l].fromPeripheral = NoJob /\ link[l].handler # NoPeer /\ ~Idle(peer[link[l].handler])
          /\ link[l].toCentral # <<>>
      BY <1>2, <1>9, <2>6 DEF p, k
    <3>2. /\ x.toCentral = Tail(link[l].toCentral) /\ x.fromPeripheral.how = "record"
          /\ x.fromPeripheral.rec = Head(link[l].toCentral) /\ x.fromPeripheral.peer = link[l].handler
          /\ x.owner = link[l].owner /\ x.handler = link[l].handler
          /\ x.hello = link[l].hello /\ x.retry = link[l].retry
          /\ x.toPeripheral = link[l].toPeripheral /\ x.fromCentral = link[l].fromCentral
      BY <2>2, <2>4 DEF k, rec, tail, p
    <3>. QED BY <2>4, <2>5, <3>1, <3>2, NotifiedStep
  <2>. QED BY <1>2, <2>3, <2>7
<1>. QED BY <1>8, <1>9 DEF FromPeripheral, p, rec, k

\* A record opens for a peer, which is open then, or it changes nothing but that
\* the peer may be closed.
LEMMA AfterRecordIs ==
  ASSUME NEW p \in Peer, peer[p] \in BlePeer, NEW rec
  PROVE  LET r == peer[p]
             s == AfterRecord(p, rec)
         IN /\ s \in BlePeer
            /\ \/ /\ Opens(p, rec, r.recvCtr) /\ s.state = "open" /\ s.recvCtr = r.recvCtr + 1
                  /\ s.making = r.making /\ s.deriving = r.deriving /\ s.half = r.half /\ s.myBid = r.myBid
                  /\ s.rekeyed = r.rekeyed /\ s.sendCtr = r.sendCtr /\ s.link = r.link
                  /\ s.wanted = r.wanted /\ s.central = r.central
                  /\ IsCentral(p) \/ r.state = "open"
               \/ s.state # "open" /\ Quieter(s, r)
<1>. DEFINE r == peer[p]
            c == r.recvCtr + 1
            t == [r EXCEPT !.recvCtr = c]
            o == [t EXCEPT !.timer = FALSE, !.state = "open"]
            s == AfterRecord(p, rec)
<1>1. r \in BlePeer /\ r.recvCtr \in Nat /\ c \in Nat
  BY DEF BlePeer
<1>2. t = [r EXCEPT !.recvCtr = @ + 1] /\ Open(t) = o
  BY DEF Open
<1>3. \/ s = Closed(r)
      \/ /\ Opens(p, rec, r.recvCtr)
         /\ (s = o /\ IsCentral(p)) \/ s = t \/ (s = Closed(t) /\ t.state # "open")
  <2>1. CASE ~Opens(p, rec, r.recvCtr)
    BY <2>1 DEF AfterRecord
  <2>2. CASE Opens(p, rec, r.recvCtr)
    <3>1. s = IF rec.type = "hello" THEN (IF IsCentral(p) THEN Open(t) ELSE t)
              ELSE IF t.state = "open" THEN t ELSE Closed(t)
      BY <1>2, <2>2 DEF AfterRecord
    <3>. HIDE DEF s, t, o, r
    <3>. QED BY <1>2, <2>2, <3>1
  <2>. QED BY <2>1, <2>2
<1>. HIDE DEF r, s, c
<1>4. /\ t \in BlePeer /\ t.recvCtr = c /\ t.state = r.state
      /\ t.making = r.making /\ t.deriving = r.deriving /\ t.half = r.half /\ t.myBid = r.myBid
      /\ t.rekeyed = r.rekeyed /\ t.sendCtr = r.sendCtr /\ t.link = r.link
      /\ t.wanted = r.wanted /\ t.central = r.central
      /\ r.state # "open" => Quieter(t, r)
  BY <1>1 DEF BlePeer, Quieter
<1>. HIDE DEF t
<1>5. /\ o \in BlePeer /\ o.recvCtr = t.recvCtr /\ o.state = "open"
      /\ o.making = t.making /\ o.deriving = t.deriving /\ o.half = t.half /\ o.myBid = t.myBid
      /\ o.rekeyed = t.rekeyed /\ o.sendCtr = t.sendCtr /\ o.link = t.link
      /\ o.wanted = t.wanted /\ o.central = t.central
  BY <1>4 DEF BlePeer
<1>. HIDE DEF o
<1>6. /\ Closed(r) \in BlePeer /\ Closed(r).state # "open" /\ Quieter(Closed(r), r)
      /\ Closed(t) \in BlePeer /\ Closed(t).state # "open" /\ Quieter(Closed(t), t)
  BY <1>1, <1>4, EndsQuiet
<1>7. r.state # "open" => Quieter(Closed(t), r)
  BY <1>1, <1>4, <1>6, QuietTwice
<1>8. /\ s \in BlePeer
      /\ \/ /\ Opens(p, rec, r.recvCtr) /\ s.state = "open" /\ s.recvCtr = c
            /\ s.making = r.making /\ s.deriving = r.deriving /\ s.half = r.half /\ s.myBid = r.myBid
            /\ s.rekeyed = r.rekeyed /\ s.sendCtr = r.sendCtr /\ s.link = r.link
            /\ s.wanted = r.wanted /\ s.central = r.central
            /\ IsCentral(p) \/ r.state = "open"
         \/ s.state # "open" /\ Quieter(s, r)
  BY <1>3, <1>4, <1>5, <1>6, <1>7
<1>. QED BY <1>8 DEF r, s, c

\* A record is opened at a peripheral.
LEMMA RecordFromCentralChannels ==
  ASSUME BTInv, ChannelInv(peer, link, wire), NEW l \in Link, RecordFromCentral(l)
  PROVE  ChannelInv(peer', link', wire')
<1>. DEFINE k == link[l]
            job == k.fromCentral
            rec == job.rec
            p == job.peer
            r == peer[p]
            s == AfterRecord(p, rec)
            x == [k EXCEPT !.fromCentral = NoJob]
<1>1. /\ link \in [Link -> LinkState] /\ k \in LinkState /\ JobsHavePeers(k)
  BY LinkFields
<1>2. /\ job.how = "record" /\ wire' = wire
      /\ BecomeAll([peer EXCEPT ![p] = s], [link EXCEPT ![l].fromCentral = NoJob], scan)
  BY DEF RecordFromCentral
<1>3. p \in Peer /\ peer \in [Peer -> BlePeer] /\ r \in BlePeer
  BY <1>1, <1>2, InvTypes DEF JobsHavePeers
<1>4. LinkFit(l, k) /\ LinkTaken(peer, link, l) /\ RecordOK(peer, l, rec)
  BY <1>2, LinkKnown, RecordFacts
<1>5. k.owner \in {p, NoPeer} /\ LinkOf(p) = l /\ ~IsCentral(p)
  BY <1>2, <1>4 DEF LinkFit
<1>6. NoJob \in AnyJob /\ NoJob.how = "none"
  BY DownTyped DEF NoJob
<1>7. [link EXCEPT ![l].fromCentral = NoJob] = [link EXCEPT ![l] = x]
  BY <1>1
<1>8. /\ x \in LinkState /\ x.fromCentral = NoJob /\ x.fromPeripheral = k.fromPeripheral
      /\ x.toCentral = k.toCentral /\ x.toPeripheral = k.toPeripheral /\ x.handler = k.handler
      /\ x.owner = k.owner /\ x.hello = k.hello /\ x.retry = k.retry
  BY <1>1, <1>6 DEF LinkState
<1>9. JobsOver(x, k) /\ LinkFit(l, x)
  BY <1>4, <1>6, <1>8 DEF JobsOver, LinkFit
<1>10. /\ s \in BlePeer
       /\ \/ /\ Opens(p, rec, r.recvCtr) /\ s.state = "open" /\ s.recvCtr = r.recvCtr + 1
             /\ s.making = r.making /\ s.deriving = r.deriving /\ s.half = r.half /\ s.myBid = r.myBid
             /\ s.rekeyed = r.rekeyed /\ s.sendCtr = r.sendCtr /\ s.link = r.link
             /\ s.wanted = r.wanted /\ s.central = r.central
             /\ IsCentral(p) \/ r.state = "open"
          \/ s.state # "open" /\ Quieter(s, r)
  BY <1>3, AfterRecordIs
<1>. HIDE DEF x, s, p, rec
<1>11. ASSUME Opens(p, rec, r.recvCtr), s.state = "open", s.recvCtr = r.recvCtr + 1,
              s.making = r.making, s.deriving = r.deriving, s.half = r.half, s.myBid = r.myBid,
              s.rekeyed = r.rekeyed, s.sendCtr = r.sendCtr, s.link = r.link,
              s.wanted = r.wanted, s.central = r.central, r.state = "open"
       PROVE  ChannelInv([peer EXCEPT ![p] = s], [link EXCEPT ![l] = x], wire)
  <2>1. rec.to = p /\ rec.by = r.half.by /\ rec.ctr = r.recvCtr
    BY <1>11 DEF Opens
  <2>2. s.central
    BY <1>3, <1>5, <1>11 DEF ChannelInv, Attached
  <2>3. OpensFor(k.fromCentral, r, p)
    BY <1>2, <2>1 DEF OpensFor, p, rec
  <2>4. ASSUME ~s.rekeyed PROVE Expects([peer EXCEPT ![p] = s], [link EXCEPT ![l] = x], p)
    <3>1. Expects(peer, link, p)
      BY <1>3, <1>11, <2>4, OpenKnown
    <3>2. k.owner = p
      BY <1>2, <1>5, <3>1 DEF Expects, p
    <3>3. RunAfter(peer, link, rec)
      BY <1>2, <1>4, <3>2 DEF LinkTaken, p, rec
    <3>4. IsFor(rec, r.half.by, p) /\ JobAt(x, p) = NoJob /\ s.recvCtr = rec.ctr + 1 /\ x.owner = p
      BY <1>5, <1>8, <1>11, <2>1, <3>2 DEF IsFor, JobAt
    <3>. QED BY <1>3, <1>4, <1>5, <1>8, <1>10, <1>11, <3>3, <3>4, ExpectsNext
  <2>5. /\ x.fromCentral # k.fromCentral => k.fromCentral.peer = p /\ k.fromCentral.how # "thrown"
        /\ x.fromPeripheral # k.fromPeripheral => k.fromPeripheral.peer = p
        /\ x.owner = k.owner
        /\ x.hello = k.hello /\ ~Identifies(k.fromCentral)
    BY <1>2, <1>8 DEF p, Identifies
  <2>. HIDE DEF job
  <2>. QED BY <1>3, <1>5, <1>8, <1>9, <1>10, <1>11, <2>2, <2>3, <2>4, <2>5, OpenedStep
<1>12. ASSUME s.state # "open", Quieter(s, r)
       PROVE  ChannelInv([peer EXCEPT ![p] = s], [link EXCEPT ![l] = x], wire)
  <2>. DEFINE peers == [peer EXCEPT ![p] = s]
  <2>1. ChannelInv(peers, link, wire)
    BY <1>3, <1>10, <1>12, OneQuiet
  <2>2. peers[p] = s
    BY <1>3
  <2>. HIDE DEF peers
  <2>3. ChannelInv(peers, [link EXCEPT ![l] = x], wire)
    <3>1. /\ x.fromCentral # k.fromCentral =>
               k.fromCentral.how = "record" /\ peers[k.fromCentral.peer].state # "open"
          /\ x.fromPeripheral = k.fromPeripheral /\ x.owner = k.owner /\ x.hello = k.hello /\ x.retry = k.retry
      BY <1>2, <1>8, <1>12, <2>2 DEF p
    <3>. HIDE DEF job
    <3>. QED BY <1>8, <1>9, <2>1, <3>1, DropStep
  <2>. QED BY <2>3 DEF peers
<1>13. ChannelInv([peer EXCEPT ![p] = s], [link EXCEPT ![l] = x], wire)
  BY <1>5, <1>10, <1>11, <1>12
<1>. QED BY <1>2, <1>7, <1>13, Becoming

\* A record is opened at a central.
LEMMA RecordFromPeripheralChannels ==
  ASSUME BTInv, ChannelInv(peer, link, wire), NEW l \in Link, RecordFromPeripheral(l)
  PROVE  ChannelInv(peer', link', wire')
<1>. DEFINE k == link[l]
            job == k.fromPeripheral
            rec == job.rec
            p == job.peer
            r == peer[p]
            s == AfterRecord(p, rec)
            x == [k EXCEPT !.fromPeripheral = NoJob]
<1>1. /\ link \in [Link -> LinkState] /\ k \in LinkState /\ JobsHavePeers(k)
  BY LinkFields
<1>2. /\ job.how = "record" /\ wire' = wire
      /\ BecomeAll([peer EXCEPT ![p] = s], [link EXCEPT ![l].fromPeripheral = NoJob], scan)
  BY DEF RecordFromPeripheral
<1>3. p \in Peer /\ peer \in [Peer -> BlePeer] /\ r \in BlePeer
  BY <1>1, <1>2, InvTypes DEF JobsHavePeers
<1>4. LinkFit(l, k) /\ LinkTaken(peer, link, l) /\ RecordOK(peer, l, rec)
  BY <1>2, LinkKnown, RecordFacts
<1>5. LinkOf(p) = l /\ IsCentral(p)
  BY <1>2, <1>4 DEF LinkFit
<1>6. NoJob \in AnyJob /\ NoJob.how = "none"
  BY DownTyped DEF NoJob
<1>7. [link EXCEPT ![l].fromPeripheral = NoJob] = [link EXCEPT ![l] = x]
  BY <1>1
<1>8. /\ x \in LinkState /\ x.fromPeripheral = NoJob /\ x.fromCentral = k.fromCentral
      /\ x.toCentral = k.toCentral /\ x.toPeripheral = k.toPeripheral /\ x.handler = k.handler
      /\ x.owner = k.owner /\ x.hello = k.hello /\ x.retry = k.retry
  BY <1>1, <1>6 DEF LinkState
<1>9. JobsOver(x, k) /\ LinkFit(l, x)
  BY <1>4, <1>6, <1>8 DEF JobsOver, LinkFit
<1>10. /\ s \in BlePeer
       /\ \/ /\ Opens(p, rec, r.recvCtr) /\ s.state = "open" /\ s.recvCtr = r.recvCtr + 1
             /\ s.making = r.making /\ s.deriving = r.deriving /\ s.half = r.half /\ s.myBid = r.myBid
             /\ s.rekeyed = r.rekeyed /\ s.sendCtr = r.sendCtr /\ s.link = r.link
             /\ s.wanted = r.wanted /\ s.central = r.central
             /\ IsCentral(p) \/ r.state = "open"
          \/ s.state # "open" /\ Quieter(s, r)
  BY <1>3, AfterRecordIs
<1>. HIDE DEF x, s, p, rec
<1>11. ASSUME Opens(p, rec, r.recvCtr), s.state = "open", s.recvCtr = r.recvCtr + 1,
              s.making = r.making, s.deriving = r.deriving, s.half = r.half, s.myBid = r.myBid,
              s.rekeyed = r.rekeyed, s.sendCtr = r.sendCtr, s.link = r.link,
              s.wanted = r.wanted, s.central = r.central
       PROVE  ChannelInv([peer EXCEPT ![p] = s], [link EXCEPT ![l] = x], wire)
  <2>1. rec.to = p /\ rec.by = r.half.by /\ rec.ctr = r.recvCtr
    BY <1>11 DEF Opens
  <2>3. OpensFor(k.fromPeripheral, r, p)
    BY <1>2, <2>1 DEF OpensFor, p, rec
  <2>4. ASSUME ~s.rekeyed PROVE Expects([peer EXCEPT ![p] = s], [link EXCEPT ![l] = x], p)
    <3>1. Hearing(x, p) => RunAfter(peer, link, rec)
      <4>1. Hearing(x, p) => k.handler = p
        BY <1>5, <1>8 DEF Hearing
      <4>. QED BY <1>2, <1>4, <1>11, <2>4, <4>1 DEF LinkTaken, p, rec
    <3>4. IsFor(rec, r.half.by, p) /\ JobAt(x, p) = NoJob /\ s.recvCtr = rec.ctr + 1
      BY <1>5, <1>8, <1>11, <2>1 DEF IsFor, JobAt
    <3>. QED BY <1>3, <1>4, <1>5, <1>8, <1>10, <1>11, <3>1, <3>4, ExpectsNext
  <2>5. /\ x.fromCentral = k.fromCentral
        /\ x.fromPeripheral # k.fromPeripheral => k.fromPeripheral.peer = p
        /\ x.owner = k.owner /\ x.hello = k.hello
    BY <1>2, <1>8 DEF p
  <2>. HIDE DEF job
  <2>. QED BY <1>3, <1>5, <1>8, <1>9, <1>10, <1>11, <2>3, <2>4, <2>5, OpenedStep
<1>12. ASSUME s.state # "open", Quieter(s, r)
       PROVE  ChannelInv([peer EXCEPT ![p] = s], [link EXCEPT ![l] = x], wire)
  <2>. DEFINE peers == [peer EXCEPT ![p] = s]
  <2>1. ChannelInv(peers, link, wire)
    BY <1>3, <1>10, <1>12, OneQuiet
  <2>2. peers[p] = s
    BY <1>3
  <2>. HIDE DEF peers
  <2>3. ChannelInv(peers, [link EXCEPT ![l] = x], wire)
    <3>1. /\ x.fromPeripheral # k.fromPeripheral => peers[k.fromPeripheral.peer].state # "open"
          /\ x.fromCentral = k.fromCentral /\ x.owner = k.owner /\ x.hello = k.hello /\ x.retry = k.retry
      BY <1>2, <1>8, <1>12, <2>2 DEF p
    <3>. HIDE DEF job
    <3>. QED BY <1>8, <1>9, <2>1, <3>1, DropStep
  <2>. QED BY <2>3 DEF peers
<1>13. ChannelInv([peer EXCEPT ![p] = s], [link EXCEPT ![l] = x], wire)
  BY <1>5, <1>10, <1>11, <1>12
<1>. QED BY <1>2, <1>7, <1>13, Becoming

----
\* The channels between the devices, always.

\* Nothing is on its way, and nobody has a key.
LEMMA ChannelsInit == Init => ChannelInv(peer, link, wire)
<1>1. SUFFICES ASSUME Init PROVE ChannelInv(peer, link, wire)
  OBVIOUS
<1>2. /\ peer \in [Peer -> BlePeer] /\ link \in [Link -> LinkState]
      /\ \A p \in Peer : peer[p] = Unused
      /\ \A l \in Link : link[l] = Down
      /\ \A p \in Peer : LinkOf(p) \in Link
      /\ NoPeer \notin Peer
  BY <1>1, UnusedFit, DownTyped, PeerFacts DEF Init
<1>3. <<>> \in Seq(Frame)
  OBVIOUS
<1>4. wire \in [Node -> Seq(Frame)] /\ \A n \in Node : wire[n] = <<>>
  BY <1>1, <1>3 DEF Init
<1>5. /\ Unused.state = "unused" /\ Unused.making = "no" /\ Unused.deriving = {} /\ Unused.half = NoHalf
      /\ ~Unused.rekeyed /\ Unused.wanted = {} /\ Unused.link = "none" /\ ~Unused.central /\ Unused.sendCtr = 0
      /\ NoHalf.by = NoPeer
  BY DEF Unused, NoHalf
<1>6. /\ Down.toCentral = <<>> /\ Down.toPeripheral = <<>> /\ Down.fromCentral = NoJob /\ Down.fromPeripheral = NoJob
      /\ Down.handler = NoPeer /\ Down.owner = NoPeer /\ Down.hello = NoRecord /\ ~Down.retry
      /\ NoJob.how = "none" /\ NoJob.peer = NoPeer
  BY DEF Down, NoJob
<1>7. Len(<<>>) = 0 /\ \A i \in 1 .. 0 : FALSE
  OBVIOUS
<1>8. ChannelTyped(peer, link, wire)
  BY <1>2, <1>4, <1>6 DEF ChannelTyped, JobsHavePeers
<1>9. SignalsTied(peer, wire)
  BY <1>4, <1>7 DEF SignalsTied
<1>10. HalvesTied(peer) /\ KeysTied(peer, link)
  BY <1>2, <1>5 DEF HalvesTied, KeysTied
<1>11. AllEarly(peer)
  BY <1>2, <1>5 DEF AllEarly, Early
<1>12. RecordsOK(peer, link)
  <2>1. ASSUME NEW l \in Link PROVE CentralRecords(link[l]) = {} /\ PeripheralRecords(link[l]) = {}
    BY <1>2, <1>6, <1>7 DEF CentralRecords, PeripheralRecords
  <2>. QED BY <2>1 DEF RecordsOK, LinkRecordsOK
<1>13. AllLinksFit(link)
  BY <1>2, <1>6 DEF AllLinksFit, LinkFit
<1>14. Attached(peer, link)
  BY <1>2, <1>5, <1>6 DEF Attached
<1>15. AllRun(peer, link)
  <2>1. ASSUME NEW q \in Peer, NEW p \in Peer
        PROVE  Rising(QueueTo(link[LinkOf(p)], p), q, p) /\ \E b \in 0 .. peer[q].sendCtr : Run(peer, link, q, p, b)
    <3>1. QueueTo(link[LinkOf(p)], p) = <<>>
      BY <1>2, <1>6 DEF QueueTo
    <3>2. NoneFrom(<<>>, q, p)
      BY <1>7 DEF NoneFrom
    <3>3. peer[q].sendCtr = 0 /\ 0 \in Nat /\ 0 \in 0 .. 0
      BY <1>2, <1>5
    <3>4. Rising(<<>>, q, p) /\ RunFrom(<<>>, q, p, 0, 0, peer[q].half.by = p)
      BY <3>2, <3>3, RunOfNone
    <3>. QED BY <3>1, <3>3, <3>4 DEF Run
  <2>. QED BY <2>1 DEF AllRun
<1>16. Speakers(peer, link)
  BY <1>2, <1>6, <1>7 DEF Speakers, LinkSpeaks, Identifies
<1>17. Taken(peer, link)
  BY <1>2, <1>6 DEF Taken, LinkTaken, Identifies
<1>18. AllExpect(peer, link)
  BY <1>2, <1>5 DEF AllExpect
<1>. QED BY <1>8, <1>9, <1>10, <1>11, <1>12, <1>13, <1>14, <1>15, <1>16, <1>17, <1>18 DEF ChannelInv

\* Every step keeps what is between the devices.
LEMMA ChannelsStep == BTInv /\ ChannelInv(peer, link, wire) /\ [Next]_vars => ChannelInv(peer', link', wire')
<1>1. SUFFICES ASSUME BTInv, ChannelInv(peer, link, wire), [Next]_vars PROVE ChannelInv(peer', link', wire')
  OBVIOUS
<1>2. CASE UNCHANGED <<peer, link, wire>>
  BY <1>1, <1>2
<1>3. CASE UNCHANGED vars
  BY <1>2, <1>3 DEF vars
<1>4. ASSUME NEW n \in Node, Proceeds(n) PROVE ChannelInv(peer', link', wire')
  <2>1. CASE ScanStarts(n) \/ ScanStopped(n) \/ ProbeClosed(n)
    BY <1>2, <2>1 DEF ScanStarts, ScanStopped, ProbeClosed
  <2>. QED BY <1>1, <1>4, <2>1, ReceiveChannels, ConnectedChannels, HelloReadChannels, SubscribedChannels
       DEF Proceeds
<1>5. ASSUME NEW n \in Node,
             \/ ScanFails(n) \/ ProbeFails(n) \/ Stop(n) \/ Connect(n) \/ BusOpened(n)
             \/ Started(n) \/ StartFails(n) \/ Rotate(n) \/ LoseSignal(n)
      PROVE  ChannelInv(peer', link', wire')
  <2>1. CASE Connect(n) \/ BusOpened(n) \/ Started(n) \/ StartFails(n) \/ Rotate(n)
    BY <1>2, <2>1 DEF Connect, BusOpened, Started, StartFails, Rotate
  <2>. QED BY <1>1, <1>5, <2>1, ScanFailsChannels, ProbeFailsChannels, StopChannels, LoseSignalChannels
<1>6. ASSUME NEW n \in Node, NEW t \in Node \ {n}, Upgrade(n, t) PROVE ChannelInv(peer', link', wire')
  BY <1>1, <1>6, UpgradeChannels
<1>7. ASSUME NEW p \in Peer, PeerProceeds(p) PROVE ChannelInv(peer', link', wire')
  <2>1. CASE \E h \in peer[p].deriving : Derived(p, h)
    BY <1>1, <2>1, DerivedChannels
  <2>. QED BY <1>1, <1>7, <2>1, SignalChannels, WriteChannels, SharedClosedChannels DEF PeerProceeds
<1>8. ASSUME NEW p \in Peer, TrySend(p) \/ Timeout(p) \/ RestOver(p) \/ ClosePeer(p)
      PROVE  ChannelInv(peer', link', wire')
  BY <1>1, <1>8, TrySendChannels, TimeoutChannels, RestOverChannels, ClosePeerChannels
<1>9. ASSUME NEW l \in Link, LinkProceeds(l) PROVE ChannelInv(peer', link', wire')
  <2>1. CASE Found(l)
    BY <1>2, <2>1 DEF Found
  <2>. QED BY <1>1, <1>9, <2>1, DownChannels, RetryHelloChannels, FromCentralChannels, IdentifiedChannels,
         RecordFromCentralChannels, FromPeripheralChannels, RecordFromPeripheralChannels DEF LinkProceeds
<1>10. ASSUME NEW l \in Link, SeenExpires(l) PROVE ChannelInv(peer', link', wire')
  BY <1>2, <1>10 DEF SeenExpires
<1>11. ASSUME NEW l \in Link, OutOfReach(l) PROVE ChannelInv(peer', link', wire')
  BY <1>1, <1>11, DownChannels
<1>. QED BY <1>1, <1>3, <1>4, <1>5, <1>6, <1>7, <1>8, <1>9, <1>10, <1>11 DEF Next

\* Those of q for p, by their place on the queue.
PlacesOf(Q, q, p) == {i \in 1 .. Len(Q) : IsFor(Q[i], q, p)}

\* In a run, each record has the counter of the first and how many come before it.
LEMMA RunCounts ==
  ASSUME NEW Q \in Seq(AnyRecord), NEW q, NEW p, NEW b, NEW top \in Nat, NEW going,
         Rising(Q, q, p), RunFrom(Q, q, p, b, top, going),
         NEW i \in PlacesOf(Q, q, p)
  PROVE  Q[i].ctr = b + Cardinality({j \in PlacesOf(Q, q, p) : j < i})
<1>. DEFINE B == {j \in PlacesOf(Q, q, p) : j < i}
            T == b .. (Q[i].ctr - 1)
            f == [j \in B |-> Q[j].ctr]
<1>1. i \in 1 .. Len(Q) /\ IsFor(Q[i], q, p)
  BY DEF PlacesOf
<1>2. /\ \A j \in 1 .. Len(Q) : Q[j].ctr \in Nat
      /\ b \in Nat /\ b <= Q[i].ctr /\ \A c \in b .. Q[i].ctr : Has(Q, q, p, c)
      /\ \A j \in 1 .. Len(Q) : IsFor(Q[j], q, p) => b <= Q[j].ctr
      /\ Len(Q) \in Nat
  BY <1>1, Counters DEF RunFrom
<1>3. \A j, k \in 1 .. Len(Q) : j < k /\ IsFor(Q[j], q, p) /\ IsFor(Q[k], q, p) => Q[j].ctr < Q[k].ctr
  BY DEF Rising
<1>4. \A j \in B : j \in 1 .. Len(Q) /\ j < i /\ IsFor(Q[j], q, p)
  BY DEF PlacesOf
<1>5. ASSUME NEW j \in B PROVE Q[j].ctr \in T
  BY <1>1, <1>2, <1>3, <1>4
<1>6. ASSUME NEW j \in B, NEW k \in B, Q[j].ctr = Q[k].ctr PROVE j = k
  <2>1. Q[j].ctr \in Nat /\ ~(j < k) /\ ~(k < j)
    BY <1>2, <1>3, <1>4, <1>6
  <2>. QED BY <1>4, <2>1
<1>7. ASSUME NEW c \in T PROVE \E j \in B : Q[j].ctr = c
  <2>1. c \in b .. Q[i].ctr /\ c < Q[i].ctr
    BY <1>1, <1>2
  <2>2. PICK j \in 1 .. Len(Q) : IsFor(Q[j], q, p) /\ Q[j].ctr = c
    BY <1>2, <2>1 DEF Has
  <2>3. j # i /\ ~(i < j)
    BY <1>1, <1>2, <1>3, <2>1, <2>2
  <2>4. j < i
    BY <1>1, <2>3
  <2>. QED BY <2>2, <2>4 DEF PlacesOf
<1>8. IsFiniteSet(T) /\ Cardinality(T) = Q[i].ctr - b
  <2>1. b \in Int /\ Q[i].ctr - 1 \in Int
    BY <1>1, <1>2
  <2>2. IsFiniteSet(T) /\ Cardinality(T) = IF b > Q[i].ctr - 1 THEN 0 ELSE (Q[i].ctr - 1) - b + 1
    BY <2>1, FS_Interval, Zenon
  <2>. QED BY <1>1, <1>2, <2>2
<1>. HIDE DEF B, T
<1>9. f \in Injection(B, T) /\ f \in Surjection(B, T)
  <2>1. f \in [B -> T]
    BY <1>5
  <2>. QED BY <2>1, <1>6, <1>7 DEF Injection, Surjection, IsInjective
<1>. HIDE DEF f
<1>10. Cardinality(B) = Cardinality(T)
  BY <1>8, <1>9, FS_Injection
<1>. QED BY <1>1, <1>2, <1>8, <1>10 DEF B

\* A record before the queue begins the run if it is of q for p, and is none of
\* it if it is not.
LEMMA RunCons ==
  ASSUME NEW Q \in Seq(AnyRecord), NEW rec \in AnyRecord, NEW q, NEW p, NEW b \in Nat, NEW top \in Nat,
         NEW going, Rising(Q, q, p),
         RunFrom(Q, q, p, IF IsFor(rec, q, p) THEN b + 1 ELSE b, top, going),
         IsFor(rec, q, p) => rec.ctr = b
  PROVE  Rising(<<rec>> \o Q, q, p) /\ RunFrom(<<rec>> \o Q, q, p, b, top, FALSE)
<1>. DEFINE A == <<rec>> \o Q
            c == IF IsFor(rec, q, p) THEN b + 1 ELSE b
<1>1. /\ Len(A) = Len(Q) + 1 /\ Len(Q) \in Nat /\ A[1] = rec
      /\ \A i \in 2 .. Len(A) : A[i] = Q[i - 1] /\ i - 1 \in 1 .. Len(Q)
      /\ \A i \in 1 .. Len(Q) : A[i + 1] = Q[i] /\ i + 1 \in 1 .. Len(A)
  OBVIOUS
<1>2. /\ c \in Nat /\ c <= top /\ b <= c
      /\ \A i \in 1 .. Len(Q) : Q[i].ctr \in Nat
      /\ \A i \in 1 .. Len(Q) : IsFor(Q[i], q, p) =>
           /\ c <= Q[i].ctr /\ Q[i].ctr < top
           /\ \A d \in c .. Q[i].ctr : Has(Q, q, p, d)
  BY Counters DEF RunFrom
<1>3. \A d : Has(Q, q, p, d) => Has(A, q, p, d)
  BY <1>1 DEF Has
<1>4. IsFor(rec, q, p) => c = b + 1 /\ rec.ctr = b /\ Has(A, q, p, b)
  <2>1. 1 \in 1 .. Len(A)
    BY <1>1
  <2>. QED BY <1>1, <2>1 DEF Has
<1>5. ~IsFor(rec, q, p) => c = b
  OBVIOUS
<1>. HIDE DEF A, c
<1>6. ASSUME NEW i \in 1 .. Len(A), NEW j \in 1 .. Len(A), i < j, IsFor(A[i], q, p), IsFor(A[j], q, p)
      PROVE  A[i].ctr < A[j].ctr
  <2>1. j \in 2 .. Len(A) /\ A[j] = Q[j - 1] /\ j - 1 \in 1 .. Len(Q)
    BY <1>1, <1>6
  <2>2. c <= A[j].ctr /\ A[j].ctr \in Nat
    BY <1>2, <1>6, <2>1
  <2>3. CASE i = 1
    BY <1>1, <1>2, <1>4, <1>6, <2>2, <2>3
  <2>4. CASE i # 1
    <3>1. A[i] = Q[i - 1] /\ i - 1 \in 1 .. Len(Q) /\ i - 1 < j - 1
      BY <1>1, <1>6, <2>1, <2>4
    <3>. QED BY <1>6, <2>1, <3>1 DEF Rising
  <2>. QED BY <2>3, <2>4
<1>7. ASSUME NEW i \in 1 .. Len(A), IsFor(A[i], q, p)
      PROVE  b <= A[i].ctr /\ A[i].ctr < top /\ \A d \in b .. A[i].ctr : Has(A, q, p, d)
  <2>1. CASE i = 1
    <3>1. A[i].ctr = b /\ IsFor(rec, q, p)
      BY <1>1, <1>4, <1>7, <2>1
    <3>. QED BY <1>2, <1>4, <3>1
  <2>2. CASE i # 1
    <3>1. A[i] = Q[i - 1] /\ i - 1 \in 1 .. Len(Q)
      BY <1>1, <1>7, <2>2
    <3>2. /\ A[i].ctr \in Nat /\ c <= A[i].ctr /\ A[i].ctr < top
          /\ \A d \in c .. A[i].ctr : Has(Q, q, p, d)
      BY <1>2, <1>7, <3>1
    <3>3. ASSUME NEW d \in b .. A[i].ctr PROVE Has(A, q, p, d)
      <4>1. d \in c .. A[i].ctr \/ (IsFor(rec, q, p) /\ d = b)
        BY <1>2, <1>4, <1>5, <3>2
      <4>. QED BY <1>3, <1>4, <3>2, <4>1
    <3>. QED BY <1>2, <3>2, <3>3
  <2>. QED BY <2>1, <2>2
<1>8. b <= top
  BY <1>2
<1>. QED BY <1>6, <1>7, <1>8 DEF Rising, RunFrom, A

\* What is known of the channels says that they are in step.
LEMMA ChannelsInStep == BTInv /\ ChannelInv(peer, link, wire) => InStep
<1>1. SUFFICES ASSUME BTInv, ChannelInv(peer, link, wire),
                      NEW p \in Peer, peer[p].state = "open", ~peer[p].rekeyed
               PROVE  LET q == peer[p].half.by IN
                        /\ peer[q].half.by = p \/ peer[q].rekeyed
                        /\ (IsCentral(p) => link[LinkOf(p)].handler = p) =>
                             \A i \in ComingFrom(q, p) :
                               Coming(p)[i].ctr = peer[p].recvCtr + Cardinality({j \in ComingFrom(q, p) : j < i})
  BY DEF InStep
<1>. DEFINE q == peer[p].half.by
            k == link[LinkOf(p)]
            l == LinkOf(p)
            job == JobAt(k, p)
            sent == QueueTo(k, p)
            b == peer[p].recvCtr
            top == peer[q].sendCtr
            going == peer[q].half.by = p
<1>2. Expects(peer, link, p) /\ q \in Peer /\ Pairs(q, p) /\ b \in Nat /\ l \in Link
  BY <1>1, OpenKnown, PeerFacts
<1>3. Wrote(peer[q], p)
  BY <1>2 DEF Expects
<1>4. ASSUME IsCentral(p) => k.handler = p, NEW i \in ComingFrom(q, p)
      PROVE  Coming(p)[i].ctr = b + Cardinality({j \in ComingFrom(q, p) : j < i})
  <2>1. /\ k \in LinkState /\ LinkTaken(peer, link, l) /\ LinkFit(l, k)
        /\ k.toCentral \in Seq(AnyRecord) /\ k.toPeripheral \in Seq(AnyRecord)
        /\ k.fromCentral.rec \in AnyRecord /\ k.fromPeripheral.rec \in AnyRecord
    BY <1>1, <1>2, LinkKnown, LinkFields
  <2>2. sent \in Seq(AnyRecord) /\ job.rec \in AnyRecord /\ top \in Nat
    BY <1>1, <1>2, <2>1, QueueTyped DEF QueueTo, JobAt, ChannelInv
  <2>3. Coming(p) = IF job.how = "record" /\ job.peer = p THEN <<job.rec>> \o sent ELSE sent
    BY DEF Coming, JobAt, QueueTo
  <2>4. Rising(sent, q, p)
    BY <1>1, <1>2 DEF ChannelInv, AllRun
  <2>5. ASSUME NEW Q \in Seq(AnyRecord), Coming(p) = Q, NEW goes, Rising(Q, q, p), RunFrom(Q, q, p, b, top, goes)
        PROVE  Coming(p)[i].ctr = b + Cardinality({j \in ComingFrom(q, p) : j < i})
    <3>1. ComingFrom(q, p) = PlacesOf(Q, q, p)
      BY <2>5 DEF ComingFrom, PlacesOf, IsFor
    <3>2. i \in PlacesOf(Q, q, p)
      BY <1>4, <3>1
    <3>. HIDE DEF q, b, top, going
    <3>3. Q[i].ctr = b + Cardinality({j \in PlacesOf(Q, q, p) : j < i})
      BY <2>2, <2>5, <3>2, RunCounts
    <3>. QED BY <2>5, <3>1, <3>3
  <2>6. CASE Hearing(k, p)
    <3>1. CASE ~(job.how = "record" /\ job.peer = p)
      <4>1. Run(peer, link, q, p, b)
        BY <1>2, <2>6, <3>1 DEF Expects, Opening
      <4>2. RunFrom(sent, q, p, b, top, going)
        BY <4>1 DEF Run
      <4>3. Coming(p) = sent
        BY <2>3, <3>1
      <4>. HIDE DEF sent, q, b, top, going
      <4>. QED BY <2>2, <2>4, <2>5, <4>2, <4>3
    <3>2. CASE job.how = "record" /\ job.peer = p
      <4>1. IsFor(job.rec, q, p) => job.rec.ctr = b /\ RunFrom(sent, q, p, b + 1, top, going)
        <5>1. ASSUME IsFor(job.rec, q, p) PROVE job.rec.ctr = b /\ RunAfter(peer, link, job.rec)
          <6>1. job.rec.ctr = b
            BY <1>2, <2>6, <3>2, <5>1 DEF Expects, Opening
          <6>2. RunAfter(peer, link, job.rec)
            BY <1>1, <2>1, <2>6, <3>2 DEF LinkTaken, Hearing, JobAt
          <6>. QED BY <6>1, <6>2
        <5>. QED BY <5>1 DEF RunAfter, Run, IsFor
      <4>2. ~IsFor(job.rec, q, p) => RunFrom(sent, q, p, b, top, going)
        BY <1>2, <2>6, <3>2 DEF Expects, Opening, Run
      <4>3. Coming(p) = <<job.rec>> \o sent
        BY <2>3, <3>2
      <4>. DEFINE rec == job.rec
                  Q == <<rec>> \o sent
      <4>4. Q \in Seq(AnyRecord)
        BY <2>2
      <4>. HIDE DEF sent, q, b, top, going, job
      <4>5. Rising(Q, q, p) /\ RunFrom(Q, q, p, b, top, FALSE)
        <5>. HIDE DEF rec
        <5>1. RunFrom(sent, q, p, IF IsFor(rec, q, p) THEN b + 1 ELSE b, top, going)
          BY <4>1, <4>2 DEF rec
        <5>. QED BY <1>2, <2>2, <2>4, <4>1, <5>1, RunCons DEF rec
      <4>. HIDE DEF Q
      <4>. QED BY <2>5, <4>3, <4>4, <4>5 DEF Q
    <3>. QED BY <3>1, <3>2
  <2>7. CASE ~Hearing(k, p)
    <3>1. ~IsCentral(p) /\ k.owner # p
      BY <1>4, <2>7 DEF Hearing
    <3>2. ~(job.how = "record" /\ job.peer = p) /\ NoneFrom(sent, q, p)
      BY <1>2, <3>1 DEF Expects, Nothing, JobAt, QueueTo
    <3>3. Coming(p) = sent
      BY <2>3, <3>2
    <3>4. i \in 1 .. Len(sent) /\ IsFor(sent[i], q, p)
      <4>. HIDE DEF sent
      <4>. QED BY <1>4, <2>2, <3>3 DEF ComingFrom, IsFor
    <3>. QED BY <3>2, <3>4 DEF NoneFrom
  <2>. QED BY <2>6, <2>7
<1>. QED BY <1>3, <1>4 DEF Wrote

\* The inductive invariant of the channels, over the current state.
ChannelsKept == ChannelInv(peer, link, wire)

\* Whatever is lost, dropped, begun anew or tried again: the two ends of a channel
\* that opened made their keys for each other, and no record on its way to one of
\* them is missing, doubled or out of its order.
THEOREM InStepHolds == Spec => []InStep
<1>1. Init => ChannelsKept
  BY ChannelsInit DEF ChannelsKept
<1>2. BTInv /\ ChannelsKept /\ [Next]_vars => ChannelsKept'
  BY ChannelsStep DEF ChannelsKept
<1>3. BTInv /\ ChannelsKept => InStep
  BY ChannelsInStep DEF ChannelsKept
<1>. QED BY <1>1, <1>2, <1>3, BTInvHolds, PTL DEF Spec
=============================================================================
