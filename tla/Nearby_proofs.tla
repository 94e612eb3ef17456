---------------------------- MODULE Nearby_proofs ----------------------------
(* Proofs about Nearby and its LocalNetwork, for any machines, networks and    *)
(* things said: packets leave by their own interface, the list of what is      *)
(* found misses nothing and repeats nothing, and a search finds whoever was    *)
(* there all along, unless too many datagrams are lost.                        *)
EXTENDS Nearby, FiniteSetTheorems, TLAPS

IInv == TypeOK /\ OwnAddress /\ ListIsWhole

-----------------------------------------------------------------------------
(* What is said and sent *)

\* What is said of a responder.
LEMMA SayType ==
  ASSUME NEW r \in Lan!Responder
  PROVE  /\ \A what \in {"announcement", "pointer", "text", "farewell"} :
              Lan!Say(what, r) \in Lan!Answer
         /\ Lan!Say("text of", r) \in Lan!Question
         /\ Lan!WhoIsThere \in Lan!Question
  BY DEF Lan!Say, Lan!Answer, Lan!Question, Lan!WhoIsThere

\* One packet for each address.
LEMMA TargetsType ==
  ASSUME NEW n \in Lan!Socket, NEW say \in Lan!Question \cup Lan!Answer
  PROVE  Lan!Targets(n, say) \in Seq(Lan!Packet)
<1>1. Nets[n] \in Seq(Network)
  BY NearbyAssumption DEF Lan!NetworkAssumption
<1>2. Len(Nets[n]) \in Nat /\ \A k \in 1 .. Len(Nets[n]) : Nets[n][k] \in Network
  BY <1>1
<1>3. \A k \in 1 .. Len(Nets[n]) : [say |-> say, addr |-> Nets[n][k]] \in Lan!Packet
  BY <1>2 DEF Lan!Packet
<1> QED
  BY <1>2, <1>3 DEF Lan!Targets

\* They wait in the queue, and leave the rest as it is.
LEMMA SendAllType ==
  ASSUME Lan!TypeOK, NEW n \in Lan!Socket, NEW say \in Lan!Question \cup Lan!Answer,
         Lan!SendAll(n, say)
  PROVE  queue' \in [Lan!Socket -> Seq(Lan!Packet)] /\ UNCHANGED <<iface, handed>>
<1>1. queue[n] \o Lan!Targets(n, say) \in Seq(Lan!Packet)
  BY TargetsType DEF Lan!TypeOK
<1> QED
  BY <1>1 DEF Lan!SendAll, Lan!TypeOK

\* What leaves are datagrams.
LEMMA DatagramsType ==
  ASSUME NEW n \in Lan!Socket \cup Foreign, NEW net, NEW say \in Lan!Question \cup Lan!Answer
  PROVE  Lan!Datagrams(n, net, say) \subseteq Lan!Datagram
<1>1. Lan!Readers(n, net, say) \subseteq Lan!Socket \cup Foreign
  BY DEF Lan!Readers, Lan!Responder, Lan!Socket
<1> QED
  BY <1>1 DEF Lan!Datagrams, Lan!Datagram

\* A socket that closes has nothing left to send.
LEMMA CloseType ==
  ASSUME Lan!TypeOK, Lan!OwnAddress, NEW n \in Lan!Socket, Lan!CloseSocket(n)
  PROVE  /\ open' \subseteq Lan!Socket
         /\ queue' \in [Lan!Socket -> Seq(Lan!Packet)]
         /\ handed' \in [Lan!Socket -> SUBSET Lan!Packet]
         /\ UNCHANGED <<iface, air>>
         /\ Lan!OwnAddress'
  BY DEF Lan!CloseSocket, Lan!TypeOK, Lan!OwnAddress

-----------------------------------------------------------------------------
(* The local network *)

LanInv == Lan!TypeOK /\ Lan!OwnAddress

\* Every step of an announcer keeps types and addresses.
LEMMA AnnouncerKeeps ==
  ASSUME LanInv, NEW a \in Announcer, Lan!AnnouncerStep(a)
  PROVE  LanInv' /\ found' = found
<1> USE DEF LanInv
<1>1. /\ a \in Lan!Socket
      /\ Lan!Say("announcement", a) \in Lan!Answer
      /\ Lan!Say("farewell", a) \in Lan!Answer
  BY SayType DEF Lan!Socket, Lan!Responder
<1>2. CASE Lan!AnnounceLan(a) \/ Lan!AnnounceAgain(a) \/ Lan!Stop(a)
  <2>1. queue' \in [Lan!Socket -> Seq(Lan!Packet)] /\ UNCHANGED <<iface, handed>>
    BY <1>1, <1>2, SendAllType DEF Lan!AnnounceLan, Lan!AnnounceAgain, Lan!Stop
  <2> QED
    BY <1>1, <1>2, <2>1
    DEF Lan!AnnounceLan, Lan!AnnounceAgain, Lan!Stop, Lan!TypeOK, Lan!OwnAddress, Lan!searchVars
<1>3. CASE Lan!AnnounceTooBig(a)
  BY <1>1, <1>3 DEF Lan!AnnounceTooBig, Lan!TypeOK, Lan!OwnAddress, Lan!searchVars
<1>4. CASE Lan!AnnouncerCloses(a)
  <2>1. /\ open' \subseteq Lan!Socket
        /\ queue' \in [Lan!Socket -> Seq(Lan!Packet)]
        /\ handed' \in [Lan!Socket -> SUBSET Lan!Packet]
        /\ UNCHANGED <<iface, air>>
        /\ Lan!OwnAddress'
    BY <1>1, <1>4, CloseType DEF Lan!AnnouncerCloses
  <2> QED
    BY <1>4, <2>1 DEF Lan!AnnouncerCloses, Lan!TypeOK, Lan!searchVars
<1> QED
  BY <1>2, <1>3, <1>4 DEF Lan!AnnouncerStep

\* So does every step of a search that finds nothing.
LEMMA SearchKeeps ==
  ASSUME LanInv, Lan!DiscoverLan \/ Lan!AskAgain \/ Lan!SearchEnds
  PROVE  LanInv' /\ found' = found
<1> USE DEF LanInv
<1>1. Searcher \in Lan!Socket /\ Lan!WhoIsThere \in Lan!Question
  BY DEF Lan!Socket, Lan!WhoIsThere, Lan!Question
<1>2. CASE Lan!DiscoverLan \/ Lan!AskAgain
  <2>1. queue' \in [Lan!Socket -> Seq(Lan!Packet)] /\ UNCHANGED <<iface, handed>>
    BY <1>1, <1>2, SendAllType DEF Lan!DiscoverLan, Lan!AskAgain
  <2>2. asks' \in 0 .. MaxAsks
    BY <1>2, NearbyAssumption DEF Lan!DiscoverLan, Lan!AskAgain, Lan!TypeOK, Lan!NetworkAssumption
  <2> QED
    BY <1>1, <1>2, <2>1, <2>2
    DEF Lan!DiscoverLan, Lan!AskAgain, Lan!TypeOK, Lan!OwnAddress, Lan!Responder
<1>3. CASE Lan!SearchEnds
  <2>1. /\ open' \subseteq Lan!Socket
        /\ queue' \in [Lan!Socket -> Seq(Lan!Packet)]
        /\ handed' \in [Lan!Socket -> SUBSET Lan!Packet]
        /\ UNCHANGED <<iface, air>>
        /\ Lan!OwnAddress'
    BY <1>1, <1>3, CloseType DEF Lan!SearchEnds
  <2> QED
    BY <1>3, <2>1 DEF Lan!SearchEnds, Lan!TypeOK
<1> QED
  BY <1>2, <1>3

\* So does a socket: it sets its interface only when nothing waits to leave.
LEMMA SocketKeeps ==
  ASSUME LanInv, NEW n \in Lan!Socket, Lan!SocketStep(n)
  PROVE  LanInv' /\ found' = found
<1> USE DEF LanInv
<1>1. CASE Lan!SendNext(n)
  <2>1. queue[n] \in Seq(Lan!Packet) /\ queue[n] # <<>>
    BY <1>1 DEF Lan!SendNext, Lan!TypeOK
  <2>2. Head(queue[n]) \in Lan!Packet /\ Tail(queue[n]) \in Seq(Lan!Packet)
    BY <2>1
  <2>3. Head(queue[n]).addr \in Network
    BY <2>2 DEF Lan!Packet
  <2>4. Lan!TypeOK'
    BY <1>1, <2>2, <2>3 DEF Lan!SendNext, Lan!TypeOK, Lan!searchVars
  <2>5. Lan!OwnAddress'
    BY <1>1 DEF Lan!SendNext, Lan!TypeOK, Lan!OwnAddress
  <2> QED
    BY <1>1, <2>4, <2>5 DEF Lan!SendNext, Lan!searchVars
<1>2. ASSUME NEW p \in handed[n], Lan!Leaves(n, p) PROVE LanInv' /\ found' = found
  <2>1. p.say \in Lan!Question \cup Lan!Answer
    BY DEF Lan!TypeOK, Lan!Packet
  <2>2. air' \subseteq Lan!Datagram
    BY <1>2, <2>1, DatagramsType DEF Lan!Leaves, Lan!TypeOK
  <2> QED
    BY <1>2, <2>2 DEF Lan!Leaves, Lan!TypeOK, Lan!OwnAddress, Lan!searchVars
<1> QED
  BY <1>1, <1>2 DEF Lan!SocketStep

\* So does what arrives elsewhere than at the search, or nowhere.
LEMMA ArrivalKeeps ==
  ASSUME LanInv, NEW d \in air, Lan!HeardByOthers(d) \/ Lan!Loses(d)
  PROVE  LanInv' /\ found' = found
<1> USE DEF LanInv
<1>1. /\ d.to \in Lan!Socket \cup Foreign
      /\ d.from \in Lan!Socket \cup Foreign
      /\ air \subseteq Lan!Datagram
  BY DEF Lan!TypeOK, Lan!Datagram
<1>2. CASE Lan!AnnouncerHears(d)
  <2>1. d.to \in Lan!Socket /\ Lan!Say("announcement", d.to) \in Lan!Answer
    BY <1>2, SayType DEF Lan!AnnouncerHears, Lan!Socket, Lan!Responder
  <2>2. queue' \in [Lan!Socket -> Seq(Lan!Packet)] /\ UNCHANGED <<iface, handed>>
    BY <1>2, <2>1, SendAllType DEF Lan!AnnouncerHears, Lan!TypeOK
  <2> QED
    BY <1>2, <2>2
    DEF Lan!AnnouncerHears, Lan!Arrived, Lan!TypeOK, Lan!OwnAddress, Lan!searchVars
<1>3. CASE Lan!ForeignHears(d)
  <2>1. d.to \in Foreign /\ d.to \in Lan!Responder
    BY <1>3 DEF Lan!ForeignHears, Lan!Responder
  <2>2. \A what \in {"pointer", "text"} : \A net :
          Lan!Datagrams(d.to, net, Lan!Say(what, d.to)) \subseteq Lan!Datagram
    BY <2>1, SayType, DatagramsType
  <2>3. air' \subseteq Lan!Datagram
    BY <1>1, <1>3, <2>2 DEF Lan!ForeignHears, Lan!Arrived
  <2> QED
    BY <1>3, <2>3 DEF Lan!ForeignHears, Lan!TypeOK, Lan!OwnAddress, Lan!searchVars
<1>4. CASE Lan!ArrivesNowhere(d)
  BY <1>4 DEF Lan!ArrivesNowhere, Lan!Arrived, Lan!TypeOK, Lan!OwnAddress, Lan!searchVars
<1>5. CASE Lan!Loses(d)
  <2>1. lost' \in [Lan!Responder -> 0 .. MaxLost]
    <3>1. MaxLost \in Nat /\ lost \in [Lan!Responder -> 0 .. MaxLost]
      BY NearbyAssumption DEF Lan!TypeOK, Lan!NetworkAssumption
    <3>2. PICK r : lost[r] < MaxLost /\ lost' = [lost EXCEPT ![r] = lost[r] + 1]
      BY <1>5 DEF Lan!Loses
    <3>3. CASE r \in Lan!Responder
      <4>1. lost[r] \in 0 .. MaxLost /\ lost[r] + 1 \in 0 .. MaxLost
        BY <3>1, <3>2, <3>3
      <4> QED
        BY <3>1, <3>2, <4>1
    <3>4. CASE r \notin Lan!Responder
      BY <3>1, <3>2, <3>4
    <3> QED
      BY <3>3, <3>4
  <2> QED
    BY <1>5, <2>1 DEF Lan!Loses, Lan!Arrived, Lan!TypeOK, Lan!OwnAddress, Lan!searchVars
<1> QED
  BY <1>2, <1>3, <1>4, <1>5 DEF Lan!HeardByOthers

\* And so does what the search hears; of what is wanted it finds each thing once.
LEMMA SearcherKeeps ==
  ASSUME LanInv, NEW d \in air, Lan!SearcherHears(d)
  PROVE  /\ LanInv'
         /\ \/ found' = found
            \/ \E thing \in Wanted : found' = Append(found, thing)
<1> USE DEF LanInv
<1>1. d.say \in Lan!Question \cup Lan!Answer /\ Searcher \in Lan!Socket
  BY DEF Lan!TypeOK, Lan!Datagram, Lan!Socket
<1>2. d.say.what \in {"announcement", "pointer", "text"} => d.say.about \in Lan!Responder
  BY <1>1 DEF Lan!Question, Lan!Answer
<1>3. asked' \subseteq Lan!Responder /\ seen' \subseteq Lan!Responder
  BY <1>2 DEF Lan!SearcherHears, Lan!NewPointer, Lan!ReadsText, Lan!TypeOK
<1>4. queue' \in [Lan!Socket -> Seq(Lan!Packet)] /\ UNCHANGED <<iface, handed>>
  <2>1. CASE Lan!NewPointer(d.say) /\ d.say.what = "pointer"
    <3>1. Lan!Say("text of", d.say.about) \in Lan!Question
      BY <1>2, <2>1, SayType
    <3>2. Lan!SendAll(Searcher, Lan!Say("text of", d.say.about))
      BY <2>1 DEF Lan!SearcherHears
    <3> QED
      BY <1>1, <3>1, <3>2, SendAllType
  <2>2. CASE ~(Lan!NewPointer(d.say) /\ d.say.what = "pointer")
    BY <2>2 DEF Lan!SearcherHears, Lan!TypeOK
  <2> QED
    BY <2>1, <2>2
<1>5. found' = found \/ \E thing \in Wanted : found' = Append(found, thing)
  BY DEF Lan!SearcherHears, Lan!Finds
<1>6. found' \in Seq(Wanted)
  <2>1. found \in Seq(Wanted)
    BY DEF Lan!TypeOK
  <2>2. \A thing \in Wanted : Append(found, thing) \in Seq(Wanted)
    BY <2>1
  <2> QED
    BY <1>5, <2>1, <2>2
<1>7. LanInv'
  BY <1>3, <1>4, <1>6 DEF Lan!SearcherHears, Lan!Arrived, Lan!TypeOK, Lan!OwnAddress
<1> QED
  BY <1>5, <1>7

-----------------------------------------------------------------------------
(* The list *)

\* What is listed or found once one more thing is added at the end.
LEMMA Appended ==
  ASSUME NEW S, NEW s \in Seq(S), NEW x \in S
  PROVE  /\ Append(s, x) \in Seq(S)
         /\ DOMAIN Append(s, x) = DOMAIN s \cup {Len(s) + 1}
         /\ Len(s) + 1 \notin DOMAIN s
         /\ \A k \in DOMAIN s : Append(s, x)[k] = s[k]
         /\ Append(s, x)[Len(s) + 1] = x
         /\ Append(s, x)[Len(Append(s, x))] = x
  OBVIOUS

\* add() keeps the list free of repetitions and puts the thing on it.
LEMMA AddKeeps ==
  ASSUME listed \in Seq(Listed), NEW thing \in Wanted \cup Beacon,
         NEW via \in {"bluetooth", "lan"}, Add(thing, via),
         \A j, k \in DOMAIN listed : listed[j].thing = listed[k].thing => j = k
  PROVE  /\ listed' \in Seq(Listed)
         /\ \A j, k \in DOMAIN listed' : listed'[j].thing = listed'[k].thing => j = k
         /\ \A other : IsListed(other)' <=> IsListed(other) \/ other = thing
<1> DEFINE entry == [thing |-> thing, via |-> via]
<1>1. CASE IsListed(thing)
  BY <1>1 DEF Add, IsListed
<1>2. CASE ~IsListed(thing)
  <2>1. listed' = Append(listed, entry) /\ entry \in Listed /\ entry.thing = thing
    BY <1>2 DEF Add, Listed
  <2> HIDE DEF entry
  <2>2. /\ Append(listed, entry) \in Seq(Listed)
        /\ DOMAIN Append(listed, entry) = DOMAIN listed \cup {Len(listed) + 1}
        /\ Len(listed) + 1 \notin DOMAIN listed
        /\ \A k \in DOMAIN listed : Append(listed, entry)[k] = listed[k]
        /\ Append(listed, entry)[Len(listed) + 1] = entry
    BY <2>1, Appended
  <2> QED
    BY <1>2, <2>1, <2>2 DEF IsListed
<1> QED
  BY <1>1, <1>2

\* A step of both searches that finds nothing leaves the list whole.
LEMMA NothingFound ==
  ASSUME ListIsWhole, UNCHANGED <<found, beacons, listed>>
  PROVE  ListIsWhole'
  BY DEF ListIsWhole, IsListed, Lan!Found

\* Init establishes the invariant.
LEMMA InvInit == Init => IInv
<1> SUFFICES ASSUME Init PROVE IInv
  OBVIOUS
<1>1. \A n \in Lan!Socket : Nets[n][1] \in Network
  <2>1. \A n \in Lan!Socket : Nets[n] \in Seq(Network) /\ Nets[n] # <<>>
    BY NearbyAssumption DEF Lan!NetworkAssumption
  <2> QED
    BY <2>1
<1>2. Lan!TypeOK
  BY <1>1, NearbyAssumption DEF Init, Lan!Init, Lan!TypeOK, Lan!NetworkAssumption
<1>3. TypeOK
  BY <1>2 DEF Init, TypeOK
<1>4. OwnAddress /\ ListIsWhole
  BY DEF Init, Lan!Init, OwnAddress, Lan!OwnAddress, ListIsWhole, IsListed, Lan!Found
<1> QED
  BY <1>3, <1>4 DEF IInv

\* Every step keeps the invariant.
LEMMA InvStep == IInv /\ [Next]_vars => IInv'
<1> SUFFICES ASSUME IInv, [Next]_vars PROVE IInv'
  OBVIOUS
<1>t. LanInv /\ TypeOK /\ ListIsWhole
  BY DEF IInv, LanInv, TypeOK, OwnAddress
<1>n. ASSUME LanInv', UNCHANGED <<found, beacons, listed>>,
             near' \in {"no", "searching", "resolved", "rejected"},
             ble' \in {"off", "scanning", "failed"}
      PROVE  IInv'
  BY <1>t, <1>n, NothingFound DEF IInv, LanInv, TypeOK, OwnAddress
<1>u. UNCHANGED lanVars => LanInv' /\ found' = found
  BY <1>t DEF lanVars, LanInv, Lan!TypeOK, Lan!OwnAddress
<1>1. ASSUME NEW bluetooth \in BOOLEAN, NEW network \in BOOLEAN,
             DiscoverNearby(bluetooth, network)
      PROVE  IInv'
  <2>1. LanInv' /\ found' = found
    BY <1>1, <1>t, <1>u, SearchKeeps DEF DiscoverNearby
  <2> QED
    BY <1>1, <2>1, <1>n DEF DiscoverNearby
<1>2. ASSUME NEW thing \in Beacon, BluetoothFinds(thing) PROVE IInv'
  <2>1. LanInv' /\ found' = found
    BY <1>2, <1>u DEF BluetoothFinds
  <2>2. /\ listed' \in Seq(Listed)
        /\ \A j, k \in DOMAIN listed' : listed'[j].thing = listed'[k].thing => j = k
        /\ \A other : IsListed(other)' <=> IsListed(other) \/ other = thing
    BY <1>2, <1>t, AddKeeps DEF BluetoothFinds, TypeOK, ListIsWhole
  <2>3. ListIsWhole'
    BY <1>2, <1>t, <2>1, <2>2 DEF BluetoothFinds, ListIsWhole, Lan!Found
  <2> QED
    BY <1>2, <1>t, <2>1, <2>2, <2>3 DEF BluetoothFinds, IInv, LanInv, TypeOK, OwnAddress
<1>3. CASE BluetoothEnds \/ BluetoothFails \/ Resolves
  <2>1. LanInv' /\ found' = found
    BY <1>3, <1>u DEF BluetoothEnds, BluetoothFails, Resolves
  <2> QED
    BY <1>3, <1>t, <2>1, <1>n DEF BluetoothEnds, BluetoothFails, Resolves, TypeOK
<1>4. ASSUME NEW d \in air, LanHears(d) PROVE IInv'
  <2>1. LanInv' /\ (found' = found \/ \E thing \in Wanted : found' = Append(found, thing))
    BY <1>4, <1>t, SearcherKeeps DEF LanHears
  <2>2. CASE found' = found
    BY <1>4, <1>t, <2>1, <2>2, <1>n DEF LanHears, TypeOK
  <2>3. ASSUME NEW thing \in Wanted, found' = Append(found, thing), found' # found PROVE IInv'
    <3>1. /\ DOMAIN found' = DOMAIN found \cup {Len(found) + 1}
          /\ \A k \in DOMAIN found : found'[k] = found[k]
          /\ found'[Len(found) + 1] = thing
          /\ found'[Len(found')] = thing
      <4>1. found \in Seq(Wanted)
        BY <1>t DEF LanInv, Lan!TypeOK
      <4> QED
        BY <2>3, <4>1, Appended
    <3>2. \A other : Lan!Found(other)' <=> Lan!Found(other) \/ other = thing
      BY <3>1, Len(found) + 1 \in DOMAIN found' DEF Lan!Found
    <3>3. Add(thing, "lan") /\ UNCHANGED <<near, ble, beacons>>
      BY <1>4, <2>3, <3>1 DEF LanHears
    <3>4. /\ listed' \in Seq(Listed)
          /\ \A j, k \in DOMAIN listed' : listed'[j].thing = listed'[k].thing => j = k
          /\ \A other : IsListed(other)' <=> IsListed(other) \/ other = thing
      BY <1>t, <3>3, AddKeeps DEF TypeOK, ListIsWhole
    <3>5. ListIsWhole'
      BY <1>t, <3>2, <3>3, <3>4 DEF ListIsWhole
    <3> QED
      BY <1>t, <2>1, <3>3, <3>4, <3>5 DEF IInv, LanInv, TypeOK, OwnAddress
  <2> QED
    BY <2>1, <2>2, <2>3
<1>5. CASE Others /\ UNCHANGED nearVars
  <2>1. LanInv' /\ found' = found
    BY <1>5, <1>t, AnnouncerKeeps, SearchKeeps, SocketKeeps, ArrivalKeeps DEF Others
  <2> QED
    BY <1>5, <1>t, <2>1, <1>n DEF nearVars, TypeOK
<1>6. CASE UNCHANGED vars
  <2>1. LanInv' /\ found' = found
    BY <1>6, <1>u DEF vars
  <2> QED
    BY <1>6, <1>t, <2>1, <1>n DEF vars, nearVars, TypeOK
<1> QED
  BY <1>1, <1>2, <1>3, <1>4, <1>5, <1>6 DEF Next

\* The invariant holds of every behaviour.
LEMMA Invariant == Spec => []IInv
  BY InvInit, InvStep, PTL DEF Spec

-----------------------------------------------------------------------------
(* What is on its way *)

\* How often a packet waits in a queue, and where.
Places(q, p) == {k \in 1 .. Len(q) : q[k] = p}
Count(q, p) == Cardinality(Places(q, p))
Bit(b) == IF b THEN 1 ELSE 0

Pkt(say, net) == [say |-> say, addr |-> net]
Msg(n, m, say) == [from |-> n, to |-> m, say |-> say]

\* How often what n says to m by a network is under way, from the queue to the air.
Way(n, m, say, net) ==
  Count(queue[n], Pkt(say, net)) + Bit(Pkt(say, net) \in handed[n]) + Bit(Msg(n, m, say) \in air)

\* A packet waits in finitely many places.
LEMMA CountType ==
  ASSUME NEW S, NEW q \in Seq(S), NEW p
  PROVE  IsFiniteSet(Places(q, p)) /\ Count(q, p) \in Nat
<1>1. Len(q) \in Nat
  OBVIOUS
<1>2. IsFiniteSet(1 .. Len(q))
  BY <1>1, FS_Interval
<1>3. Places(q, p) \in SUBSET (1 .. Len(q))
  BY DEF Places
<1>4. IsFiniteSet(Places(q, p))
  BY <1>2, <1>3, FS_Subset
<1> QED
  BY <1>4, FS_CardinalityType DEF Count

\* Nothing waits in an empty queue.
LEMMA CountEmpty == \A p : Count(<<>>, p) = 0
<1>1. \A p : Places(<<>>, p) = {}
  BY DEF Places
<1> QED
  BY <1>1, FS_EmptySet DEF Count

\* The head of a queue counts once.
LEMMA CountTail ==
  ASSUME NEW S, NEW q \in Seq(S), q # <<>>, NEW p
  PROVE  Count(q, p) = Count(Tail(q), p) + Bit(Head(q) = p)
<1> DEFINE T == Places(Tail(q), p)
           U == Places(q, p) \ {1}
           f == [k \in T |-> k + 1]
<1>1. /\ Tail(q) \in Seq(S)
      /\ Len(q) \in Nat \ {0}
      /\ Len(Tail(q)) = Len(q) - 1
      /\ \A k \in 1 .. Len(Tail(q)) : Tail(q)[k] = q[k + 1]
      /\ Head(q) = q[1]
  OBVIOUS
<1>2. IsFiniteSet(T) /\ IsFiniteSet(Places(q, p))
  BY <1>1, CountType
<1>3. ExistsBijection(T, U)
  <2>1. f \in [T -> U]
    BY <1>1 DEF Places
  <2>2. \A j, k \in T : f[j] = f[k] => j = k
    BY DEF Places
  <2>3. \A u \in U : u - 1 \in T /\ f[u - 1] = u
    BY <1>1 DEF Places
  <2>4. f \in Bijection(T, U)
    <3>1. f \in Injection(T, U)
      BY <2>1, <2>2 DEF Injection, IsInjective
    <3>2. f \in Surjection(T, U)
      BY <2>1, <2>3 DEF Surjection
    <3> QED
      BY <3>1, <3>2 DEF Bijection
  <2> QED
    BY <2>4 DEF ExistsBijection
<1>4. Cardinality(U) = Cardinality(T)
  BY <1>2, <1>3, FS_Bijection
<1>5. Cardinality(U) = IF 1 \in Places(q, p) THEN Count(q, p) - 1 ELSE Count(q, p)
  BY <1>2, FS_RemoveElement DEF Count
<1>6. Count(q, p) \in Nat
  BY CountType
<1>7. 1 \in Places(q, p) <=> Head(q) = p
  BY <1>1 DEF Places
<1>8. Count(Tail(q), p) = Cardinality(U)
  BY <1>4 DEF Count
<1> HIDE DEF T, U, f
<1> QED
  BY <1>5, <1>6, <1>7, <1>8 DEF Bit

\* What is put behind a queue adds to it.
LEMMA CountCat ==
  ASSUME NEW S, NEW q \in Seq(S), NEW r \in Seq(S), NEW p
  PROVE  Count(q \o r, p) >= Count(q, p) + Bit(\E k \in DOMAIN r : r[k] = p)
<1>1. /\ q \o r \in Seq(S)
      /\ Len(q) \in Nat /\ Len(r) \in Nat
      /\ Len(q \o r) = Len(q) + Len(r)
      /\ \A k \in 1 .. Len(q) : (q \o r)[k] = q[k]
      /\ \A k \in 1 .. Len(r) : (q \o r)[Len(q) + k] = r[k]
      /\ DOMAIN r = 1 .. Len(r)
  OBVIOUS
<1>2. IsFiniteSet(Places(q, p)) /\ Count(q, p) \in Nat
  BY CountType
<1>3. IsFiniteSet(Places(q \o r, p)) /\ Count(q \o r, p) \in Nat
  BY <1>1, CountType
<1>4. Places(q, p) \subseteq Places(q \o r, p)
  BY <1>1 DEF Places
<1>5. CASE \E k \in DOMAIN r : r[k] = p
  <2>1. PICK k \in DOMAIN r : r[k] = p
    BY <1>5
  <2>2. Len(q) + k \in Places(q \o r, p) /\ Len(q) + k \notin Places(q, p)
    BY <1>1, <2>1 DEF Places
  <2>3. Places(q, p) \cup {Len(q) + k} \in SUBSET Places(q \o r, p)
    BY <1>4, <2>2
  <2>4. Cardinality(Places(q, p) \cup {Len(q) + k}) = Cardinality(Places(q, p)) + 1
    BY <1>2, <2>2, FS_AddElement
  <2>5. Cardinality(Places(q, p) \cup {Len(q) + k}) <= Cardinality(Places(q \o r, p))
    BY <1>3, <2>3, FS_Subset
  <2> QED
    BY <1>2, <1>3, <1>5, <2>4, <2>5 DEF Count, Bit
<1>6. CASE ~ \E k \in DOMAIN r : r[k] = p
  <2>1. Cardinality(Places(q, p)) <= Cardinality(Places(q \o r, p))
    BY <1>3, <1>4, FS_Subset
  <2> QED
    BY <1>2, <1>3, <1>6, <2>1 DEF Count, Bit
<1> QED
  BY <1>5, <1>6

\* sendAll() adds what is said to the queue, for each network of the machine.
LEMMA QueueGrows ==
  ASSUME Lan!TypeOK, NEW k \in Lan!Socket, NEW s \in Lan!Question \cup Lan!Answer,
         Lan!SendAll(k, s), NEW n \in Lan!Socket, NEW say, NEW net
  PROVE  Count(queue'[n], Pkt(say, net))
           >= Count(queue[n], Pkt(say, net)) + Bit(n = k /\ s = say /\ net \in Lan!Networks(n))
<1>1. queue[n] \in Seq(Lan!Packet) /\ queue[k] \in Seq(Lan!Packet)
  BY DEF Lan!TypeOK
<1>2. Count(queue[n], Pkt(say, net)) \in Nat
  BY <1>1, CountType
<1>3. CASE n # k
  <2>1. queue'[n] = queue[n]
    BY <1>3 DEF Lan!SendAll, Lan!TypeOK
  <2> QED
    BY <1>2, <1>3, <2>1 DEF Bit
<1>4. CASE n = k
  <2>1. queue'[n] = queue[n] \o Lan!Targets(n, s) /\ Lan!Targets(n, s) \in Seq(Lan!Packet)
    BY <1>4, TargetsType DEF Lan!SendAll, Lan!TypeOK
  <2>2. (\E j \in DOMAIN Lan!Targets(n, s) : Lan!Targets(n, s)[j] = Pkt(say, net))
          <=> s = say /\ net \in Lan!Networks(n)
    BY DEF Lan!Targets, Lan!Networks, Pkt
  <2>3. Count(queue'[n], Pkt(say, net))
          >= Count(queue[n], Pkt(say, net))
               + Bit(\E j \in DOMAIN Lan!Targets(n, s) : Lan!Targets(n, s)[j] = Pkt(say, net))
    BY <1>1, <2>1, CountCat
  <2>4. Bit(\E j \in DOMAIN Lan!Targets(n, s) : Lan!Targets(n, s)[j] = Pkt(say, net))
          = Bit(n = k /\ s = say /\ net \in Lan!Networks(n))
    BY <1>4, <2>2 DEF Bit
  <2> QED
    BY <2>3, <2>4
<1> QED
  BY <1>3, <1>4

\* What is under way is a number.
LEMMA WayType ==
  ASSUME Lan!TypeOK, NEW n \in Lan!Socket, NEW m, NEW say, NEW net
  PROVE  Count(queue[n], Pkt(say, net)) \in Nat /\ Way(n, m, say, net) \in Nat
<1>1. queue[n] \in Seq(Lan!Packet)
  BY DEF Lan!TypeOK
<1>2. Count(queue[n], Pkt(say, net)) \in Nat
  BY <1>1, CountType
<1> QED
  BY <1>2 DEF Way, Bit

\* A step that leaves a socket alone takes from what is under way what arrives, at most.
LEMMA WayStays ==
  ASSUME Lan!TypeOK, NEW n \in Lan!Socket, NEW m, NEW say, NEW net, NEW D,
         queue'[n] = queue[n], handed'[n] = handed[n], air \ D \subseteq air'
  PROVE  Way(n, m, say, net)' + Bit(Msg(n, m, say) \in D) >= Way(n, m, say, net)
<1> DEFINE c == Count(queue[n], Pkt(say, net))
           p == Pkt(say, net)
           g == Msg(n, m, say)
<1>1. c \in Nat
  BY WayType
<1>2. Way(n, m, say, net) = c + Bit(p \in handed[n]) + Bit(g \in air)
  BY DEF Way
<1>3. Way(n, m, say, net)' = c + Bit(p \in handed[n]) + Bit(g \in air')
  BY DEF Way, Msg, Pkt
<1>4. g = Msg(n, m, say)
  OBVIOUS
<1> HIDE DEF c, p, g
<1> QED
  BY <1>1, <1>2, <1>3, <1>4 DEF Bit

\* So does sendAll(), which adds what is said.
LEMMA WaySends ==
  ASSUME Lan!TypeOK, NEW k \in Lan!Socket, NEW s \in Lan!Question \cup Lan!Answer,
         Lan!SendAll(k, s), NEW n \in Lan!Socket, NEW m, NEW say, NEW net, NEW D,
         air \ D \subseteq air'
  PROVE  Way(n, m, say, net)' + Bit(Msg(n, m, say) \in D)
           >= Way(n, m, say, net) + Bit(n = k /\ s = say /\ net \in Lan!Networks(n))
<1> DEFINE c == Count(queue[n], Pkt(say, net))
           e == Count(queue'[n], Pkt(say, net))
           p == Pkt(say, net)
           g == Msg(n, m, say)
           b == Bit(n = k /\ s = say /\ net \in Lan!Networks(n))
<1>1. c \in Nat /\ e >= c + b
  BY WayType, QueueGrows
<1>2. e \in Nat
  <2>1. queue'[n] \in Seq(Lan!Packet)
    BY SendAllType
  <2> QED
    BY <2>1, CountType
<1>3. Way(n, m, say, net) = c + Bit(p \in handed[n]) + Bit(g \in air)
  BY DEF Way
<1>4. Way(n, m, say, net)' = e + Bit(p \in handed[n]) + Bit(g \in air')
  <2>1. handed' = handed
    BY DEF Lan!SendAll
  <2> QED
    BY <2>1 DEF Way, Msg, Pkt
<1>5. g = Msg(n, m, say) /\ b \in {0, 1}
  BY DEF Bit
<1> HIDE DEF c, e, p, g, b
<1>6. Way(n, m, say, net)' + Bit(g \in D) >= Way(n, m, say, net) + b
  BY <1>1, <1>2, <1>3, <1>4, <1>5 DEF Bit
<1> QED
  BY <1>5, <1>6 DEF b

\* A packet that is set for its own interface and leaves reaches who reads it there:
\* a step of a socket takes nothing from what is under way.
LEMMA WayMoves ==
  ASSUME LanInv, NEW k \in Lan!Socket, Lan!SocketStep(k), NEW n \in Lan!Socket,
         NEW say, NEW net, NEW m \in Lan!Readers(n, net, say)
  PROVE  Way(n, m, say, net)' >= Way(n, m, say, net)
<1> USE DEF LanInv
<1> DEFINE p == Pkt(say, net)
           g == Msg(n, m, say)
<1>0. /\ Way(n, m, say, net) = Count(queue[n], p) + Bit(p \in handed[n]) + Bit(g \in air)
      /\ Way(n, m, say, net)' = Count(queue'[n], p) + Bit(p \in handed'[n]) + Bit(g \in air')
      /\ Count(queue[n], p) \in Nat
  BY WayType DEF Way, Pkt, Msg
<1>1. CASE Lan!SendNext(k)
  <2>1. air' = air
    BY <1>1 DEF Lan!SendNext
  <2>2. CASE n # k
    <3>1. queue'[n] = queue[n] /\ handed'[n] = handed[n]
      BY <1>1, <2>2 DEF Lan!SendNext, Lan!TypeOK
    <3> QED
      BY <1>0, <2>1, <3>1 DEF Bit
  <2>3. CASE n = k
    <3>1. /\ queue[n] \in Seq(Lan!Packet) /\ queue[n] # <<>>
          /\ queue'[n] = Tail(queue[n])
          /\ handed[n] = {}
          /\ handed'[n] = {Head(queue[n])}
      BY <1>1, <2>3 DEF Lan!SendNext, Lan!TypeOK
    <3>2. Count(queue[n], p) = Count(queue'[n], p) + Bit(Head(queue[n]) = p)
      BY <3>1, CountTail
    <3>3. Count(queue'[n], p) \in Nat
      <4>1. queue'[n] \in Seq(Lan!Packet)
        BY <3>1
      <4> QED
        BY <4>1, CountType
    <3>4. p \in handed'[n] <=> Head(queue[n]) = p
      BY <3>1
    <3> HIDE DEF p, g
    <3> QED
      BY <1>0, <2>1, <3>1, <3>2, <3>3, <3>4 DEF Bit
  <2> QED
    BY <2>2, <2>3
<1>2. ASSUME NEW q \in handed[k], Lan!Leaves(k, q)
      PROVE  Way(n, m, say, net)' >= Way(n, m, say, net)
  <2>1. /\ queue' = queue
        /\ air \subseteq air'
        /\ \A j \in Lan!Socket : j # k => handed'[j] = handed[j]
        /\ handed'[k] = handed[k] \ {q}
    BY <1>2 DEF Lan!Leaves, Lan!TypeOK
  <2>2. CASE n # k \/ q # p
    <3>1. p \in handed'[n] <=> p \in handed[n]
      BY <2>1, <2>2
    <3> HIDE DEF p, g
    <3> QED
      BY <1>0, <2>1, <3>1 DEF Bit
  <2>3. CASE n = k /\ q = p
    <3>1. p \in handed[n] /\ p \notin handed'[n]
      BY <2>1, <2>3
    <3>2. iface[n] = net /\ p.say = say
      BY <2>3 DEF Lan!OwnAddress, Pkt
    <3>3. g \in Lan!Datagrams(n, net, say)
      BY DEF Lan!Datagrams, Msg
    <3>4. g \notin air /\ g \in air'
      BY <1>2, <2>3, <3>2, <3>3 DEF Lan!Leaves
    <3> HIDE DEF p, g
    <3> QED
      BY <1>0, <2>1, <3>1, <3>4 DEF Bit
  <2> QED
    BY <2>2, <2>3
<1> QED
  BY <1>1, <1>2 DEF Lan!SocketStep

\* Nothing is under way by an open socket when all is quiet.
LEMMA WayQuiet ==
  ASSUME Lan!TypeOK, Lan!Quiet, NEW n \in open, NEW m, NEW say, NEW net
  PROVE  Way(n, m, say, net) = 0 /\ ~(Way(n, m, say, net) > 0)
<1>1. queue[n] = <<>> /\ handed[n] = {} /\ air = {}
  BY DEF Lan!Quiet
<1>2. Way(n, m, say, net) = 0
  BY <1>1, CountEmpty DEF Way, Bit
<1>3. \A x : x = 0 => ~(x > 0)
  OBVIOUS
<1> QED
  BY <1>2, <1>3

-----------------------------------------------------------------------------
(* What a search finds *)

Near(r, net) == net \in Lan!Networks(r) \cap Lan!Networks(Searcher)

\* Who is there and who searches holds a socket; what is asked about is asked by a search.
Present ==
  /\ \A a \in Announcer : /\ stage[a] \in {"fresh", "settled"} => a \in open
                          /\ a \in steady => stage[a] \in {"fresh", "settled"}
  /\ search = "asking" <=> Searcher \in open
  /\ search = "no" => asked = {}

\* Each time it asks, the question or the answer of an announcer that was there all
\* along is under way by each network they share, or one of the two is lost.
Rounds(a, net) ==
  Way(Searcher, a, Lan!WhoIsThere, net) + Way(a, Searcher, Lan!Say("announcement", a), net)
AnnouncersHeard ==
  \A a \in Announcer, net \in Network :
    a \in steady /\ Near(a, net) /\ search = "asking" /\ a \notin seen
      => asks <= lost[a] + Rounds(a, net)

\* Of a foreign responder, of which nothing is lost, the question or the pointer is
\* under way, and once it is asked about the question for its text or that text.
Chain(f, net) ==
  IF f \in asked
    THEN \/ Way(Searcher, f, Lan!Say("text of", f), net) > 0
         \/ Msg(f, Searcher, Lan!Say("text", f)) \in air
    ELSE \/ Way(Searcher, f, Lan!WhoIsThere, net) > 0
         \/ Msg(f, Searcher, Lan!Say("pointer", f)) \in air
ForeignHeard ==
  \A f \in Foreign, net \in Network :
    f \in steady /\ Near(f, net) /\ search = "asking" /\ f \notin seen /\ lost[f] = 0
      => Chain(f, net)

\* What is read and wanted is found.
SeenFound == \A r \in seen : Says[r] \in Wanted => Lan!Found(Says[r])

-----------------------------------------------------------------------------

\* The search is no responder.
LEMMA Apart ==
  /\ Searcher \in Lan!Socket
  /\ \A a \in Announcer :
       a \in Lan!Socket /\ a \in Lan!Responder /\ a # Searcher /\ a \notin Foreign
  /\ \A f \in Foreign : f \in Lan!Responder /\ f # Searcher
  BY NearbyAssumption DEF Lan!NetworkAssumption, Lan!Socket, Lan!Responder

\* Questions and answers are told apart.
LEMMA ToldApart ==
  /\ Lan!WhoIsThere \in Lan!Question /\ Lan!WhoIsThere \notin Lan!Answer
  /\ \A r \in Lan!Responder :
       /\ Lan!Say("text of", r) \in Lan!Question /\ Lan!Say("text of", r) \notin Lan!Answer
       /\ Lan!Say("text of", r) # Lan!WhoIsThere
       /\ \A what \in {"announcement", "pointer", "text", "farewell"} :
            Lan!Say(what, r) \in Lan!Answer
<1>1. Lan!WhoIsThere.what = "who is there"
  BY DEF Lan!WhoIsThere
<1>2. \A r, what : Lan!Say(what, r).what = what
  BY DEF Lan!Say
<1>3. \A s \in Lan!Answer : s.what \in {"announcement", "pointer", "text", "farewell"}
  BY DEF Lan!Answer
<1>4. Lan!WhoIsThere \in Lan!Question
  BY DEF Lan!WhoIsThere, Lan!Question
<1>5. \A r \in Lan!Responder :
        /\ Lan!Say("text of", r) \in Lan!Question
        /\ \A what \in {"announcement", "pointer", "text", "farewell"} :
             Lan!Say(what, r) \in Lan!Answer
  BY SayType
<1>6. /\ Lan!WhoIsThere \notin Lan!Answer
      /\ \A r : /\ Lan!Say("text of", r) \notin Lan!Answer
               /\ Lan!Say("text of", r) # Lan!WhoIsThere
  BY <1>1, <1>2, <1>3
<1> QED
  BY <1>4, <1>5, <1>6

\* While the search asks, who was there all along reads its questions, and it reads
\* their answers.
LEMMA Reads ==
  ASSUME Present, search = "asking", NEW r \in steady, r \in Lan!Responder,
         NEW net, Near(r, net)
  PROVE  /\ r \in Lan!Readers(Searcher, net, Lan!WhoIsThere)
         /\ r \in Lan!Readers(Searcher, net, Lan!Say("text of", r))
         /\ \A what \in {"announcement", "pointer", "text", "farewell"} :
              Searcher \in Lan!Readers(r, net, Lan!Say(what, r))
<1>1. r \in open \cup Foreign /\ Searcher \in open /\ r # Searcher
  BY Apart DEF Present, Lan!Responder
<1>2. net \in Lan!Networks(r) /\ net \in Lan!Networks(Searcher)
  BY DEF Near
<1> QED
  BY <1>1, <1>2, ToldApart DEF Lan!Readers

\* What is under way is numbers after a step, too.
LEMMA WayTypePrime ==
  ASSUME Lan!TypeOK', NEW n \in Lan!Socket, NEW m, NEW say, NEW net
  PROVE  Way(n, m, say, net)' \in Nat
<1>1. queue'[n] \in Seq(Lan!Packet)
  BY DEF Lan!TypeOK
<1>2. \A p : Count(queue'[n], p) \in Nat
  BY <1>1, CountType
<1> QED
  BY <1>2 DEF Way, Bit

\* A step leaves what a socket has to send, or it says something, by that one or another.
SaysOrStays(n) ==
  \/ queue'[n] = queue[n] /\ handed'[n] = handed[n]
  \/ \E k \in Lan!Socket, s \in Lan!Question \cup Lan!Answer : Lan!SendAll(k, s)

\* Of what does not arrive nothing is taken, whether something is said or not.
LEMMA WayKept ==
  ASSUME Lan!TypeOK, Lan!TypeOK', NEW n \in Lan!Socket, NEW m, NEW say, NEW net,
         SaysOrStays(n),
         Msg(n, m, say) \in air => Msg(n, m, say) \in air'
  PROVE  Way(n, m, say, net)' >= Way(n, m, say, net)
<1> DEFINE D == air \ air'
<1>0. air \ D \subseteq air' /\ Msg(n, m, say) \notin D
  OBVIOUS
<1> HIDE DEF D
<1>1. Bit(Msg(n, m, say) \in D) = 0
  BY <1>0 DEF Bit
<1>2. Way(n, m, say, net) \in Nat /\ Way(n, m, say, net)' \in Nat
  BY WayType, WayTypePrime
<1>3. CASE queue'[n] = queue[n] /\ handed'[n] = handed[n]
  <2>1. Way(n, m, say, net)' + Bit(Msg(n, m, say) \in D) >= Way(n, m, say, net)
    BY <1>0, <1>3, WayStays
  <2> QED
    BY <1>1, <1>2, <2>1
<1>4. ASSUME NEW k \in Lan!Socket, NEW s \in Lan!Question \cup Lan!Answer, Lan!SendAll(k, s)
      PROVE  Way(n, m, say, net)' >= Way(n, m, say, net)
  <2> DEFINE x == Bit(n = k /\ s = say /\ net \in Lan!Networks(n))
  <2>1. Way(n, m, say, net)' + Bit(Msg(n, m, say) \in D) >= Way(n, m, say, net) + x
    BY <1>0, <1>4, WaySends
  <2>2. x \in Nat
    BY DEF Bit
  <2> HIDE DEF x
  <2> QED
    BY <1>1, <1>2, <2>1, <2>2
<1> QED
  BY <1>3, <1>4 DEF SaysOrStays

\* An announcer that does not close says something or stays as it is, and no other
\* socket stops saying anything on its account.
LEMMA AnnouncerSays ==
  ASSUME Lan!TypeOK, NEW b \in Announcer, Lan!AnnouncerStep(b), NEW n \in Lan!Socket,
         n # b \/ ~Lan!AnnouncerCloses(b)
  PROVE  SaysOrStays(n)
<1>1. /\ b \in Lan!Socket
      /\ Lan!Say("announcement", b) \in Lan!Answer /\ Lan!Say("farewell", b) \in Lan!Answer
  BY Apart, ToldApart
<1>2. CASE Lan!AnnounceLan(b) \/ Lan!AnnounceAgain(b)
  <2>1. Lan!SendAll(b, Lan!Say("announcement", b))
    BY <1>2 DEF Lan!AnnounceLan, Lan!AnnounceAgain
  <2> QED
    BY <1>1, <2>1 DEF SaysOrStays
<1>3. CASE Lan!Stop(b)
  <2>1. Lan!SendAll(b, Lan!Say("farewell", b))
    BY <1>3 DEF Lan!Stop
  <2> QED
    BY <1>1, <2>1 DEF SaysOrStays
<1>4. CASE Lan!AnnounceTooBig(b)
  BY <1>4 DEF Lan!AnnounceTooBig, SaysOrStays
<1>5. CASE Lan!AnnouncerCloses(b)
  BY <1>5 DEF Lan!AnnouncerCloses, Lan!CloseSocket, Lan!TypeOK, SaysOrStays
<1> QED
  BY <1>2, <1>3, <1>4, <1>5 DEF Lan!AnnouncerStep

\* The search asks for a text, or says nothing to what it hears.
LEMMA SearcherSays ==
  ASSUME Lan!TypeOK, NEW d \in air, Lan!SearcherHears(d), NEW n \in Lan!Socket
  PROVE  SaysOrStays(n)
<1>1. CASE Lan!NewPointer(d.say) /\ d.say.what = "pointer"
  <2>1. d.say \in Lan!Question \cup Lan!Answer
    BY DEF Lan!TypeOK, Lan!Datagram
  <2>2. d.say.about \in Lan!Responder
    BY <1>1, <2>1 DEF Lan!Question, Lan!Answer
  <2> QED
    BY <1>1, <2>2, Apart, ToldApart DEF Lan!SearcherHears, SaysOrStays
<1>2. CASE ~(Lan!NewPointer(d.say) /\ d.say.what = "pointer")
  BY <1>2 DEF Lan!SearcherHears, SaysOrStays
<1> QED
  BY <1>1, <1>2

\* What a machine says is under way in each of its networks.
LEMMA WayBegins ==
  ASSUME Lan!TypeOK, Lan!TypeOK', NEW n \in Lan!Socket, NEW s \in Lan!Question \cup Lan!Answer,
         Lan!SendAll(n, s), NEW m, NEW net \in Lan!Networks(n),
         Msg(n, m, s) \in air => Msg(n, m, s) \in air'
  PROVE  Way(n, m, s, net)' >= Way(n, m, s, net) + 1
<1> DEFINE D == air \ air'
<1>0. air \ D \subseteq air' /\ Msg(n, m, s) \notin D
  OBVIOUS
<1> HIDE DEF D
<1>1. Way(n, m, s, net) \in Nat /\ Way(n, m, s, net)' \in Nat
  BY WayType, WayTypePrime
<1>2. Way(n, m, s, net)' + Bit(Msg(n, m, s) \in D)
        >= Way(n, m, s, net) + Bit(n = n /\ s = s /\ net \in Lan!Networks(n))
  BY <1>0, WaySends
<1>3. Bit(Msg(n, m, s) \in D) = 0
  BY <1>0 DEF Bit
<1>4. Bit(n = n /\ s = s /\ net \in Lan!Networks(n)) = 1
  BY DEF Bit
<1> QED
  BY <1>1, <1>2, <1>3, <1>4

\* A foreign responder has one network.
LEMMA OneNetwork ==
  ASSUME NEW f \in Foreign, NEW net \in Lan!Networks(f)
  PROVE  net = Nets[f][1]
<1>1. Len(Nets[f]) = 1
  BY NearbyAssumption DEF Lan!NetworkAssumption
<1> QED
  BY <1>1 DEF Lan!Networks

\* Every step of the local network keeps what is said of announcers.
LEMMA AnnouncersStep ==
  ASSUME LanInv, Lan!TypeOK', Present, AnnouncersHeard, Lan!Next
  PROVE  AnnouncersHeard'
<1> USE DEF LanInv
<1> SUFFICES ASSUME NEW a \in Announcer, NEW net \in Network,
                    a \in steady', Near(a, net), search' = "asking", a \notin seen'
             PROVE  asks' <= lost'[a] + Rounds(a, net)'
  BY DEF AnnouncersHeard, Near
<1> DEFINE s == Lan!Say("announcement", a)
           w1 == Way(Searcher, a, Lan!WhoIsThere, net)
           w2 == Way(a, Searcher, s, net)
           u1 == Way(Searcher, a, Lan!WhoIsThere, net)'
           u2 == Way(a, Searcher, s, net)'
           g1 == Msg(Searcher, a, Lan!WhoIsThere)
           g2 == Msg(a, Searcher, s)
<1>a. /\ a \in Lan!Socket /\ a \in Lan!Responder /\ a # Searcher /\ a \notin Foreign
      /\ Searcher \in Lan!Socket
      /\ Lan!WhoIsThere \in Lan!Question /\ s \in Lan!Answer
      /\ net \in Lan!Networks(a) /\ net \in Lan!Networks(Searcher)
  BY Apart, ToldApart DEF Near
<1>t. /\ w1 \in Nat /\ w2 \in Nat /\ lost[a] \in Nat /\ asks \in Nat
      /\ u1 \in Nat /\ u2 \in Nat /\ lost'[a] \in Nat
  <2>1. MaxAsks \in Nat /\ MaxLost \in Nat
    BY NearbyAssumption DEF Lan!NetworkAssumption
  <2>2. lost[a] \in Nat /\ lost'[a] \in Nat /\ asks \in Nat
    BY <2>1, <1>a DEF Lan!TypeOK
  <2> QED
    BY <2>2, <1>a, WayType, WayTypePrime
<1>r. /\ Rounds(a, net) = w1 + w2
      /\ Rounds(a, net)' = u1 + u2
  BY DEF Rounds, Way
<1>g. /\ g1.to = a /\ g1.from = Searcher /\ g1.say = Lan!WhoIsThere
      /\ g2.to = Searcher /\ g2.from = a /\ g2.say = s
  BY DEF Msg
<1>w. /\ SaysOrStays(Searcher) /\ (g1 \in air => g1 \in air') => u1 >= w1
      /\ SaysOrStays(a) /\ (g2 \in air => g2 \in air') => u2 >= w2
  BY <1>a, WayKept
\* It is enough that no more rounds end than datagrams are lost.
<1>k. ASSUME a \in steady, search = "asking", a \notin seen, asks' = asks,
             u1 + u2 + lost'[a] >= w1 + w2 + lost[a]
      PROVE  asks' <= lost'[a] + Rounds(a, net)'
  <2>1. asks <= lost[a] + Rounds(a, net)
    BY <1>k DEF AnnouncersHeard
  <2> HIDE DEF w1, w2, u1, u2
  <2> QED
    BY <1>k, <2>1, <1>t, <1>r
\* One question more, behind the others.
<1>1. CASE Lan!DiscoverLan \/ Lan!AskAgain
  <2>1. Lan!SendAll(Searcher, Lan!WhoIsThere) /\ air' = air /\ lost' = lost
    BY <1>1 DEF Lan!DiscoverLan, Lan!AskAgain
  <2>2. u1 >= w1 + 1
    BY <2>1, <1>a, WayBegins
  <2>3. u2 >= w2
    BY <2>1, <1>a, <1>w DEF SaysOrStays
  <2> HIDE DEF w1, w2, u1, u2
  <2>4. CASE Lan!DiscoverLan
    <3>1. asks' = 1
      BY <2>4 DEF Lan!DiscoverLan
    <3> QED
      BY <3>1, <2>2, <1>t, <1>r
  <2>5. CASE Lan!AskAgain
    <3>1. asks' = asks + 1 /\ a \in steady /\ search = "asking" /\ a \notin seen
      BY <2>5 DEF Lan!AskAgain
    <3>2. asks <= lost[a] + Rounds(a, net)
      BY <3>1 DEF AnnouncersHeard
    <3> QED
      BY <3>1, <3>2, <2>1, <2>2, <2>3, <1>t, <1>r
  <2> QED
    BY <1>1, <2>4, <2>5
<1>2. CASE Lan!SearchEnds
  BY <1>2 DEF Lan!SearchEnds
<1>3. ASSUME NEW b \in Announcer, Lan!AnnouncerStep(b)
      PROVE  asks' <= lost'[a] + Rounds(a, net)'
  <2>1. /\ a \in steady /\ search = "asking" /\ a \notin seen /\ asks' = asks
        /\ air' = air /\ lost' = lost
    BY <1>3
    DEF Lan!AnnouncerStep, Lan!AnnounceLan, Lan!AnnounceTooBig, Lan!AnnounceAgain, Lan!Stop,
        Lan!AnnouncerCloses, Lan!CloseSocket, Lan!searchVars
  <2>2. a # b \/ ~Lan!AnnouncerCloses(b)
    BY <2>1 DEF Present, Lan!AnnouncerCloses
  <2>3. SaysOrStays(Searcher) /\ SaysOrStays(a)
    BY <1>3, <1>a, <2>2, Apart, AnnouncerSays
  <2>4. u1 >= w1 /\ u2 >= w2
    BY <2>1, <2>3, <1>w
  <2> HIDE DEF w1, w2, u1, u2
  <2> QED
    BY <1>k, <2>1, <2>4, <1>t
<1>4. ASSUME NEW n \in Lan!Socket, Lan!SocketStep(n)
      PROVE  asks' <= lost'[a] + Rounds(a, net)'
  <2>1. a \in steady /\ search = "asking" /\ a \notin seen /\ asks' = asks /\ lost' = lost
    BY <1>4 DEF Lan!SocketStep, Lan!SendNext, Lan!Leaves, Lan!searchVars
  <2>2. a \in Lan!Readers(Searcher, net, Lan!WhoIsThere) /\ Searcher \in Lan!Readers(a, net, s)
    BY <2>1, <1>a, Reads
  <2>3. u1 >= w1
    BY <1>4, <2>2, <1>a, WayMoves
  <2>4. u2 >= w2
    BY <1>4, <2>2, <1>a, WayMoves
  <2> HIDE DEF w1, w2, u1, u2
  <2> QED
    BY <1>k, <2>1, <2>3, <2>4, <1>t
\* Of what arrives the question turns into the answer, and the answer is read.
<1>5. ASSUME NEW d \in air, Lan!AnnouncerHears(d)
      PROVE  asks' <= lost'[a] + Rounds(a, net)'
  <2>1. /\ a \in steady /\ search = "asking" /\ a \notin seen /\ asks' = asks /\ lost' = lost
        /\ air \ {d} \subseteq air' /\ d.to \in Announcer
    BY <1>5 DEF Lan!AnnouncerHears, Lan!Arrived, Lan!searchVars
  <2>2. d # g2
    BY <2>1, <1>g, Apart
  <2>3. SaysOrStays(Searcher) /\ SaysOrStays(a)
    <3>1. d.to \in Lan!Socket /\ Lan!Say("announcement", d.to) \in Lan!Answer
      BY <2>1, Apart, ToldApart
    <3> QED
      BY <1>5, <3>1 DEF Lan!AnnouncerHears, SaysOrStays
  <2>4. CASE d = g1
    <3>1. stage[a] # "thrown"
      BY <2>1 DEF Present
    <3>2. Lan!SendAll(a, s)
      BY <1>5, <2>4, <3>1, <1>g DEF Lan!AnnouncerHears
    <3>3. u2 >= w2 + 1
      BY <3>2, <2>1, <2>2, <1>a, WayBegins
    <3>4. u1 + Bit(g1 \in {d}) >= w1 + Bit(Searcher = a /\ Lan!WhoIsThere = s
                                              /\ net \in Lan!Networks(Searcher))
      BY <3>2, <2>1, <1>a, WaySends
    <3>5. /\ Bit(g1 \in {d}) = 1
          /\ Bit(Searcher = a /\ Lan!WhoIsThere = s /\ net \in Lan!Networks(Searcher)) = 0
      BY <2>4, <1>a DEF Bit
    <3> HIDE DEF w1, w2, u1, u2, g1, s
    <3>6. u1 + 1 >= w1
      BY <3>4, <3>5, <1>t
    <3> QED
      BY <1>k, <2>1, <3>3, <3>6, <1>t
  <2>5. CASE d # g1
    <3>1. u1 >= w1 /\ u2 >= w2
      BY <2>1, <2>2, <2>3, <2>5, <1>w
    <3> HIDE DEF w1, w2, u1, u2
    <3> QED
      BY <1>k, <2>1, <3>1, <1>t
  <2> QED
    BY <2>4, <2>5
<1>6. ASSUME NEW d \in air, Lan!ForeignHears(d) \/ Lan!ArrivesNowhere(d)
      PROVE  asks' <= lost'[a] + Rounds(a, net)'
  <2>1. /\ a \in steady /\ search = "asking" /\ a \notin seen /\ asks' = asks /\ lost' = lost
        /\ UNCHANGED <<queue, handed>> /\ air \ {d} \subseteq air'
    BY <1>6 DEF Lan!ForeignHears, Lan!ArrivesNowhere, Lan!Arrived, Lan!searchVars
  <2>2. d # g1 /\ d # g2
    <3>1. a \in open /\ Searcher \in open
      BY <2>1 DEF Present
    <3>2. d.to # a /\ d.to # Searcher
      BY <1>6, <3>1, <1>a, Apart DEF Lan!ForeignHears, Lan!ArrivesNowhere
    <3> QED
      BY <3>2, <1>g
  <2>3. u1 >= w1 /\ u2 >= w2
    BY <2>1, <2>2, <1>w DEF SaysOrStays
  <2> HIDE DEF w1, w2, u1, u2
  <2> QED
    BY <1>k, <2>1, <2>3, <1>t
<1>7. ASSUME NEW d \in air, Lan!SearcherHears(d)
      PROVE  asks' <= lost'[a] + Rounds(a, net)'
  <2>1. /\ a \in steady /\ search = "asking" /\ a \notin seen /\ asks' = asks /\ lost' = lost
        /\ air \ {d} \subseteq air' /\ d # g1
    BY <1>7, <1>a, <1>g DEF Lan!SearcherHears, Lan!Arrived
  <2>2. d # g2
    <3>1. s.what = "announcement" /\ s.about = a
      BY DEF Lan!Say
    <3>2. d = g2 => Lan!ReadsText(d.say) /\ d.say.about = a
      BY <3>1, <2>1, <1>g DEF Lan!ReadsText
    <3> QED
      BY <3>2, <1>7 DEF Lan!SearcherHears
  <2>3. SaysOrStays(Searcher) /\ SaysOrStays(a)
    BY <1>7, <1>a, SearcherSays
  <2>4. u1 >= w1 /\ u2 >= w2
    BY <2>1, <2>2, <2>3, <1>w
  <2> HIDE DEF w1, w2, u1, u2
  <2> QED
    BY <1>k, <2>1, <2>4, <1>t
\* What is lost is counted.
<1>8. ASSUME NEW d \in air, Lan!Loses(d)
      PROVE  asks' <= lost'[a] + Rounds(a, net)'
  <2>1. /\ a \in steady /\ search = "asking" /\ a \notin seen /\ asks' = asks
        /\ UNCHANGED <<queue, handed>> /\ air \ {d} \subseteq air'
        /\ lost' = [lost EXCEPT ![Lan!Other(d)] = @ + 1]
    BY <1>8 DEF Lan!Loses, Lan!Arrived, Lan!searchVars
  <2>2. lost'[a] = IF Lan!Other(d) = a THEN lost[a] + 1 ELSE lost[a]
    BY <2>1, <1>a DEF Lan!TypeOK
  <2>3. (d = g1 => Lan!Other(d) = a) /\ (d = g2 => Lan!Other(d) = a) /\ g1 # g2
    BY <1>a, <1>g DEF Lan!Other
  <2>4. /\ u1 + Bit(g1 \in {d}) >= w1
        /\ u2 + Bit(g2 \in {d}) >= w2
    BY <2>1, <1>a, WayStays
  <2> HIDE DEF w1, w2, u1, u2, g1, g2
  <2>5. CASE d # g1 /\ d # g2
    <3>1. Bit(g1 \in {d}) = 0 /\ Bit(g2 \in {d}) = 0
      BY <2>5 DEF Bit
    <3> QED
      BY <1>k, <2>1, <2>2, <2>4, <3>1, <1>t
  <2>6. CASE d = g1
    <3>1. Bit(g1 \in {d}) = 1 /\ Bit(g2 \in {d}) = 0 /\ lost'[a] = lost[a] + 1
      BY <2>2, <2>3, <2>6 DEF Bit
    <3> QED
      BY <1>k, <2>1, <2>4, <3>1, <1>t
  <2>7. CASE d = g2
    <3>1. Bit(g1 \in {d}) = 0 /\ Bit(g2 \in {d}) = 1 /\ lost'[a] = lost[a] + 1
      BY <2>2, <2>3, <2>7 DEF Bit
    <3> QED
      BY <1>k, <2>1, <2>4, <3>1, <1>t
  <2> QED
    BY <2>5, <2>6, <2>7
<1> QED
  BY <1>1, <1>2, <1>3, <1>4, <1>5, <1>6, <1>7, <1>8 DEF Lan!Next, Lan!HeardByOthers

\* Every step of the local network keeps what is said of foreign responders.
LEMMA ForeignStep ==
  ASSUME LanInv, Lan!TypeOK', Present, ForeignHeard, Lan!Next
  PROVE  ForeignHeard'
<1> USE DEF LanInv
<1> SUFFICES ASSUME NEW f \in Foreign, NEW net \in Network,
                    f \in steady', Near(f, net), search' = "asking", f \notin seen', lost'[f] = 0
             PROVE  Chain(f, net)'
  BY DEF ForeignHeard, Near
<1> DEFINE asks1 == Lan!WhoIsThere
           asks2 == Lan!Say("text of", f)
           w1 == Way(Searcher, f, asks1, net)
           w2 == Way(Searcher, f, asks2, net)
           u1 == Way(Searcher, f, asks1, net)'
           u2 == Way(Searcher, f, asks2, net)'
           g1 == Msg(Searcher, f, asks1)
           g2 == Msg(Searcher, f, asks2)
           h1 == Msg(f, Searcher, Lan!Say("pointer", f))
           h2 == Msg(f, Searcher, Lan!Say("text", f))
<1>a. /\ f \in Lan!Responder /\ f # Searcher /\ f \notin Announcer
      /\ Searcher \in Lan!Socket
      /\ asks1 \in Lan!Question /\ asks2 \in Lan!Question /\ asks2 # asks1
      /\ net \in Lan!Networks(f) /\ net \in Lan!Networks(Searcher)
      /\ net = Nets[f][1]
  BY Apart, ToldApart, OneNetwork DEF Near
<1>t. w1 \in Nat /\ w2 \in Nat /\ u1 \in Nat /\ u2 \in Nat
  BY <1>a, WayType, WayTypePrime
<1>c. /\ Chain(f, net) <=> IF f \in asked THEN w2 > 0 \/ h2 \in air ELSE w1 > 0 \/ h1 \in air
      /\ Chain(f, net)' <=> IF f \in asked' THEN u2 > 0 \/ h2 \in air' ELSE u1 > 0 \/ h1 \in air'
  BY DEF Chain, Msg
<1>g. /\ g1.to = f /\ g1.from = Searcher /\ g1.say = asks1
      /\ g2.to = f /\ g2.from = Searcher /\ g2.say = asks2
      /\ h1.to = Searcher /\ h1.from = f /\ h1.say = Lan!Say("pointer", f)
      /\ h2.to = Searcher /\ h2.from = f /\ h2.say = Lan!Say("text", f)
  BY DEF Msg
<1>d. \A d \in air : d.say \in Lan!Question \cup Lan!Answer
  BY DEF Lan!TypeOK, Lan!Datagram
\* It is enough that nothing of it ends.
<1>k. ASSUME f \in steady, search = "asking", f \notin seen, lost[f] = 0,
             f \in asked' <=> f \in asked, u1 >= w1, u2 >= w2,
             h1 \in air => h1 \in air', h2 \in air => h2 \in air'
      PROVE  Chain(f, net)'
  <2>1. Chain(f, net)
    BY <1>k DEF ForeignHeard
  <2> HIDE DEF w1, w2, u1, u2, h1, h2
  <2>2. (w1 > 0 => u1 > 0) /\ (w2 > 0 => u2 > 0)
    BY <1>k, <1>t
  <2> QED
    BY <1>k, <1>c, <2>1, <2>2
<1> HIDE DEF asks1, asks2
<1>1. CASE Lan!DiscoverLan
  <2>1. /\ Lan!SendAll(Searcher, asks1) /\ air' = air
        /\ asked' = asked /\ search = "no" /\ asked = {}
    BY <1>1 DEF Lan!DiscoverLan, Present, asks1
  <2>2. u1 >= w1 + 1
    BY <2>1, <1>a, WayBegins
  <2> HIDE DEF w1, w2, u1, u2, h1, h2
  <2>3. u1 > 0
    BY <2>2, <1>t
  <2> QED
    BY <1>c, <2>1, <2>3
<1>2. CASE Lan!SearchEnds
  BY <1>2 DEF Lan!SearchEnds
<1>3. ASSUME SaysOrStays(Searcher)
      PROVE  /\ (g1 \in air => g1 \in air') => u1 >= w1
             /\ (g2 \in air => g2 \in air') => u2 >= w2
  BY <1>3, <1>a, WayKept
<1>4. CASE Lan!AskAgain \/ \E b \in Announcer : Lan!AnnouncerStep(b)
  <2>1. /\ f \in steady /\ search = "asking" /\ f \notin seen /\ lost[f] = 0 /\ asked' = asked
        /\ air' = air
    BY <1>4, <1>a
    DEF Lan!AnnouncerStep, Lan!AnnounceLan, Lan!AnnounceTooBig, Lan!AnnounceAgain, Lan!Stop,
        Lan!AnnouncerCloses, Lan!CloseSocket, Lan!searchVars, Lan!AskAgain
  <2>2. SaysOrStays(Searcher)
    BY <1>4, <1>a, Apart, AnnouncerSays DEF Lan!AskAgain, asks1, SaysOrStays
  <2>3. u1 >= w1 /\ u2 >= w2
    BY <2>1, <2>2, <1>3
  <2> HIDE DEF w1, w2, u1, u2, h1, h2
  <2> QED
    BY <1>k, <2>1, <2>3
<1>5. ASSUME NEW n \in Lan!Socket, Lan!SocketStep(n) PROVE Chain(f, net)'
  <2>1. /\ f \in steady /\ search = "asking" /\ f \notin seen /\ lost[f] = 0 /\ asked' = asked
        /\ air \subseteq air'
    BY <1>5 DEF Lan!SocketStep, Lan!SendNext, Lan!Leaves, Lan!searchVars
  <2>2. f \in Lan!Readers(Searcher, net, asks1) /\ f \in Lan!Readers(Searcher, net, asks2)
    BY <2>1, <1>a, Reads DEF asks1, asks2
  <2>3. u1 >= w1 /\ u2 >= w2
    BY <1>5, <2>2, <1>a, WayMoves
  <2> HIDE DEF w1, w2, u1, u2, h1, h2
  <2> QED
    BY <1>k, <2>1, <2>3
<1>6. ASSUME NEW d \in air, Lan!AnnouncerHears(d) \/ Lan!ArrivesNowhere(d) PROVE Chain(f, net)'
  <2>1. /\ f \in steady /\ search = "asking" /\ f \notin seen /\ lost[f] = 0 /\ asked' = asked
        /\ air \ {d} \subseteq air'
    BY <1>6 DEF Lan!AnnouncerHears, Lan!ArrivesNowhere, Lan!Arrived, Lan!searchVars
  <2>2. d # g1 /\ d # g2 /\ d # h1 /\ d # h2
    <3>1. Searcher \in open /\ Searcher \notin Announcer
      BY <2>1, Apart DEF Present
    <3>2. d.to # f /\ d.to # Searcher
      BY <1>6, <3>1, <1>a DEF Lan!AnnouncerHears, Lan!ArrivesNowhere
    <3> QED
      BY <3>2, <1>g
  <2>3. SaysOrStays(Searcher)
    <3>1. d.to \in Announcer => d.to \in Lan!Socket /\ Lan!Say("announcement", d.to) \in Lan!Answer
      BY Apart, ToldApart
    <3> QED
      BY <1>6, <3>1 DEF Lan!AnnouncerHears, Lan!ArrivesNowhere, SaysOrStays
  <2>4. u1 >= w1 /\ u2 >= w2
    BY <2>1, <2>2, <2>3, <1>3
  <2> HIDE DEF w1, w2, u1, u2, h1, h2, g1, g2
  <2> QED
    BY <1>k, <2>1, <2>2, <2>4
\* It answers who is there with a pointer and the question for its text with that.
<1>7. ASSUME NEW d \in air, Lan!ForeignHears(d) PROVE Chain(f, net)'
  <2>1. /\ f \in steady /\ search = "asking" /\ f \notin seen /\ lost[f] = 0 /\ asked' = asked
        /\ UNCHANGED <<queue, handed>> /\ air \ {d} \subseteq air'
        /\ d # h1 /\ d # h2
    BY <1>7, <1>g, Apart DEF Lan!ForeignHears, Lan!Arrived, Lan!searchVars
  <2>2. /\ Searcher \in Lan!Readers(f, net, Lan!Say("pointer", f))
        /\ Searcher \in Lan!Readers(f, net, Lan!Say("text", f))
    BY <2>1, <1>a, Reads
  <2>3. d = g1 => h1 \in air'
    <3>1. h1 \in Lan!Datagrams(f, net, Lan!Say("pointer", f))
      BY <2>2 DEF Lan!Datagrams, Msg
    <3> QED
      BY <1>7, <1>a, <1>g, <3>1 DEF Lan!ForeignHears, asks1
  <2>4. d = g2 => h2 \in air'
    <3>1. h2 \in Lan!Datagrams(f, net, Lan!Say("text", f))
      BY <2>2 DEF Lan!Datagrams, Msg
    <3> QED
      BY <1>7, <1>a, <1>g, <3>1 DEF Lan!ForeignHears, asks1, asks2
  <2>5. (d # g1 => u1 >= w1) /\ (d # g2 => u2 >= w2)
    BY <2>1, <1>3 DEF SaysOrStays
  <2>6. Chain(f, net)
    BY <2>1 DEF ForeignHeard
  <2> HIDE DEF w1, w2, u1, u2, h1, h2, g1, g2
  <2>7. (d # g1 /\ w1 > 0 => u1 > 0) /\ (d # g2 /\ w2 > 0 => u2 > 0)
    BY <2>5, <1>t
  <2> QED
    BY <1>c, <2>1, <2>3, <2>4, <2>6, <2>7
\* The search asks for the text of what it has a pointer to, and reads that text.
<1>8. ASSUME NEW d \in air, Lan!SearcherHears(d) PROVE Chain(f, net)'
  <2>1. /\ f \in steady /\ search = "asking" /\ f \notin seen /\ lost[f] = 0
        /\ air \ {d} \subseteq air' /\ d # g1 /\ d # g2
    BY <1>8, <1>a, <1>g DEF Lan!SearcherHears, Lan!Arrived
  <2>2. ~(d.say.what \in {"announcement", "text"} /\ d.say.about = f)
    BY <1>8, <2>1 DEF Lan!SearcherHears, Lan!ReadsText
  <2>3. d # h2
    <3>1. h2.say.what = "text" /\ h2.say.about = f
      BY DEF Lan!Say, Msg
    <3> QED
      BY <2>2, <3>1
  <2>s. SaysOrStays(Searcher)
    BY <1>8, <1>a, SearcherSays
  <2>4. CASE Lan!NewPointer(d.say) /\ d.say.what = "pointer"
    <3>1. /\ Lan!SendAll(Searcher, Lan!Say("text of", d.say.about))
          /\ asked' = asked \cup {d.say.about}
      BY <1>8, <2>4 DEF Lan!SearcherHears
    <3>3. CASE d.say.about = f
      <4>1. Lan!SendAll(Searcher, asks2)
        BY <3>1, <3>3 DEF asks2
      <4>2. g2 \in air => g2 \in air'
        BY <2>1
      <4>3. u2 >= w2 + 1
        BY <4>1, <4>2, <1>a, WayBegins
      <4> HIDE DEF w1, w2, u1, u2, h1, h2, g1, g2
      <4>4. u2 > 0
        BY <4>3, <1>t
      <4> QED
        BY <3>1, <3>3, <4>4, <1>c
    <3>4. CASE d.say.about # f
      <4>1. d # h1
        <5>1. h1.say.about = f
          BY DEF Lan!Say, Msg
        <5> QED
          BY <3>4, <5>1
      <4>2. u1 >= w1 /\ u2 >= w2
        BY <2>s, <2>1, <4>1, <1>3
      <4> HIDE DEF w1, w2, u1, u2, h1, h2, g1, g2
      <4> QED
        BY <1>k, <2>1, <2>3, <3>1, <3>4, <4>1, <4>2
    <3> QED
      BY <3>3, <3>4
  <2>5. CASE ~(Lan!NewPointer(d.say) /\ d.say.what = "pointer")
    <3>1. UNCHANGED <<queue, handed>>
      BY <1>8, <2>5 DEF Lan!SearcherHears
    <3>2. f \in asked' <=> f \in asked
      BY <1>8, <2>2, <2>5 DEF Lan!SearcherHears, Lan!NewPointer
    <3>3. d = h1 => f \in asked
      <4>1. h1.say.what = "pointer" /\ h1.say.about = f
        BY DEF Lan!Say, Msg
      <4> QED
        BY <4>1, <2>1, <2>5 DEF Lan!NewPointer
    <3>4. u1 >= w1 /\ u2 >= w2
      BY <2>s, <2>1, <1>3
    <3>5. Chain(f, net)
      BY <2>1 DEF ForeignHeard
    <3> HIDE DEF w1, w2, u1, u2, h1, h2, g1, g2
    <3>6. (w1 > 0 => u1 > 0) /\ (w2 > 0 => u2 > 0)
      BY <3>4, <1>t
    <3> QED
      BY <1>c, <2>1, <2>3, <3>2, <3>3, <3>5, <3>6
  <2> QED
    BY <2>4, <2>5
<1>9. ASSUME NEW d \in air, Lan!Loses(d) PROVE Chain(f, net)'
  <2>1. /\ f \in steady /\ search = "asking" /\ f \notin seen /\ asked' = asked
        /\ UNCHANGED <<queue, handed>> /\ air \ {d} \subseteq air'
        /\ lost' = [lost EXCEPT ![Lan!Other(d)] = @ + 1]
    BY <1>9 DEF Lan!Loses, Lan!Arrived, Lan!searchVars
  <2>2. lost[f] \in Nat /\ lost \in [Lan!Responder -> 0 .. MaxLost]
    <3>1. MaxLost \in Nat
      BY NearbyAssumption DEF Lan!NetworkAssumption
    <3> QED
      BY <3>1, <1>a DEF Lan!TypeOK
  <2>3. lost'[f] = IF Lan!Other(d) = f THEN lost[f] + 1 ELSE lost[f]
    BY <2>1, <2>2, <1>a
  <2>4. Lan!Other(d) # f /\ lost[f] = 0
    BY <2>2, <2>3
  <2>5. d # g1 /\ d # g2 /\ d # h1 /\ d # h2
    BY <2>4, <1>a, <1>g DEF Lan!Other
  <2>6. u1 >= w1 /\ u2 >= w2
    BY <2>1, <2>5, <1>3 DEF SaysOrStays
  <2> HIDE DEF w1, w2, u1, u2, h1, h2, g1, g2
  <2> QED
    BY <1>k, <2>1, <2>4, <2>5, <2>6
<1> QED
  BY <1>1, <1>2, <1>4, <1>5, <1>6, <1>7, <1>8, <1>9 DEF Lan!Next, Lan!HeardByOthers

\* Every step of the local network keeps who is there.
LEMMA PresentStep ==
  ASSUME Lan!TypeOK, Present, Lan!Next
  PROVE  Present'
<1>a. /\ \A a \in Announcer : a # Searcher /\ a \notin Foreign
      /\ stage \in [Announcer -> {"no", "fresh", "settled", "stopping", "over", "thrown"}]
  BY Apart DEF Lan!TypeOK
<1>1. ASSUME NEW b \in Announcer, Lan!AnnouncerStep(b) PROVE Present'
  BY <1>1, <1>a
  DEF Present, Lan!AnnouncerStep, Lan!AnnounceLan, Lan!AnnounceTooBig, Lan!AnnounceAgain,
      Lan!Stop, Lan!AnnouncerCloses, Lan!CloseSocket, Lan!searchVars
<1>2. CASE Lan!DiscoverLan
  BY <1>2, <1>a DEF Present, Lan!DiscoverLan
<1>3. CASE Lan!AskAgain \/ Lan!SearchEnds
  BY <1>3, <1>a DEF Present, Lan!AskAgain, Lan!SearchEnds, Lan!CloseSocket
<1>4. ASSUME NEW n \in Lan!Socket, Lan!SocketStep(n) PROVE Present'
  BY <1>4 DEF Present, Lan!SocketStep, Lan!SendNext, Lan!Leaves, Lan!searchVars
<1>5. ASSUME NEW d \in air, Lan!HeardByOthers(d) \/ Lan!Loses(d) PROVE Present'
  BY <1>5
  DEF Present, Lan!HeardByOthers, Lan!AnnouncerHears, Lan!ForeignHears, Lan!ArrivesNowhere,
      Lan!Loses, Lan!searchVars
<1>6. ASSUME NEW d \in air, Lan!SearcherHears(d) PROVE Present'
  BY <1>6 DEF Present, Lan!SearcherHears
<1> QED
  BY <1>1, <1>2, <1>3, <1>4, <1>5, <1>6 DEF Lan!Next

\* What is found stays found, and nothing is read without being found.
LEMMA SeenFoundStep ==
  ASSUME Lan!TypeOK, SeenFound, Lan!Next
  PROVE  SeenFound' /\ \A thing : Lan!Found(thing) => Lan!Found(thing)'
<1>1. ASSUME NEW d \in air, Lan!SearcherHears(d)
      PROVE  SeenFound' /\ \A thing : Lan!Found(thing) => Lan!Found(thing)'
  <2>1. found \in Seq(Wanted)
    BY DEF Lan!TypeOK
  <2>2. ASSUME NEW thing \in Wanted
        PROVE  /\ \A other : (\E k \in DOMAIN found : found[k] = other)
                    => \E k \in DOMAIN Append(found, thing) : Append(found, thing)[k] = other
               /\ \E k \in DOMAIN Append(found, thing) : Append(found, thing)[k] = thing
    BY <2>1, Appended
  <2>3. CASE Lan!ReadsText(d.say)
    <3> DEFINE thing == Says[d.say.about]
    <3>1. seen' = seen \cup {d.say.about} /\ Lan!Finds(thing)
      BY <1>1, <2>3 DEF Lan!SearcherHears
    <3>2. \A other : Lan!Found(other) => Lan!Found(other)'
      BY <2>2, <3>1 DEF Lan!Finds, Lan!Found
    <3>3. thing \in Wanted => Lan!Found(thing)'
      BY <2>2, <3>1 DEF Lan!Finds, Lan!Found
    <3> QED
      BY <3>1, <3>2, <3>3 DEF SeenFound
  <2>4. CASE ~Lan!ReadsText(d.say)
    BY <1>1, <2>4 DEF Lan!SearcherHears, SeenFound, Lan!Found
  <2> QED
    BY <2>3, <2>4
<1>2. CASE UNCHANGED <<seen, found>>
  BY <1>2 DEF SeenFound, Lan!Found
<1>3. UNCHANGED <<seen, found>> \/ \E d \in air : Lan!SearcherHears(d)
  BY DEF Lan!Next, Lan!AnnouncerStep, Lan!AnnounceLan, Lan!AnnounceTooBig, Lan!AnnounceAgain,
         Lan!Stop, Lan!AnnouncerCloses, Lan!DiscoverLan, Lan!AskAgain, Lan!SearchEnds,
         Lan!SocketStep, Lan!SendNext, Lan!Leaves, Lan!HeardByOthers, Lan!AnnouncerHears,
         Lan!ForeignHears, Lan!ArrivesNowhere, Lan!Loses, Lan!searchVars
<1> QED
  BY <1>1, <1>2, <1>3

\* When the search ends nothing is under way any more: each of its rounds has been heard
\* or lost.
LEMMA EndFinds ==
  ASSUME LanInv, Present, AnnouncersHeard, ForeignHeard, SeenFound, Lan!SearchEnds,
         NEW r \in steady, Lan!WithinReach(r), ~Lan!Found(Says[r])
  PROVE  lost[r] >= IF r \in Foreign THEN 1 ELSE MaxAsks
<1> USE DEF LanInv
<1>1. search = "asking" /\ asks = MaxAsks /\ Lan!Quiet /\ Searcher \in open
  BY DEF Lan!SearchEnds, Present
<1>2. r \notin seen /\ r \in Announcer \cup Foreign
  BY DEF SeenFound, Lan!WithinReach, Lan!TypeOK, Lan!Responder
<1>3. PICK net : Near(r, net)
  BY DEF Lan!WithinReach, Near
<1>4. net \in Network
  <2>1. Nets[Searcher] \in Seq(Network)
    BY NearbyAssumption, Apart DEF Lan!NetworkAssumption
  <2> QED
    BY <1>3, <2>1 DEF Near, Lan!Networks
<1>5. /\ MaxAsks \in Nat /\ MaxLost \in Nat
      /\ lost[r] \in Nat
  <2>1. MaxAsks \in Nat /\ MaxLost \in Nat
    BY NearbyAssumption DEF Lan!NetworkAssumption
  <2> QED
    BY <2>1, <1>2 DEF Lan!TypeOK, Lan!Responder
<1>6. CASE r \in Announcer
  <2>1. asks <= lost[r] + Rounds(r, net)
    BY <1>1, <1>2, <1>3, <1>4, <1>6 DEF AnnouncersHeard
  <2>2. r \in open
    BY <1>6 DEF Present
  <2>3. Rounds(r, net) = 0
    BY <1>1, <2>2, WayQuiet DEF Rounds
  <2> QED
    BY <1>1, <1>5, <1>6, <2>1, <2>3, Apart
<1>7. CASE r \in Foreign
  <2>1. /\ ~(Way(Searcher, r, Lan!WhoIsThere, net) > 0)
        /\ ~(Way(Searcher, r, Lan!Say("text of", r), net) > 0)
    BY <1>1, WayQuiet
  <2>2. air = {}
    BY <1>1 DEF Lan!Quiet
  <2>3. ~Chain(r, net)
    BY <2>1, <2>2 DEF Chain
  <2>4. lost[r] # 0
    BY <1>1, <1>2, <1>3, <1>4, <1>7, <2>3 DEF ForeignHeard
  <2> QED
    BY <1>5, <1>7, <2>4
<1> QED
  BY <1>2, <1>6, <1>7

\* What a search needs on its way for finding who was there all along.
FInv ==
  /\ LanInv
  /\ Present
  /\ AnnouncersHeard
  /\ ForeignHeard
  /\ SeenFound
  /\ SearchFinds

\* A search that is over stays over, and what it did not find it never will have missed.
LEMMA SearchFindsStep ==
  ASSUME FInv, Lan!TypeOK', Lan!Next
  PROVE  SearchFinds'
<1> USE DEF LanInv
<1> SUFFICES ASSUME search' = "over", NEW r \in steady', Lan!WithinReach(r), ~Lan!Found(Says[r])'
             PROVE  lost'[r] >= IF r \in Foreign THEN 1 ELSE MaxAsks
  BY DEF SearchFinds, Lan!SearchFinds, Lan!WithinReach
<1>1. ~Lan!Found(Says[r])
  BY SeenFoundStep DEF FInv
<1>2. CASE Lan!SearchEnds
  <2>1. r \in steady /\ lost' = lost
    BY <1>2 DEF Lan!SearchEnds
  <2> QED
    BY <1>1, <1>2, <2>1, EndFinds DEF FInv
<1>3. CASE ~Lan!SearchEnds
  <2>1. search = "over" /\ r \in steady
    BY <1>3
    DEF Lan!Next, Lan!AnnouncerStep, Lan!AnnounceLan, Lan!AnnounceTooBig, Lan!AnnounceAgain,
        Lan!Stop, Lan!AnnouncerCloses, Lan!DiscoverLan, Lan!AskAgain,
        Lan!SocketStep, Lan!SendNext, Lan!Leaves, Lan!HeardByOthers, Lan!AnnouncerHears,
        Lan!ForeignHears, Lan!ArrivesNowhere, Lan!SearcherHears, Lan!Loses, Lan!searchVars
  <2>2. lost[r] >= IF r \in Foreign THEN 1 ELSE MaxAsks
    BY <1>1, <2>1 DEF FInv, SearchFinds, Lan!SearchFinds
  <2>3. lost' = lost \/ \E q : lost' = [lost EXCEPT ![q] = @ + 1]
    BY DEF Lan!Next, Lan!AnnouncerStep, Lan!AnnounceLan, Lan!AnnounceTooBig, Lan!AnnounceAgain,
           Lan!Stop, Lan!AnnouncerCloses, Lan!DiscoverLan, Lan!AskAgain, Lan!SearchEnds,
           Lan!SocketStep, Lan!SendNext, Lan!Leaves, Lan!HeardByOthers, Lan!AnnouncerHears,
           Lan!ForeignHears, Lan!ArrivesNowhere, Lan!SearcherHears, Lan!Loses
  <2>4. lost \in [Lan!Responder -> 0 .. MaxLost] /\ MaxLost \in Nat /\ MaxAsks \in Nat
        /\ r \in Lan!Responder
    BY <2>1, NearbyAssumption DEF FInv, Lan!TypeOK, Lan!NetworkAssumption
  <2>5. lost[r] \in Nat /\ (lost'[r] = lost[r] \/ lost'[r] = lost[r] + 1)
    BY <2>3, <2>4
  <2> QED
    BY <2>2, <2>4, <2>5
<1> QED
  BY <1>2, <1>3

\* A step of either search is one of the local network, or leaves that as it is.
LEMMA NearbyStep == [Next]_vars => Lan!Next \/ UNCHANGED lanVars
<1> SUFFICES ASSUME [Next]_vars PROVE Lan!Next \/ UNCHANGED lanVars
  OBVIOUS
<1>1. ASSUME NEW bluetooth \in BOOLEAN, NEW network \in BOOLEAN,
             DiscoverNearby(bluetooth, network)
      PROVE  Lan!Next \/ UNCHANGED lanVars
  BY <1>1 DEF DiscoverNearby, Lan!Next
<1>2. CASE \/ \E thing \in Beacon : BluetoothFinds(thing)
           \/ BluetoothEnds \/ BluetoothFails \/ Resolves
  BY <1>2 DEF BluetoothFinds, BluetoothEnds, BluetoothFails, Resolves
<1>3. CASE \E d \in air : LanHears(d)
  BY <1>3 DEF LanHears, Lan!Next
<1>4. CASE Others
  BY <1>4 DEF Others, Lan!Next
<1>5. CASE UNCHANGED vars
  BY <1>5 DEF vars
<1> QED
  BY <1>1, <1>2, <1>3, <1>4, <1>5 DEF Next

\* Nothing is asked before the search begins.
LEMMA FindsInit == Init /\ LanInv => FInv
<1> SUFFICES ASSUME Init, LanInv PROVE FInv
  OBVIOUS
<1>1. /\ search = "no" /\ asked = {} /\ seen = {} /\ steady = {} /\ open = {}
      /\ \A a \in Announcer : stage[a] = "no"
  BY DEF Init, Lan!Init
<1> QED
  BY <1>1
  DEF FInv, Present, AnnouncersHeard, ForeignHeard, SeenFound, SearchFinds, Lan!SearchFinds

\* Every step keeps what a search finds.
LEMMA FindsStep == FInv /\ LanInv' /\ [Next]_vars => FInv'
<1> SUFFICES ASSUME FInv, LanInv', [Next]_vars PROVE FInv'
  OBVIOUS
<1>1. CASE Lan!Next
  <2>1. Lan!TypeOK /\ Lan!TypeOK' /\ LanInv
    BY DEF FInv, LanInv
  <2> QED
    BY <1>1, <2>1, PresentStep, AnnouncersStep, ForeignStep, SeenFoundStep, SearchFindsStep
    DEF FInv
<1>2. CASE UNCHANGED lanVars
  BY <1>2
  DEF lanVars, FInv, Present, AnnouncersHeard, ForeignHeard, SeenFound, SearchFinds,
      Lan!SearchFinds, Lan!Found, Rounds, Chain, Way
<1> QED
  BY <1>1, <1>2, NearbyStep

-----------------------------------------------------------------------------

\* For any machines, networks and things said every variable keeps its type.
THEOREM NearbyTypeCorrect == Spec => []TypeOK
<1>1. IInv => TypeOK
  BY DEF IInv
<1> QED
  BY <1>1, Invariant, PTL

\* sendAll() never lets a packet out by an interface that was set for another.
THEOREM OwnAddressHolds == Spec => []OwnAddress
<1>1. IInv => OwnAddress
  BY DEF IInv
<1> QED
  BY <1>1, Invariant, PTL

\* discoverNearby() lists everything either medium finds, and lists it once.
THEOREM ListIsWholeHolds == Spec => []ListIsWhole
<1>1. IInv => ListIsWhole
  BY DEF IInv
<1> QED
  BY <1>1, Invariant, PTL

\* discoverLan() finds whoever is there all along, unless the network loses every round.
THEOREM SearchFindsHolds == Spec => []SearchFinds
<1>1. IInv => LanInv
  BY DEF IInv, LanInv, TypeOK, OwnAddress
<1>2. FInv => SearchFinds
  BY DEF FInv
<1>3. Spec => []LanInv
  BY <1>1, Invariant, PTL
<1> QED
  BY <1>2, <1>3, FindsInit, FindsStep, PTL DEF Spec
=============================================================================
