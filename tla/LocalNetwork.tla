---------------------------- MODULE LocalNetwork ----------------------------
(***************************************************************************)
(* Announcing and searching on the local network by mDNS                   *)
(* (src/src/lan/mdns.js): openSocket, sendAll, announceLan, discoverLan.   *)
(*                                                                         *)
(* An announcer is one call of announceLan() (its instance name is new     *)
(* each time), and there is one search.  A socket sends on every network   *)
(* its machine has an address in, one after another, since the interface   *)
(* it sends by is a setting of the socket.  Foreign responders (avahi,     *)
(* Bonjour) are the environment: they give the text of what they announce  *)
(* only to who asks for it.  Datagrams get lost, never altered.            *)
(***************************************************************************)
EXTENDS Integers, Sequences

CONSTANTS
  Announcer,  \* calls of announceLan
  Foreign,    \* other responders
  Searcher,   \* the call of discoverLan
  Network,
  Nets,       \* the networks each of them is in, in the order of the addresses
  Says,       \* the {kind, data} each responder announces
  Wanted,     \* those of the kind that is searched for
  MaxAsks,    \* how often the search asks in its time
  MaxLost     \* bound: datagrams lost

Responder == Announcer \cup Foreign
Socket == Announcer \cup {Searcher}
Networks(n) == {Nets[n][k] : k \in 1 .. Len(Nets[n])}

\* Assumed by Nearby.
NetworkAssumption ==
  /\ Announcer \cap Foreign = {}
  /\ Searcher \notin Responder
  /\ Nets \in [Socket \cup Foreign -> Seq(Network)]
  /\ \A n \in Socket : Nets[n] # <<>>
  /\ \A f \in Foreign : Len(Nets[f]) = 1
  /\ MaxAsks \in Nat \ {0}
  /\ MaxLost \in Nat

VARIABLES
  stage,   \* of each announcer: what its timers still have to do
  search,  \* of the search
  asks,    \* how often it has asked
  open,    \* the sockets that are open
  queue,   \* net.queue: what each socket still has to send, and for which address
  iface,   \* the network each socket's multicast goes out by
  handed,  \* what has been given to send() and has not left
  air,     \* the datagrams under way
  asked, seen, found,  \* of the search: names asked about, read, and what it found
  steady,  \* history: the responders that have been there since the search began
  lost     \* history: datagrams lost between each responder and the search

netVars == <<open, queue, iface, handed, air>>
searchVars == <<search, asks, asked, seen, found, steady>>
vars == <<stage, netVars, searchVars, lost>>

\* A question for any responder, for the text of one, an announcement with its
\* text, one without, the text alone, and the farewell (TTL 0).
Question == [what : {"who is there"}] \cup [what : {"text of"}, about : Responder]
Answer == [what : {"announcement", "pointer", "text", "farewell"}, about : Responder]
WhoIsThere == [what |-> "who is there"]
Say(what, r) == [what |-> what, about |-> r]

Packet == [say : Question \cup Answer, addr : Network]
Datagram == [from : Socket \cup Foreign, to : Socket \cup Foreign, say : Question \cup Answer]

TypeOK ==
  /\ stage \in [Announcer -> {"no", "fresh", "settled", "stopping", "over", "thrown"}]
  /\ search \in {"no", "asking", "over"}
  /\ asks \in 0 .. MaxAsks
  /\ open \subseteq Socket
  /\ queue \in [Socket -> Seq(Packet)]
  /\ iface \in [Socket -> Network]
  /\ handed \in [Socket -> SUBSET Packet]
  /\ air \subseteq Datagram
  /\ asked \subseteq Responder
  /\ seen \subseteq Responder
  /\ found \in Seq(Wanted)
  /\ steady \subseteq Responder
  /\ lost \in [Responder -> 0 .. MaxLost]

Init ==
  /\ stage = [a \in Announcer |-> "no"]
  /\ search = "no"
  /\ asks = 0
  /\ open = {}
  /\ queue = [n \in Socket |-> <<>>]
  /\ iface = [n \in Socket |-> Nets[n][1]]
  /\ handed = [n \in Socket |-> {}]
  /\ air = {}
  /\ asked = {} /\ seen = {} /\ found = <<>>
  /\ steady = {}
  /\ lost = [r \in Responder |-> 0]

-----------------------------------------------------------------------------
(* Sending *)

\* One packet for each address, behind those that wait.
Targets(n, say) == [k \in 1 .. Len(Nets[n]) |-> [say |-> say, addr |-> Nets[n][k]]]

\* Seeded fault: no queue, as it once was: send() for one address after another.
BugSendAll(n, say) ==
  /\ handed' = [handed EXCEPT ![n] = @ \cup {Targets(n, say)[k] : k \in 1 .. Len(Nets[n])}]
  /\ iface' = [iface EXCEPT ![n] = Nets[n][Len(Nets[n])]]
  /\ UNCHANGED queue

SendAll(n, say) ==
  /\ queue' = [queue EXCEPT ![n] = @ \o Targets(n, say)]
  /\ UNCHANGED <<iface, handed>>

\* setMulticastInterface() and send(), once the last packet has left.
SendNext(n) ==
  /\ queue[n] # <<>>
  /\ handed[n] = {}
  /\ iface' = [iface EXCEPT ![n] = Head(queue[n]).addr]
  /\ handed' = [handed EXCEPT ![n] = {Head(queue[n])}]
  /\ queue' = [queue EXCEPT ![n] = Tail(@)]
  /\ UNCHANGED <<stage, searchVars, open, air, lost>>

\* Those who hear what a machine sends into a network and do not pass it over:
\* the search reads answers, responders read questions.
Readers(n, net, say) ==
  {m \in IF say \in Answer THEN {Searcher} ELSE Responder :
     m # n /\ m \in open \cup Foreign /\ net \in Networks(m)}

Datagrams(n, net, say) ==
  {[from |-> n, to |-> m, say |-> say] : m \in Readers(n, net, say)}

\* The packet leaves by the interface set at that moment, and send() calls back.
\* The same said again is told apart only by when: it does not overtake.
Leaves(n, p) ==
  /\ p \in handed[n]
  /\ Datagrams(n, iface[n], p.say) \cap air = {}
  /\ handed' = [handed EXCEPT ![n] = @ \ {p}]
  /\ air' = air \cup Datagrams(n, iface[n], p.say)
  /\ UNCHANGED <<stage, searchVars, open, queue, iface, lost>>

\* A socket that closes sends no more: what waits in the queue fails silently.
CloseSocket(n) ==
  /\ open' = open \ {n}
  /\ queue' = [queue EXCEPT ![n] = <<>>]
  /\ handed' = [handed EXCEPT ![n] = {}]
  /\ UNCHANGED <<iface, air>>

-----------------------------------------------------------------------------
(* Announcing *)

AnnounceLan(a) ==
  /\ stage[a] = "no"
  /\ stage' = [stage EXCEPT ![a] = "fresh"]
  /\ open' = open \cup {a}
  /\ SendAll(a, Say("announcement", a))
  /\ UNCHANGED <<air, searchVars, lost>>

\* More than MAX_DATA bytes: txtEntries() throws when the socket is already open.
AnnounceTooBig(a) ==
  /\ stage[a] = "no"
  /\ stage' = [stage EXCEPT ![a] = "thrown"]
  /\ open' = open \cup {a}
  /\ UNCHANGED <<queue, iface, handed, air, searchVars, lost>>

\* A second later, once.
AnnounceAgain(a) ==
  /\ stage[a] = "fresh"
  /\ stage' = [stage EXCEPT ![a] = "settled"]
  /\ SendAll(a, Say("announcement", a))
  /\ UNCHANGED <<open, air, searchVars, lost>>

\* What announceLan() returns: the farewell, and 50 ms for it to leave.
Stop(a) ==
  /\ stage[a] \in {"fresh", "settled"}
  /\ stage' = [stage EXCEPT ![a] = "stopping"]
  /\ SendAll(a, Say("farewell", a))
  /\ steady' = steady \ {a}
  /\ UNCHANGED <<open, air, search, asks, asked, seen, found, lost>>

AnnouncerCloses(a) ==
  /\ stage[a] = "stopping"
  /\ stage' = [stage EXCEPT ![a] = "over"]
  /\ CloseSocket(a)
  /\ UNCHANGED <<searchVars, lost>>

-----------------------------------------------------------------------------
(* Searching *)

DiscoverLan ==
  /\ search = "no"
  /\ search' = "asking"
  /\ asks' = 1
  /\ open' = open \cup {Searcher}
  /\ SendAll(Searcher, WhoIsThere)
  /\ steady' = {a \in Announcer : stage[a] \in {"fresh", "settled"}} \cup Foreign
  /\ UNCHANGED <<stage, air, asked, seen, found, lost>>

\* After one second, three, and every five.
AskAgain ==
  /\ search = "asking"
  /\ asks < MaxAsks
  /\ asks' = asks + 1
  /\ SendAll(Searcher, WhoIsThere)
  /\ UNCHANGED <<stage, open, air, search, asked, seen, found, steady, lost>>

\* Its time is up.  That is seconds after the last question, when what was said
\* on account of it has arrived or is lost.
Quiet == air = {} /\ \A n \in open : queue[n] = <<>> /\ handed[n] = {}

SearchEnds ==
  /\ search = "asking"
  /\ asks = MaxAsks
  /\ Quiet
  /\ search' = "over"
  /\ CloseSocket(Searcher)
  /\ UNCHANGED <<stage, asks, asked, seen, found, steady, lost>>

-----------------------------------------------------------------------------
(* What arrives *)

Arrived(d) == air' = air \ {d}

\* An announcer answers every question about it with all it announces, also in
\* the moment between its farewell and the end.
AnnouncerHears(d) ==
  /\ d.to \in Announcer \cap open
  /\ Arrived(d)
  /\ IF /\ stage[d.to] # "thrown"
        /\ d.say \in {WhoIsThere, Say("text of", d.to)}
       THEN SendAll(d.to, Say("announcement", d.to))
       ELSE UNCHANGED <<queue, iface, handed>>
  /\ UNCHANGED <<stage, open, searchVars, lost>>

\* A pointer to an instance not yet read nor asked about: its text is asked for,
\* unless it came along.
NewPointer(say) ==
  /\ say.what \in {"announcement", "pointer"}
  /\ say.about \notin seen \cup asked

\* Seeded fault: what has been asked about counts as read.
BugReadsText(say) ==
  /\ say.what \in {"announcement", "text"}
  /\ say.about \notin seen \cup asked

ReadsText(say) ==
  /\ say.what \in {"announcement", "text"}
  /\ say.about \notin seen

Finds(thing) ==
  found' = IF thing \in Wanted /\ \A k \in DOMAIN found : found[k] # thing
             THEN Append(found, thing)
             ELSE found

SearcherHears(d) ==
  /\ d.to = Searcher
  /\ Searcher \in open
  /\ Arrived(d)
  /\ asked' = IF NewPointer(d.say) THEN asked \cup {d.say.about} ELSE asked
  /\ IF NewPointer(d.say) /\ d.say.what = "pointer"
       THEN SendAll(Searcher, Say("text of", d.say.about))
       ELSE UNCHANGED <<queue, iface, handed>>
  /\ IF ReadsText(d.say)
       THEN seen' = seen \cup {d.say.about} /\ Finds(Says[d.say.about])
       ELSE UNCHANGED <<seen, found>>
  /\ UNCHANGED <<stage, open, search, asks, steady, lost>>

\* A responder of another make, on its one network.
ForeignHears(d) ==
  /\ d.to \in Foreign
  /\ LET what == IF d.say = WhoIsThere THEN "pointer" ELSE "text"
     IN IF d.say \in {WhoIsThere, Say("text of", d.to)}
          THEN air' = (air \ {d}) \cup Datagrams(d.to, Nets[d.to][1], Say(what, d.to))
          ELSE Arrived(d)
  /\ UNCHANGED <<stage, open, queue, iface, handed, searchVars, lost>>

\* The socket it was for is closed.
ArrivesNowhere(d) ==
  /\ d.to \notin open \cup Foreign
  /\ Arrived(d)
  /\ UNCHANGED <<stage, open, queue, iface, handed, searchVars, lost>>

\* The responder's end of a datagram.
Other(d) == IF d.from = Searcher THEN d.to ELSE d.from

Loses(d) ==
  /\ lost[Other(d)] < MaxLost
  /\ lost' = [lost EXCEPT ![Other(d)] = @ + 1]
  /\ Arrived(d)
  /\ UNCHANGED <<stage, open, queue, iface, handed, searchVars>>

-----------------------------------------------------------------------------

SocketStep(n) ==
  \/ SendNext(n)
  \/ \E p \in handed[n] : Leaves(n, p)

\* What arrives and has no say in the search.
HeardByOthers(d) ==
  \/ AnnouncerHears(d)
  \/ ForeignHears(d)
  \/ ArrivesNowhere(d)

AnnouncerStep(a) ==
  \/ AnnounceLan(a)
  \/ AnnounceTooBig(a)
  \/ AnnounceAgain(a)
  \/ Stop(a)
  \/ AnnouncerCloses(a)

Next ==
  \/ \E a \in Announcer : AnnouncerStep(a)
  \/ DiscoverLan
  \/ AskAgain
  \/ SearchEnds
  \/ \E n \in Socket : SocketStep(n)
  \/ \E d \in air : HeardByOthers(d) \/ SearcherHears(d) \/ Loses(d)

Spec == Init /\ [][Next]_vars

\* Timers fire, sockets send, and what is under way arrives or does not.  Nobody
\* has to announce, to stop or to search.
Fairness ==
  /\ \A n \in Socket : WF_vars(SocketStep(n))
  /\ WF_vars(\E d \in air : HeardByOthers(d) \/ SearcherHears(d))
  /\ WF_vars(AskAgain)
  /\ WF_vars(SearchEnds)

FairSpec == Spec /\ Fairness

-----------------------------------------------------------------------------

\* What waits to leave will leave by the interface whose address it was made
\* for, whatever else is sent meanwhile.
OwnAddress == \A n \in Socket : \A p \in handed[n] : p.addr = iface[n]

Found(thing) == \E k \in DOMAIN found : found[k] = thing

\* Those the search can reach, and which say something of the kind it wants.
WithinReach(r) ==
  /\ Networks(r) \cap Networks(Searcher) # {}
  /\ Says[r] \in Wanted

\* A search that has ended has found every responder that was there all along,
\* unless datagrams were lost in each of its rounds; or one, if the responder
\* gives its text only to who asks, since that is asked once.
SearchFinds ==
  search = "over" =>
    \A r \in steady : WithinReach(r) =>
      \/ Found(Says[r])
      \/ lost[r] >= IF r \in Foreign THEN 1 ELSE MaxAsks
=============================================================================
