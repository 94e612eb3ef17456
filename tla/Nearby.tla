------------------------------- MODULE Nearby -------------------------------
(***************************************************************************)
(* discoverNearby() (src/src/client.js): one search by every medium the    *)
(* client has, the local network (LocalNetwork) and Bluetooth, of whose    *)
(* discover() this module has what it hands over.  What either finds goes  *)
(* into one list.                                                          *)
(***************************************************************************)
EXTENDS Integers, Sequences

CONSTANTS
  Announcer, Foreign, Searcher, Network, Nets, Says, Wanted, MaxAsks, MaxLost,
  Beacon   \* what Bluetooth may find

VARIABLES
  stage, search, asks, open, queue, iface, handed, air, asked, seen, found,
  steady, lost,
  near,    \* the call of discoverNearby
  ble,     \* its search by Bluetooth
  beacons, \* what that has found
  listed   \* its list, with the medium each was found by

Lan == INSTANCE LocalNetwork

ASSUME NearbyAssumption == Lan!NetworkAssumption

lanVars == <<stage, search, asks, open, queue, iface, handed, air, asked, seen, found,
             steady, lost>>
nearVars == <<near, ble, beacons, listed>>
vars == <<lanVars, nearVars>>

Listed == [thing : Wanted \cup Beacon, via : {"bluetooth", "lan"}]

TypeOK ==
  /\ Lan!TypeOK
  /\ near \in {"no", "searching", "resolved", "rejected"}
  /\ ble \in {"off", "scanning", "failed"}
  /\ beacons \subseteq Beacon
  /\ listed \in Seq(Listed)

Init ==
  /\ Lan!Init
  /\ near = "no"
  /\ ble = "off"
  /\ beacons = {}
  /\ listed = <<>>

-----------------------------------------------------------------------------

IsListed(thing) == \E k \in DOMAIN listed : listed[k].thing = thing

\* add(): the first medium to find something is the one that is named.
Add(thing, via) ==
  listed' = IF IsListed(thing)
              THEN listed
              ELSE Append(listed, [thing |-> thing, via |-> via])

\* Each medium there is begins; the network may turn out not to be usable.
DiscoverNearby(bluetooth, network) ==
  /\ near = "no"
  /\ near' = IF bluetooth \/ network THEN "searching" ELSE "rejected"
  /\ ble' = IF bluetooth THEN "scanning" ELSE "off"
  /\ IF network THEN Lan!DiscoverLan ELSE UNCHANGED lanVars
  /\ UNCHANGED <<beacons, listed>>

\* BluetoothManager.discover() tells of each thing once.
BluetoothFinds(thing) ==
  /\ ble = "scanning"
  /\ thing \notin beacons
  /\ beacons' = beacons \cup {thing}
  /\ Add(thing, "bluetooth")
  /\ UNCHANGED <<lanVars, near, ble>>

BluetoothEnds ==
  /\ ble = "scanning"
  /\ ble' = "off"
  /\ UNCHANGED <<lanVars, near, beacons, listed>>

\* Seeded fault: the call waits for a medium that has failed.
BugBluetoothFails ==
  /\ ble = "scanning"
  /\ beacons = {}
  /\ ble' = "failed"
  /\ UNCHANGED <<lanVars, near, beacons, listed>>

\* The adapter does not search: the call rejects, and the network's search goes on.
BluetoothFails ==
  /\ ble = "scanning"
  /\ beacons = {}
  /\ ble' = "failed"
  /\ near' = "rejected"
  /\ UNCHANGED <<lanVars, beacons, listed>>

\* onFound of discoverLan().
LanHears(d) ==
  /\ Lan!SearcherHears(d)
  /\ IF found' # found
       THEN Add(found'[Len(found')], "lan")
       ELSE UNCHANGED listed
  /\ UNCHANGED <<near, ble, beacons>>

Resolves ==
  /\ near = "searching"
  /\ ble = "off"
  /\ search \in {"no", "over"}
  /\ near' = "resolved"
  /\ UNCHANGED <<lanVars, ble, beacons, listed>>

-----------------------------------------------------------------------------

Others ==
  \/ \E a \in Announcer : Lan!AnnouncerStep(a)
  \/ Lan!AskAgain
  \/ Lan!SearchEnds
  \/ \E n \in Lan!Socket : Lan!SocketStep(n)
  \/ \E d \in air : Lan!HeardByOthers(d) \/ Lan!Loses(d)

Next ==
  \/ \E bluetooth, network \in BOOLEAN : DiscoverNearby(bluetooth, network)
  \/ \E thing \in Beacon : BluetoothFinds(thing)
  \/ BluetoothEnds
  \/ BluetoothFails
  \/ Resolves
  \/ \E d \in air : LanHears(d)
  \/ Others /\ UNCHANGED nearVars

Spec == Init /\ [][Next]_vars

\* See LocalNetwork; and the search by Bluetooth has a time, too.
Fairness ==
  /\ Lan!Fairness
  /\ WF_vars(BluetoothEnds)
  /\ WF_vars(Resolves)

FairSpec == Spec /\ Fairness

-----------------------------------------------------------------------------

\* A packet leaves by the interface whose address it names: see LocalNetwork.
OwnAddress == Lan!OwnAddress

\* A search by the network finds who was there all along: see LocalNetwork.
SearchFinds == Lan!SearchFinds

\* What is found is listed, once, whichever media find it and in whichever order,
\* and whether or not the other one has failed meanwhile.
ListIsWhole ==
  /\ \A j, k \in DOMAIN listed : listed[j].thing = listed[k].thing => j = k
  /\ \A thing \in Beacon \cup Wanted :
       IsListed(thing) <=> thing \in beacons \/ Lan!Found(thing)

\* Whoever searches gets an answer, and also when one medium fails the search by
\* the other comes to its end and holds no socket, however much others announce.
SearchesEnd ==
  near = "searching" \/ Searcher \in open
    ~> near # "searching" /\ Searcher \notin open

\* docs/lan.md:65: a medium that fails does not bring down the other.  The call does
\* not reject while the search by the network is under way.
OneMediumIsEnough == near = "rejected" => search # "asking"
=============================================================================
