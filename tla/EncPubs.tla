------------------------------- MODULE EncPubs -------------------------------
(***************************************************************************)
(* The encryption keys of other identities (src/src/client.js: encPubOf    *)
(* and what it asks, learnEncPub, forgetEncPub, announceEncPub;            *)
(* src/src/encpub.js: the signed announcement).  The proxy that keeps the  *)
(* announcements, the app's resolver and the identities are the            *)
(* environment.                                                            *)
(*                                                                         *)
(* The keys of an identity are numbered in the order it announces them.  A *)
(* statement is the key it names, or Forged if it is not what it says:     *)
(* signed by somebody else, about somebody else, or no key at all.  The    *)
(* proxy may answer with any, an old one of the identity's too.  The app's *)
(* resolver is taken at its word: Forged, from it, is no key at all.       *)
(***************************************************************************)
EXTENDS Integers, FiniteSets

CONSTANTS
  Identity,  \* the identities asked about
  Mine,      \* those that announce through this client, and through others too
  MaxCalls,  \* bound: calls of encPubOf that wait, and of announceEncPub
  MaxKey     \* bound: keys of each identity

\* Assumed by Services, as is that of TurnRelay.
KeysAssumption ==
  /\ Mine \subseteq Identity
  /\ MaxKey \in Nat
  /\ MaxCalls \in Nat

NoKey == 0
Forged == -1
Key == 1 .. MaxKey

VARIABLES
  link,        \* of this client to its proxy
  announced,   \* the proxy: the last key announced by each identity
  encPubs,     \* this._encPubs
  inflight,    \* this._encPubInflight: the lookup under way for each identity
  waiting,     \* how many calls of encPubOf await it
  announcing,  \* this client's announcements under way
  floor        \* history: the oldest key that may be held, see ForgetEncPub

lookupVars == <<inflight, waiting>>
clientVars == <<encPubs, inflight, waiting, floor>>
vars == <<link, announced, encPubs, inflight, waiting, announcing, floor>>

\* "closed" is the app's doing.
Link == {"open", "down", "closed"}

\* A lookup asks the resolver, then the proxy, then verifies what it got; a
\* question of a connection that broke is "lost" and only times out.
Lookup == [stage : {"none", "resolving", "asked", "lost", "verifying"},
           key : {Forged, NoKey} \cup Key]
NoLookup == [stage |-> "none", key |-> NoKey]
Asking(stage) == [stage |-> stage, key |-> NoKey]

\* How many were sent, and the keys the proxy has stored and acknowledged since.
Announcing == [asked : Nat, stored : SUBSET Key]
NotAnnouncing == [asked |-> 0, stored |-> {}]

TypeOK ==
  /\ link \in Link
  /\ announced \in [Identity -> {NoKey} \cup Key]
  /\ encPubs \in [Identity -> {Forged, NoKey} \cup Key]
  /\ inflight \in [Identity -> Lookup]
  /\ waiting \in [Identity -> 0 .. MaxCalls]
  /\ announcing \in [Mine -> Announcing]
  /\ floor \in [Identity -> {NoKey} \cup Key]

Init ==
  /\ link = "down"
  /\ announced = [i \in Identity |-> NoKey]
  /\ encPubs = [i \in Identity |-> NoKey]
  /\ inflight = [i \in Identity |-> NoLookup]
  /\ waiting = [i \in Identity |-> 0]
  /\ announcing = [i \in Mine |-> NotAnnouncing]
  /\ floor = [i \in Identity |-> NoKey]

-----------------------------------------------------------------------------
(* What a lookup comes to *)

\* The lookups of S end: everybody who waits for one is given the key that is
\* kept from now on, or an error, and the next call starts anew (`.finally`).
Settle(S) ==
  /\ inflight' = [i \in Identity |-> IF i \in S THEN NoLookup ELSE inflight[i]]
  /\ waiting' = [i \in Identity |-> IF i \in S THEN 0 ELSE waiting[i]]

\* Seeded fault: `.then` for `.finally`, so that a lookup that fails stays known.
BugFail(S) ==
  /\ waiting' = [i \in Identity |-> IF i \in S THEN 0 ELSE waiting[i]]
  /\ UNCHANGED <<inflight, encPubs>>

Fail(S) == Settle(S) /\ UNCHANGED encPubs

\* readEncPubStatement(): only what the identity signed about itself.
Verifies(key) == key # Forged

Learnt(i, key) == encPubs' = [encPubs EXCEPT ![i] = key]

\* isEncPub(), which is all that is asked of a resolver's key.
IsEncPub(key) == key # Forged

-----------------------------------------------------------------------------
(* encPubOf *)

\* What is known is the answer; else the lookup under way, or a new one, brings it.
EncPubOf(i) ==
  /\ encPubs[i] = NoKey
  /\ waiting[i] < MaxCalls
  /\ inflight' = [inflight EXCEPT ![i] = IF @ = NoLookup THEN Asking("resolving") ELSE @]
  /\ waiting' = [waiting EXCEPT ![i] = @ + 1]
  /\ UNCHANGED <<link, announced, encPubs, announcing, floor>>

\* The resolver knows a key; how old that one is, is the app's affair.
ResolverKnows(i, key) ==
  /\ inflight[i].stage = "resolving"
  /\ IF IsEncPub(key)
       THEN /\ Learnt(i, key)
            /\ floor' = [floor EXCEPT ![i] = NoKey]
            /\ Settle({i})
       ELSE Fail({i}) /\ UNCHANGED floor
  /\ UNCHANGED <<link, announced, announcing>>

\* The resolver knows nothing, or there is none: _lookupEncPub asks the proxy.
AskProxy(i) ==
  /\ link = "open"
  /\ inflight[i].stage = "resolving"
  /\ inflight' = [inflight EXCEPT ![i] = Asking("asked")]
  /\ UNCHANGED <<link, announced, encPubs, waiting, announcing, floor>>

\* The answer: a statement, or none.  Nothing in it says that it is the latest, so
\* who trusts the proxy with an older one gets that (see ForgetTakesEffect).
ProxyAnswers(i, key) ==
  /\ inflight[i].stage = "asked"
  /\ key <= announced[i]
  /\ floor' = [floor EXCEPT ![i] = IF key \in Key /\ key < announced[i] THEN NoKey ELSE @]
  /\ IF key = NoKey
       THEN Fail({i})
       ELSE /\ inflight' = [inflight EXCEPT ![i] = [stage |-> "verifying", key |-> key]]
            /\ UNCHANGED <<waiting, encPubs>>
  /\ UNCHANGED <<link, announced, announcing>>

Verified(i) ==
  /\ inflight[i].stage = "verifying"
  /\ LET key == inflight[i].key
     IN IF Verifies(key)
          THEN Learnt(i, key) /\ Settle({i})
          ELSE Fail({i})
  /\ UNCHANGED <<link, announced, announcing, floor>>

\* The resolver throws, the proxy is known not to serve keys, the request cannot
\* leave, is answered with an error, or with nothing.
LookupFails(i) ==
  /\ inflight[i].stage \in {"resolving", "asked", "lost"}
  /\ Fail({i})
  /\ UNCHANGED <<link, announced, announcing, floor>>

-----------------------------------------------------------------------------
(* Keys that come another way, and forgetting *)

\* A statement from a channel or an invitation, as old as it may be, has been
\* verified; until then the call changes nothing.
LearnEncPub(i, key) ==
  /\ IF Verifies(key)
       THEN Learnt(i, key) /\ floor' = [floor EXCEPT ![i] = NoKey]
       ELSE UNCHANGED <<encPubs, floor>>
  /\ UNCHANGED <<link, announced, lookupVars, announcing>>

\* Seeded fault: forgetting all of them forgets none.
BugForgotten(S) ==
  encPubs' = [i \in Identity |-> IF S = {i} /\ S # Identity THEN NoKey ELSE encPubs[i]]

Forgotten(S) == encPubs' = [i \in Identity |-> IF i \in S THEN NoKey ELSE encPubs[i]]

\* Of one identity, or of all.  What is held from now on is no older than what
\* is announced now, except what a lookup that is already under way may bring.
ForgetEncPub(S) ==
  /\ Forgotten(S)
  /\ floor' = [i \in Identity |->
                 IF i \in S /\ inflight[i] = NoLookup THEN announced[i] ELSE floor[i]]
  /\ UNCHANGED <<link, announced, lookupVars, announcing>>

-----------------------------------------------------------------------------
(* Announcing *)

\* announceEncPub(), which may be called again before the proxy has answered: ask,
\* once it is signed, and keep the key when the proxy acknowledges it.
AnnounceEncPub(i) ==
  /\ link = "open"
  /\ announcing[i].asked + Cardinality(announcing[i].stored) < MaxCalls
  /\ announcing' = [announcing EXCEPT ![i].asked = @ + 1]
  /\ UNCHANGED <<link, announced, clientVars>>

Stored(i) ==
  /\ announced[i] < MaxKey
  /\ announced' = [announced EXCEPT ![i] = @ + 1]

ProxyStores(i) ==
  /\ announcing[i].asked > 0
  /\ Stored(i)
  /\ announcing' = [announcing EXCEPT ![i].asked = @ - 1, ![i].stored = @ \cup {announced'[i]}]
  /\ UNCHANGED <<link, clientVars>>

\* The proxy acknowledges in the order it stores.
First(i, key) == key \in announcing[i].stored /\ \A k \in announcing[i].stored : key <= k

Announced(i, key) ==
  /\ First(i, key)
  /\ announcing' = [announcing EXCEPT ![i].stored = @ \ {key}]
  /\ Learnt(i, key)
  /\ floor' = [floor EXCEPT ![i] = NoKey]
  /\ UNCHANGED <<link, announced, lookupVars>>

\* The proxy refuses or does not know how, or the request goes unanswered.
AnnouncementFails(i) ==
  /\ \/ /\ announcing[i].asked > 0
        /\ announcing' = [announcing EXCEPT ![i].asked = @ - 1]
     \/ \E key \in Key :
          /\ First(i, key)
          /\ announcing' = [announcing EXCEPT ![i].stored = @ \ {key}]
  /\ UNCHANGED <<link, announced, clientVars>>

\* The identity announces a key, its first or a new one, from another client.
PeerAnnounces(i) ==
  /\ Stored(i)
  /\ UNCHANGED <<link, announcing, clientVars>>

-----------------------------------------------------------------------------
(* The connection *)

Lost(l) == IF l.stage = "asked" THEN Asking("lost") ELSE l

LinkDrops ==
  /\ link = "open"
  /\ link' = "down"
  /\ inflight' = [i \in Identity |-> Lost(inflight[i])]
  /\ announcing' = [i \in Mine |-> NotAnnouncing]
  /\ UNCHANGED <<announced, encPubs, waiting, floor>>

LinkOpens ==
  /\ link # "open"
  /\ link' = "open"
  /\ UNCHANGED <<announced, announcing, clientVars>>

\* close(): every request is rejected; resolver, signing and verifying go on.
Close ==
  /\ link # "closed"
  /\ link' = "closed"
  /\ Fail({i \in Identity : inflight[i].stage \in {"asked", "lost"}})
  /\ announcing' = [i \in Mine |-> NotAnnouncing]
  /\ UNCHANGED <<announced, floor>>

-----------------------------------------------------------------------------

\* What is nobody else's affair.
KeyStep ==
  \/ \E i \in Identity : EncPubOf(i)
  \/ \E i \in Identity, key \in {Forged} \cup Key : ResolverKnows(i, key)
  \/ \E i \in Identity, key \in {Forged} \cup Key :
       key <= announced[i] /\ LearnEncPub(i, key)
  \/ \E i \in Identity : AskProxy(i)
  \/ \E i \in Identity, key \in {Forged, NoKey} \cup Key : ProxyAnswers(i, key)
  \/ \E i \in Identity : Verified(i)
  \/ \E i \in Identity : LookupFails(i)
  \/ \E S \in {Identity} \cup {{i} : i \in Identity} : ForgetEncPub(S)
  \/ \E i \in Mine : ProxyStores(i)
  \/ \E i \in Mine, key \in Key : Announced(i, key)
  \/ \E i \in Mine : AnnouncementFails(i)
  \/ \E i \in Identity : PeerAnnounces(i)

Next ==
  \/ KeyStep
  \/ \E i \in Mine : AnnounceEncPub(i)
  \/ LinkDrops
  \/ LinkOpens
  \/ Close

Spec == Init /\ [][Next]_vars

-----------------------------------------------------------------------------

\* A key that comes to be remembered, whoever put it forward and however long ago,
\* is one that its identity has announced; or else the app's resolver has named it
\* just now.  (encPubOf hands out what it remembers at that moment.)
KeysAreTheirs ==
  [][\A i \in Identity :
       encPubs'[i] \notin {NoKey, encPubs[i]} =>
         encPubs'[i] \in 1 .. announced[i] \/ ResolverKnows(i, encPubs'[i])]_vars

\* Once an identity's key has been forgotten with no lookup for it under way,
\* no key older than the one then announced is kept for it or handed to those
\* who ask, unless the app itself brings one or the proxy, which is trusted with
\* that, answers with one that is not the latest.
ForgetTakesEffect == \A i \in Identity : encPubs[i] # NoKey => encPubs[i] >= floor[i]

\* Nobody waits for a lookup that is over, and no lookup goes on for nobody: who
\* asks is told by the lookup that was under way, whether it succeeds, fails or
\* is cut off by close(), and it stays known until it has told them.
WaitersHaveLookup == \A i \in Identity : waiting[i] > 0 <=> inflight[i] # NoLookup
=============================================================================
